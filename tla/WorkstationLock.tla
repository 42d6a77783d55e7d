-------------------------- MODULE WorkstationLock --------------------------
(***************************************************************************)
(* NTProtect locks a Windows session; the WinSuite service backs each lock *)
(* with system policies (no task manager, no logoff, ...).                 *)
(*                                                                         *)
(* Every logged-on session runs one WinSuite process with one NTProtect    *)
(* object (src/NTProtect/NTProtect.cpp).  Its locker thread sends LOCK to  *)
(* the service, shows the locker window on a desktop of its own and, when  *)
(* the password is given or WM_QUIT arrives, sends UNLOCK.  Each command   *)
(* travels on a TCP connection of its own, closed as soon as the command   *)
(* is written and never acknowledged; a worker thread of the service       *)
(* (src/Winsuite_Server.cpp) handles it some time later, so the service    *)
(* handles the commands of different connections in any order.             *)
(*                                                                         *)
(* The handlers' AUTH message only sets a flag local to the worker and is  *)
(* part of the connection here.                                            *)
(***************************************************************************)
EXTENDS Integers, FiniteSets

CONSTANTS
  Sessions,    \* the user sessions; a session is also the name of its user's hive
  HKLM,        \* the machine-wide policy key (HideFastUserSwitching)
  NoLock,      \* the empty cache_locktime
  TickWidth,   \* GetTickCount() counts modulo this (2^32 in the code)
  Magic,       \* what an UNLOCK adds to the lock's ticks (0x31875)
  StartTick,   \* GetTickCount() in the initial state
  MaxLocks,    \* bound: calls of StartLocking that start a thread
  MaxLogons,   \* bound: later logons of each user
  MaxRestarts  \* bound: starts of the service after the first

Ticks == 0 .. TickWidth - 1

ASSUME LockAssumption ==
  /\ IsFiniteSet(Sessions)
  /\ HKLM \notin Sessions
  /\ NoLock \notin Ticks
  /\ TickWidth \in Nat \ {0}
  /\ Magic \in Ticks
  /\ StartTick \in Ticks
  /\ MaxLocks \in Nat
  /\ MaxLogons \in Nat
  /\ MaxRestarts \in Nat

VARIABLES
  now,            \* GetTickCount()
  readers,        \* ghost: the sessions that have locked in each tick
  past,           \* ghost: the ticks that have been
  obj,            \* the NTProtect object of each session, or that the user is away
  thr,            \* where each locker thread is
  storing,        \* NewThread has yet to store the thread id in ntp_lockthread
  ntp_lockthread, \* TRUE: the id of a thread, FALSE: 0
  quit,           \* WM_QUIT waits in the locker thread's queue
  locktime_ticks, \* ticks of the session's last LOCK
  started,        \* locker threads started so far
  svc,            \* the service process runs
  restarts,       \* service starts after the first
  conns,          \* commands written to the service and not handled yet
  cache_locktime, \* ticks of the lock the service holds, or NoLock
  busy,           \* the critical section: the policy update under way, or Idle
  policy,         \* whether each registry key restricts its user
  logons,         \* later logons of each user
  stranded        \* ghost: ticks of the locks no UNLOCK can match any more

clock       == <<now, readers, past>>
clientVars  == <<clock, obj, thr, storing, ntp_lockthread, quit, locktime_ticks, started>>
serviceVars == <<svc, restarts, cache_locktime, busy, policy>>
vars == <<clientVars, serviceVars, conns, logons, stranded>>

ObjStates == {"live", "terminating", "destroyed", "loggedoff"}
ThrStates == {"none", "sleep", "lockcmd", "desktop", "ui", "unlockcmd", "remove", "clear"}
Commands  == [from : Sessions, cmd : {"LOCK", "UNLOCK"}, val : Ticks]
Idle      == [on |-> FALSE, todo |-> {}, held |-> FALSE]
Updates   == [on : BOOLEAN, todo : SUBSET Sessions, held : BOOLEAN]

TypeOK ==
  /\ now \in Ticks
  /\ readers \in [Ticks -> SUBSET Sessions]
  /\ past \in SUBSET Ticks
  /\ obj \in [Sessions -> ObjStates]
  /\ thr \in [Sessions -> ThrStates]
  /\ storing \in [Sessions -> BOOLEAN]
  /\ ntp_lockthread \in [Sessions -> BOOLEAN]
  /\ quit \in [Sessions -> BOOLEAN]
  /\ locktime_ticks \in [Sessions -> Ticks]
  /\ started \in 0 .. MaxLocks
  /\ svc \in BOOLEAN
  /\ restarts \in 0 .. MaxRestarts
  /\ conns \in SUBSET Commands
  /\ cache_locktime \in Ticks \cup {NoLock}
  /\ busy \in Updates
  /\ policy \in [Sessions \cup {HKLM} -> BOOLEAN]
  /\ logons \in [Sessions -> 0 .. MaxLogons]
  /\ stranded \in SUBSET Ticks

Init ==
  /\ now = StartTick
  /\ readers = [t \in Ticks |-> {}]
  /\ past = {StartTick}
  /\ obj = [s \in Sessions |-> "live"]
  /\ thr = [s \in Sessions |-> "none"]
  /\ storing = [s \in Sessions |-> FALSE]
  /\ ntp_lockthread = [s \in Sessions |-> FALSE]
  /\ quit = [s \in Sessions |-> FALSE]
  /\ locktime_ticks = [s \in Sessions |-> StartTick]
  /\ started = 0
  /\ svc = TRUE
  /\ restarts = 0
  /\ conns = {}
  /\ cache_locktime = NoLock
  /\ busy = Idle
  /\ policy = [k \in Sessions \cup {HKLM} |-> FALSE]
  /\ logons = [s \in Sessions |-> 0]
  /\ stranded = {}

\* The hives under HKEY_USERS: those of the users who are logged on.
Loaded == {s \in Sessions : obj[s] # "loggedoff"}

\* DWORD arithmetic on a sum of two ticks.
Wrapped(n) == IF n >= TickWidth THEN n - TickWidth ELSE n

\* Faulty variants of the definitions below, each named for its fault, stand before them:
\* they show which property notices the fault.
Token_WithoutMagic(t) == t

\* What a session sends to undo a lock made at ticks t.
Token(t) == Wrapped(t + Magic)

Matches_AnyToken(t, val) == TRUE
Matches_WithoutWrap(t, val) == t + Magic = val

\* The service's comparison of an UNLOCK with the cached lock: CLong wraps as well.
Matches(t, val) == Wrapped(t + Magic) = val

-----------------------------------------------------------------------------
(* The NTProtect object, used by the main thread of the WinSuite process. *)

\* A call that finds ntp_lockthread set returns true and does nothing.
StartLocking(s) ==
  /\ obj[s] = "live" /\ ~storing[s] /\ ~ntp_lockthread[s]
  /\ started < MaxLocks
  /\ started' = started + 1
  /\ thr' = [thr EXCEPT ![s] = "sleep"]
  /\ storing' = [storing EXCEPT ![s] = TRUE]
  /\ UNCHANGED <<clock, obj, ntp_lockthread, quit, locktime_ticks, serviceVars, conns, logons, stranded>>

\* NewThread stores the id after it has left its critical section.
StoreThreadId(s) ==
  /\ storing[s]
  /\ storing' = [storing EXCEPT ![s] = FALSE]
  /\ ntp_lockthread' = [ntp_lockthread EXCEPT ![s] = TRUE]
  /\ UNCHANGED <<clock, obj, thr, quit, locktime_ticks, started, serviceVars, conns, logons, stranded>>

\* A thread owns a message queue once it has called into user32: not while it sleeps.
HasQueue(s) == thr[s] \notin {"none", "sleep"}

\* Terminate, called by the destructor: WM_QUIT is lost on a thread without a queue.
Terminate(s) ==
  /\ obj[s] = "live" /\ ~storing[s]
  /\ obj' = [obj EXCEPT ![s] = IF ntp_lockthread[s] THEN "terminating" ELSE "destroyed"]
  /\ quit' = [quit EXCEPT ![s] = ntp_lockthread[s] /\ HasQueue(s)]
  /\ UNCHANGED <<clock, thr, storing, ntp_lockthread, locktime_ticks, started, serviceVars, conns, logons, stranded>>

\* NTP_VM holds no thread: none was started or RemoveThread has run.
NoManagedThread(s) == thr[s] \in {"none", "clear"}

\* AwaitShutdown sees tmc_count = 0, the destructor returns, the memory is freed.
AwaitShutdown(s) ==
  /\ obj[s] = "terminating"
  /\ NoManagedThread(s)
  /\ obj' = [obj EXCEPT ![s] = "destroyed"]
  /\ UNCHANGED <<clock, thr, storing, ntp_lockthread, quit, locktime_ticks, started, serviceVars, conns, logons, stranded>>

-----------------------------------------------------------------------------
(* The locker thread. *)

\* Sleep (300).  It is long enough for NewThread's store to come first, which the code
\* relies on, and for GetTickCount to advance; a tick does not come round again
\* while a lock lasts (2^32 ms).
WakeUp(s) ==
  /\ thr[s] = "sleep" /\ ~storing[s]
  /\ thr' = [thr EXCEPT ![s] = "lockcmd"]
  /\ now' = Wrapped(now + 1)
  /\ now' \notin past
  /\ past' = past \cup {now'}
  /\ UNCHANGED <<readers, obj, storing, ntp_lockthread, quit, locktime_ticks, started, serviceVars, conns, logons, stranded>>

\* SendCommandToService: written to the service's socket, or not (no service, socket error).
Sent(s, cmd, val) ==
  /\ svc
  /\ conns' = conns \cup {[from |-> s, cmd |-> cmd, val |-> val]}

SendLock(s) ==
  /\ thr[s] = "lockcmd"
  /\ thr' = [thr EXCEPT ![s] = "desktop"]
  /\ locktime_ticks' = [locktime_ticks EXCEPT ![s] = now]
  /\ readers' = [readers EXCEPT ![now] = @ \cup {s}]
  /\ \/ Sent(s, "LOCK", now)
     \/ UNCHANGED conns
  /\ UNCHANGED <<now, past, obj, storing, ntp_lockthread, quit, started, serviceVars, logons, stranded>>

\* CreateDesktop, SetThreadDesktop and SwitchDesktop succeed: the locker window shows.
EnterDesktop(s) ==
  /\ thr[s] = "desktop"
  /\ thr' = [thr EXCEPT ![s] = "ui"]
  /\ UNCHANGED <<clock, obj, storing, ntp_lockthread, quit, locktime_ticks, started, serviceVars, conns, logons, stranded>>

\* One of them fails: the thread ends and never sends its UNLOCK.
DesktopFails(s) ==
  /\ thr[s] = "desktop"
  /\ thr' = [thr EXCEPT ![s] = "remove"]
  /\ stranded' = stranded \cup {locktime_ticks[s]}
  /\ UNCHANGED <<clock, obj, storing, ntp_lockthread, quit, locktime_ticks, started, serviceVars, conns, logons>>

\* GetMessage returns WM_QUIT: posted by Terminate, or by the password dialog.
LeaveDesktop(s) ==
  /\ thr[s] = "ui"
  /\ thr' = [thr EXCEPT ![s] = "unlockcmd"]
  /\ quit' = [quit EXCEPT ![s] = FALSE]
  /\ UNCHANGED <<clock, obj, storing, ntp_lockthread, locktime_ticks, started, serviceVars, conns, logons, stranded>>

PasswordGiven(s) == LeaveDesktop(s)
QuitReceived(s)  == quit[s] /\ LeaveDesktop(s)

SendUnlock_UntilSent(s) ==
  /\ thr[s] = "unlockcmd"
  /\ thr' = [thr EXCEPT ![s] = "remove"]
  /\ Sent(s, "UNLOCK", Token(locktime_ticks[s]))
  /\ UNCHANGED <<clock, obj, storing, ntp_lockthread, quit, locktime_ticks, started, serviceVars, logons, stranded>>

\* The result of the UNLOCK is ignored.
SendUnlock(s) ==
  /\ thr[s] = "unlockcmd"
  /\ thr' = [thr EXCEPT ![s] = "remove"]
  /\ \/ Sent(s, "UNLOCK", Token(locktime_ticks[s])) /\ UNCHANGED stranded
     \/ UNCHANGED conns /\ stranded' = stranded \cup {locktime_ticks[s]}
  /\ UNCHANGED <<clock, obj, storing, ntp_lockthread, quit, locktime_ticks, started, serviceVars, logons>>

\* NTP_VM.RemoveThread (), then the id is cleared in an object that may be gone.
RemoveThread(s) ==
  /\ thr[s] = "remove"
  /\ thr' = [thr EXCEPT ![s] = "clear"]
  /\ UNCHANGED <<clock, obj, storing, ntp_lockthread, quit, locktime_ticks, started, serviceVars, conns, logons, stranded>>

ClearThreadId(s) ==
  /\ thr[s] = "clear"
  /\ thr' = [thr EXCEPT ![s] = "none"]
  /\ ntp_lockthread' = [ntp_lockthread EXCEPT ![s] = FALSE]
  /\ quit' = [quit EXCEPT ![s] = FALSE]
  /\ UNCHANGED <<clock, obj, storing, locktime_ticks, started, serviceVars, conns, logons, stranded>>

-----------------------------------------------------------------------------
(* Processes and users come and go. *)

\* The locker thread has sent, or is about to undo, a lock.
Owes(s) == thr[s] \in {"desktop", "ui", "unlockcmd"}

\* The process of session s is gone, with its threads and its object.
ProcessGone(s, next) ==
  /\ obj' = [obj EXCEPT ![s] = next]
  /\ thr' = [thr EXCEPT ![s] = "none"]
  /\ storing' = [storing EXCEPT ![s] = FALSE]
  /\ ntp_lockthread' = [ntp_lockthread EXCEPT ![s] = FALSE]
  /\ quit' = [quit EXCEPT ![s] = FALSE]
  /\ UNCHANGED <<clock, locktime_ticks, started, serviceVars, conns>>

\* Killed or crashed before the destructor is through.
Kill(s) ==
  /\ obj[s] \in {"live", "terminating"}
  /\ ProcessGone(s, "destroyed")
  /\ stranded' = IF Owes(s) THEN stranded \cup {locktime_ticks[s]} ELSE stranded
  /\ UNCHANGED logons

\* The process exits after the destructor; it is started again or the user logs off.
Relaunch(s) ==
  /\ obj[s] = "destroyed"
  /\ ProcessGone(s, "live")
  /\ UNCHANGED <<logons, stranded>>

LogOff(s) ==
  /\ obj[s] = "destroyed"
  /\ ProcessGone(s, "loggedoff")
  /\ UNCHANGED <<logons, stranded>>

LogOn(s) ==
  /\ obj[s] = "loggedoff" /\ logons[s] < MaxLogons
  /\ logons' = [logons EXCEPT ![s] = @ + 1]
  /\ ProcessGone(s, "live")
  /\ UNCHANGED stranded

-----------------------------------------------------------------------------
(* The service: a worker takes one command and enters the critical section. *)

SetPolicies_MachineKeyStays(on) ==
  /\ policy' = [policy EXCEPT ![HKLM] = TRUE]
  /\ busy' = [on |-> on, todo |-> Loaded, held |-> TRUE]

\* NTProtect_SetPolicies: HKLM first, then the hives loaded at that moment, one by one.
SetPolicies(on) ==
  /\ policy' = [policy EXCEPT ![HKLM] = on]
  /\ busy' = [on |-> on, todo |-> Loaded, held |-> TRUE]

HandleLock(c) ==
  /\ svc /\ ~busy.held /\ c \in conns /\ c.cmd = "LOCK"
  /\ conns' = conns \ {c}
  /\ IF cache_locktime = NoLock
       THEN cache_locktime' = c.val /\ SetPolicies(TRUE)
       ELSE UNCHANGED <<cache_locktime, policy, busy>>
  /\ UNCHANGED <<clientVars, svc, restarts, logons, stranded>>

\* An UNLOCK that matches no cached lock is dropped; if its LOCK is still on the
\* way, that lock is stranded.
HandleUnlock(c) ==
  /\ svc /\ ~busy.held /\ c \in conns /\ c.cmd = "UNLOCK"
  /\ conns' = conns \ {c}
  /\ IF cache_locktime # NoLock /\ Matches(cache_locktime, c.val)
       THEN SetPolicies(FALSE) /\ UNCHANGED stranded
       ELSE /\ stranded' = stranded \cup {t \in Ticks : Token(t) = c.val /\ t # cache_locktime}
            /\ UNCHANGED <<policy, busy>>
  /\ UNCHANGED <<clientVars, svc, restarts, cache_locktime, logons>>

\* A hive unloaded since the enumeration cannot be written.
WritePolicy(u) ==
  /\ busy.held /\ u \in busy.todo
  /\ busy' = [busy EXCEPT !.todo = @ \ {u}]
  /\ policy' = [policy EXCEPT ![u] = IF u \in Loaded THEN busy.on ELSE @]
  /\ UNCHANGED <<clientVars, svc, restarts, cache_locktime, conns, logons, stranded>>

FinishPolicies_TooEarly ==
  /\ busy.held
  /\ busy' = Idle
  /\ cache_locktime' = IF busy.on THEN cache_locktime ELSE NoLock
  /\ UNCHANGED <<clientVars, svc, restarts, policy, conns, logons, stranded>>

\* Leaves the critical section; UNLOCK forgets the lock only now.
FinishPolicies ==
  /\ busy.held /\ busy.todo = {}
  /\ busy' = Idle
  /\ cache_locktime' = IF busy.on THEN cache_locktime ELSE NoLock
  /\ UNCHANGED <<clientVars, svc, restarts, policy, conns, logons, stranded>>

\* The service stops or crashes: memory and connections are lost, the registry stays.
ServiceEnds ==
  /\ svc
  /\ svc' = FALSE
  /\ conns' = {}
  /\ cache_locktime' = NoLock
  /\ busy' = Idle
  /\ UNCHANGED <<clientVars, restarts, policy, logons, stranded>>

ServiceStarts ==
  /\ ~svc /\ restarts < MaxRestarts
  /\ svc' = TRUE
  /\ restarts' = restarts + 1
  /\ UNCHANGED <<clientVars, cache_locktime, busy, policy, conns, logons, stranded>>

-----------------------------------------------------------------------------
\* What the threads do of themselves, and what they do when asked.
MainThreadRuns(s)   == StoreThreadId(s) \/ AwaitShutdown(s)
LockerThreadRuns(s) == \/ WakeUp(s) \/ SendLock(s) \/ EnterDesktop(s) \/ DesktopFails(s)
                       \/ QuitReceived(s)
                       \/ SendUnlock(s) \/ RemoveThread(s) \/ ClearThreadId(s)
Asked(s)        == StartLocking(s) \/ Terminate(s) \/ PasswordGiven(s)
User(s)         == Kill(s) \/ Relaunch(s) \/ LogOff(s) \/ LogOn(s)
Server_Worker   == \/ \E c \in conns : HandleLock(c) \/ HandleUnlock(c)
                   \/ \E u \in busy.todo : WritePolicy(u)
                   \/ FinishPolicies

Next ==
  \/ \E s \in Sessions : MainThreadRuns(s) \/ LockerThreadRuns(s) \/ Asked(s) \/ User(s)
  \/ Server_Worker
  \/ ServiceEnds \/ ServiceStarts

\* Threads are scheduled; nobody has to give the password, and nothing has to
\* fail, stop, start or log on.
Fairness ==
  /\ \A s \in Sessions : WF_vars(MainThreadRuns(s)) /\ WF_vars(LockerThreadRuns(s))
  /\ WF_vars(Server_Worker)

Spec == Init /\ [][Next]_vars
FairSpec == Spec /\ Fairness

-----------------------------------------------------------------------------
(* What the lock promises. *)

\* A lock the service caches is in force once the critical section is free: on the
\* machine key, and on the hive of the session that holds it (HandleLock, WritePolicy).
CachedLockIsEnforced ==
  ~busy.held /\ cache_locktime # NoLock =>
    /\ policy[HKLM]
    /\ \A s \in Sessions : Owes(s) /\ locktime_ticks[s] = cache_locktime => policy[s]

\* Without a cached lock nobody is restricted, unless the service has lost its memory
\* or the user's hive was away when the lock was undone (HandleUnlock, ServiceEnds, LogOff).
EnforcementNeedsCache ==
  ~busy.held /\ restarts = 0 /\ svc /\ cache_locktime = NoLock =>
    /\ ~policy[HKLM]
    /\ \A u \in Loaded : policy[u] => logons[u] > 0

\* An UNLOCK for the lock made at ticks t is on its way.
UnlockPending(t) ==
  \/ \E s \in Sessions : Owes(s) /\ locktime_ticks[s] = t
  \/ \E c \in conns : c.cmd = "UNLOCK" /\ c.val = Token(t)
  \/ busy.held /\ ~busy.on /\ cache_locktime = t

\* Somebody will undo the cached lock: its session, or an UNLOCK in flight.  The four
\* accidents recorded in stranded are the only ways to leave it behind (desktop
\* failure, UNLOCK not sent, process killed, UNLOCK handled before its LOCK).
CachedLockHasAnEnd ==
  cache_locktime # NoLock =>
    UnlockPending(cache_locktime) \/ cache_locktime \in stranded

\* While a session holds the cached lock, no other command undoes it, however late
\* and in whatever order commands arrive (HandleUnlock's comparison).  Two sessions
\* that lock in the same tick cannot be told apart.
HoldsAlone(s) ==
  /\ Owes(s) /\ locktime_ticks[s] = cache_locktime
  /\ readers[locktime_ticks[s]] = {s}

OwnLockHolds ==
  [][ \A s \in Sessions :
        HoldsAlone(s) /\ ~busy.held /\ svc' =>
          cache_locktime' = cache_locktime /\ ~(busy'.held /\ ~busy'.on) ]_vars

\* The destructor's comment: the locker thread finishes its work before the object is
\* destroyed.  RemoveThread lets the destructor go on one assignment too early.
LockerGoneBeforeDestroyed ==
  \A s \in Sessions : obj[s] = "destroyed" => thr[s] = "none"

\* An UNLOCK in flight for the cached lock releases it, or the service ends.
MatchingUnlockSent ==
  /\ cache_locktime # NoLock
  /\ \E c \in conns : c.cmd = "UNLOCK" /\ c.val = Token(cache_locktime)

UnlockReleases == MatchingUnlockSent ~> cache_locktime = NoLock

\* Terminate returns if its WM_QUIT found the locker thread's queue.
TerminateFinishes ==
  \A s \in Sessions : (obj[s] = "terminating" /\ quit[s]) ~> obj[s] # "terminating"
=============================================================================
