----------------------- MODULE WorkstationLock_proofs -----------------------
(***************************************************************************)
(* Type correctness and safety of WorkstationLock, for every set of        *)
(* sessions, tick width and bound.                                         *)
(*                                                                         *)
(* The argument: an UNLOCK in flight belongs to a lock its session has     *)
(* left (UnlockInv), adding Magic is injective (TokenInjective), and a     *)
(* cached lock is in force or being put in force on every hive of a        *)
(* session that may hold it (EnforceInv), which is loaded because a        *)
(* locker thread keeps its process, and so its user, there (ThreadInv).    *)
(* That a cached lock has an end is a balance (BalanceInv): at every ticks *)
(* the locks on their way or cached never outnumber the sessions that      *)
(* will undo one, because a session locks once in a tick (FreshInv).       *)
(***************************************************************************)
EXTENDS WorkstationLock, FiniteSetTheorems, TLAPS

USE LockAssumption DEF Ticks

\* Two locks never have the same token, wrapped or not (the sum in HandleUnlock).
LEMMA TokenInjective ==
  ASSUME NEW t \in Ticks, NEW r \in Ticks, Token(t) = Token(r)
  PROVE  t = r
BY DEF Token, Wrapped

-----------------------------------------------------------------------------
(* Types. *)

\* A policy update leaves well-formed policies and a well-formed critical section.
LEMMA SetPoliciesTyped ==
  ASSUME TypeOK, NEW on \in BOOLEAN, SetPolicies(on)
  PROVE  policy' \in [Sessions \cup {HKLM} -> BOOLEAN] /\ busy' \in Updates
<1>1. policy' \in [Sessions \cup {HKLM} -> BOOLEAN]
  BY DEF TypeOK, SetPolicies
<1>2. Loaded \in SUBSET Sessions
  BY DEF Loaded
<1>3. busy' \in Updates
  BY <1>2 DEF SetPolicies, Updates
<1>4. QED
  BY <1>1, <1>3

\* Every variable keeps its type, whatever threads, users and the service do.
THEOREM TypeCorrect == Spec => []TypeOK
<1>1. Init => TypeOK
  BY DEF Init, TypeOK, ObjStates, ThrStates, Idle, Updates, Commands
<1>2. TypeOK /\ [Next]_vars => TypeOK'
  <2> SUFFICES ASSUME TypeOK, [Next]_vars PROVE TypeOK'
    OBVIOUS
  <2> USE DEF TypeOK, vars, clock, clientVars, serviceVars, ObjStates, ThrStates, Commands, Idle, Updates, Loaded, Token, Wrapped
  <2>1. ASSUME NEW s \in Sessions, StartLocking(s) PROVE TypeOK'
    BY <2>1 DEF StartLocking
  <2>2. ASSUME NEW s \in Sessions, StoreThreadId(s) PROVE TypeOK'
    BY <2>2 DEF StoreThreadId
  <2>3. ASSUME NEW s \in Sessions, Terminate(s) PROVE TypeOK'
    BY <2>3 DEF Terminate, HasQueue
  <2>4. ASSUME NEW s \in Sessions, AwaitShutdown(s) PROVE TypeOK'
    BY <2>4 DEF AwaitShutdown, NoManagedThread
  <2>5. ASSUME NEW s \in Sessions, WakeUp(s) PROVE TypeOK'
    BY <2>5 DEF WakeUp
  <2>6. ASSUME NEW s \in Sessions, SendLock(s) PROVE TypeOK'
    BY <2>6 DEF SendLock, Sent
  <2>7. ASSUME NEW s \in Sessions, EnterDesktop(s) PROVE TypeOK'
    BY <2>7 DEF EnterDesktop
  <2>8. ASSUME NEW s \in Sessions, DesktopFails(s) PROVE TypeOK'
    BY <2>8 DEF DesktopFails
  <2>9. ASSUME NEW s \in Sessions, PasswordGiven(s) PROVE TypeOK'
    BY <2>9 DEF PasswordGiven, LeaveDesktop
  <2>10. ASSUME NEW s \in Sessions, QuitReceived(s) PROVE TypeOK'
    BY <2>10 DEF QuitReceived, LeaveDesktop
  <2>11. ASSUME NEW s \in Sessions, SendUnlock(s) PROVE TypeOK'
    <3>1. locktime_ticks[s] \in Ticks /\ Token(locktime_ticks[s]) \in Ticks
      OBVIOUS
    <3>2. conns' \in SUBSET Commands
      BY <2>11, <3>1 DEF SendUnlock, Sent
    <3>3. stranded' \in SUBSET Ticks
      BY <2>11, <3>1 DEF SendUnlock
    <3>4. QED
      BY <2>11, <3>2, <3>3 DEF SendUnlock
  <2>12. ASSUME NEW s \in Sessions, RemoveThread(s) PROVE TypeOK'
    BY <2>12 DEF RemoveThread
  <2>13. ASSUME NEW s \in Sessions, ClearThreadId(s) PROVE TypeOK'
    BY <2>13 DEF ClearThreadId
  <2>14. ASSUME NEW s \in Sessions, Kill(s) PROVE TypeOK'
    BY <2>14 DEF Kill, ProcessGone
  <2>15. ASSUME NEW s \in Sessions, Relaunch(s) PROVE TypeOK'
    BY <2>15 DEF Relaunch, ProcessGone
  <2>16. ASSUME NEW s \in Sessions, LogOff(s) PROVE TypeOK'
    BY <2>16 DEF LogOff, ProcessGone
  <2>17. ASSUME NEW s \in Sessions, LogOn(s) PROVE TypeOK'
    BY <2>17 DEF LogOn, ProcessGone
  <2>18. ASSUME NEW c \in conns, HandleLock(c) PROVE TypeOK'
    <3>1. policy' \in [Sessions \cup {HKLM} -> BOOLEAN] /\ busy' \in Updates
      BY <2>18, SetPoliciesTyped DEF HandleLock
    <3>2. cache_locktime' \in Ticks \cup {NoLock} /\ conns' \in SUBSET Commands
      BY <2>18 DEF HandleLock
    <3>3. QED
      BY <2>18, <3>1, <3>2 DEF HandleLock
  <2>19. ASSUME NEW c \in conns, HandleUnlock(c) PROVE TypeOK'
    <3>1. policy' \in [Sessions \cup {HKLM} -> BOOLEAN] /\ busy' \in Updates
      BY <2>19, SetPoliciesTyped DEF HandleUnlock
    <3>2. stranded' \in SUBSET Ticks /\ conns' \in SUBSET Commands
      BY <2>19 DEF HandleUnlock
    <3>3. QED
      BY <2>19, <3>1, <3>2 DEF HandleUnlock
  <2>20. ASSUME NEW u \in busy.todo, WritePolicy(u) PROVE TypeOK'
    BY <2>20 DEF WritePolicy
  <2>21. ASSUME FinishPolicies PROVE TypeOK'
    BY <2>21 DEF FinishPolicies
  <2>22. ASSUME ServiceEnds PROVE TypeOK'
    BY <2>22 DEF ServiceEnds
  <2>23. ASSUME ServiceStarts PROVE TypeOK'
    BY <2>23 DEF ServiceStarts
  <2>24. CASE UNCHANGED vars
    BY <2>24 DEF vars
  <2>25. QED
    BY <2>1, <2>2, <2>3, <2>4, <2>5, <2>6, <2>7, <2>8, <2>9, <2>10, <2>11, <2>12, <2>13, <2>14, <2>15, <2>16, <2>17, <2>18, <2>19, <2>20, <2>21, <2>22, <2>23, <2>24 DEF Next, MainThreadRuns, LockerThreadRuns, Asked, User, Server_Worker
<1>3. QED
  BY <1>1, <1>2, PTL DEF Spec

-----------------------------------------------------------------------------
(* The inductive invariant. *)

\* The locker thread a process manages belongs to an object that still exists, and
\* ntp_lockthread covers its whole life.
ThreadInv ==
  \A s \in Sessions :
    /\ storing[s] => thr[s] = "sleep"
    /\ thr[s] # "none" => storing[s] \/ ntp_lockthread[s]
    /\ ~NoManagedThread(s) => obj[s] \in {"live", "terminating"}

\* Every tick in use has been: a later GetTickCount differs from all of them.
TickInv ==
  /\ now \in past
  /\ cache_locktime # NoLock => cache_locktime \in past
  /\ \A s \in Sessions : locktime_ticks[s] \in past
  /\ \A c \in conns : c.cmd = "LOCK" => c.val \in past
  /\ \A s \in Sessions : Owes(s) => s \in readers[locktime_ticks[s]]

\* Session s has locked at ticks t, or is about to.
LocksAt(s, t) ==
  \/ thr[s] = "lockcmd" /\ now = t
  \/ Owes(s) /\ locktime_ticks[s] = t

\* The service is undoing its lock.
Releasing == busy.held /\ ~busy.on

\* A lock that is cached is in force, or is being put in force.
EnforceInv ==
  /\ busy.held => cache_locktime # NoLock
  /\ ~busy.held => busy.todo = {}
  /\ cache_locktime # NoLock /\ ~Releasing =>
       /\ policy[HKLM]
       /\ \A s \in Sessions : LocksAt(s, cache_locktime) => policy[s] \/ s \in busy.todo

\* Without a cached lock nothing is in force that the service could undo.
ReleaseInv ==
  restarts = 0 /\ svc =>
    /\ cache_locktime = NoLock \/ Releasing => ~policy[HKLM]
    /\ \A u \in Loaded :
         policy[u] /\ logons[u] = 0 =>
           cache_locktime # NoLock /\ (~Releasing \/ u \in busy.todo)

\* An UNLOCK in flight stems from a session that locked at its ticks and has since
\* left that lock.
UnlockInv ==
  \A c \in conns :
    c.cmd = "UNLOCK" =>
      \E t \in past : /\ c.val = Token(t)
                      /\ c.from \in readers[t]
                      /\ ~LocksAt(c.from, t)

SafetyInv == TypeOK /\ ThreadInv /\ TickInv /\ EnforceInv /\ ReleaseInv /\ UnlockInv

\* ThreadInv is inductive: threads start and end under an object and its ntp_lockthread.
LEMMA ThreadsManaged ==
  ASSUME TypeOK, ThreadInv, [Next]_vars PROVE ThreadInv'
<1> USE DEF ThreadInv, TypeOK, NoManagedThread, vars, clock, clientVars, serviceVars
<1>1. ASSUME NEW s \in Sessions, StartLocking(s) PROVE ThreadInv'
  BY <1>1 DEF StartLocking
<1>2. ASSUME NEW s \in Sessions, StoreThreadId(s) PROVE ThreadInv'
  BY <1>2 DEF StoreThreadId
<1>3. ASSUME NEW s \in Sessions, Terminate(s) PROVE ThreadInv'
  BY <1>3 DEF Terminate, HasQueue
<1>4. ASSUME NEW s \in Sessions, AwaitShutdown(s) PROVE ThreadInv'
  BY <1>4 DEF AwaitShutdown, NoManagedThread
<1>5. ASSUME NEW s \in Sessions, WakeUp(s) PROVE ThreadInv'
  BY <1>5 DEF WakeUp
<1>6. ASSUME NEW s \in Sessions, SendLock(s) PROVE ThreadInv'
  BY <1>6 DEF SendLock, Sent
<1>7. ASSUME NEW s \in Sessions, EnterDesktop(s) PROVE ThreadInv'
  BY <1>7 DEF EnterDesktop
<1>8. ASSUME NEW s \in Sessions, DesktopFails(s) PROVE ThreadInv'
  BY <1>8 DEF DesktopFails
<1>9. ASSUME NEW s \in Sessions, PasswordGiven(s) PROVE ThreadInv'
  BY <1>9 DEF PasswordGiven, LeaveDesktop
<1>10. ASSUME NEW s \in Sessions, QuitReceived(s) PROVE ThreadInv'
  BY <1>10 DEF QuitReceived, LeaveDesktop
<1>11. ASSUME NEW s \in Sessions, SendUnlock(s) PROVE ThreadInv'
  BY <1>11 DEF SendUnlock, Sent
<1>12. ASSUME NEW s \in Sessions, RemoveThread(s) PROVE ThreadInv'
  BY <1>12 DEF RemoveThread
<1>13. ASSUME NEW s \in Sessions, ClearThreadId(s) PROVE ThreadInv'
  BY <1>13 DEF ClearThreadId
<1>14. ASSUME NEW s \in Sessions, Kill(s) PROVE ThreadInv'
  BY <1>14 DEF Kill, ProcessGone
<1>15. ASSUME NEW s \in Sessions, Relaunch(s) PROVE ThreadInv'
  BY <1>15 DEF Relaunch, ProcessGone
<1>16. ASSUME NEW s \in Sessions, LogOff(s) PROVE ThreadInv'
  BY <1>16 DEF LogOff, ProcessGone
<1>17. ASSUME NEW s \in Sessions, LogOn(s) PROVE ThreadInv'
  BY <1>17 DEF LogOn, ProcessGone
<1>18. ASSUME NEW c \in conns, HandleLock(c) PROVE ThreadInv'
  BY <1>18 DEF HandleLock, SetPolicies
<1>19. ASSUME NEW c \in conns, HandleUnlock(c) PROVE ThreadInv'
  BY <1>19 DEF HandleUnlock, SetPolicies
<1>20. ASSUME NEW u \in busy.todo, WritePolicy(u) PROVE ThreadInv'
  BY <1>20 DEF WritePolicy
<1>21. ASSUME FinishPolicies PROVE ThreadInv'
  BY <1>21 DEF FinishPolicies
<1>22. ASSUME ServiceEnds PROVE ThreadInv'
  BY <1>22 DEF ServiceEnds
<1>23. ASSUME ServiceStarts PROVE ThreadInv'
  BY <1>23 DEF ServiceStarts
<1>24. CASE UNCHANGED vars
  BY <1>24 DEF vars
<1>25. QED
  BY <1>1, <1>2, <1>3, <1>4, <1>5, <1>6, <1>7, <1>8, <1>9, <1>10, <1>11, <1>12, <1>13, <1>14, <1>15, <1>16, <1>17, <1>18, <1>19, <1>20, <1>21, <1>22, <1>23, <1>24 DEF Next, MainThreadRuns, LockerThreadRuns, Asked, User, Server_Worker

\* TickInv is preserved: every tick a thread or the service stores has been read from now.
LEMMA TicksPast ==
  ASSUME TypeOK, TickInv, UnlockInv, ThreadInv, [Next]_vars PROVE TickInv'
<1> USE DEF TickInv, TypeOK, Owes, Commands, vars, clock, clientVars, serviceVars
<1>1. ASSUME NEW s \in Sessions, StartLocking(s) PROVE TickInv'
  BY <1>1 DEF StartLocking
<1>2. ASSUME NEW s \in Sessions, StoreThreadId(s) PROVE TickInv'
  BY <1>2 DEF StoreThreadId
<1>3. ASSUME NEW s \in Sessions, Terminate(s) PROVE TickInv'
  BY <1>3 DEF Terminate, HasQueue
<1>4. ASSUME NEW s \in Sessions, AwaitShutdown(s) PROVE TickInv'
  BY <1>4 DEF AwaitShutdown, NoManagedThread
<1>5. ASSUME NEW s \in Sessions, WakeUp(s) PROVE TickInv'
  BY <1>5 DEF WakeUp
<1>6. ASSUME NEW s \in Sessions, SendLock(s) PROVE TickInv'
  BY <1>6 DEF SendLock, Sent
<1>7. ASSUME NEW s \in Sessions, EnterDesktop(s) PROVE TickInv'
  BY <1>7 DEF EnterDesktop
<1>8. ASSUME NEW s \in Sessions, DesktopFails(s) PROVE TickInv'
  BY <1>8 DEF DesktopFails
<1>9. ASSUME NEW s \in Sessions, PasswordGiven(s) PROVE TickInv'
  BY <1>9 DEF PasswordGiven, LeaveDesktop
<1>10. ASSUME NEW s \in Sessions, QuitReceived(s) PROVE TickInv'
  BY <1>10 DEF QuitReceived, LeaveDesktop
<1>11. ASSUME NEW s \in Sessions, SendUnlock(s) PROVE TickInv'
  BY <1>11 DEF SendUnlock, Sent
<1>12. ASSUME NEW s \in Sessions, RemoveThread(s) PROVE TickInv'
  BY <1>12 DEF RemoveThread
<1>13. ASSUME NEW s \in Sessions, ClearThreadId(s) PROVE TickInv'
  BY <1>13 DEF ClearThreadId
<1>14. ASSUME NEW s \in Sessions, Kill(s) PROVE TickInv'
  BY <1>14 DEF Kill, ProcessGone
<1>15. ASSUME NEW s \in Sessions, Relaunch(s) PROVE TickInv'
  BY <1>15 DEF Relaunch, ProcessGone
<1>16. ASSUME NEW s \in Sessions, LogOff(s) PROVE TickInv'
  BY <1>16 DEF LogOff, ProcessGone
<1>17. ASSUME NEW s \in Sessions, LogOn(s) PROVE TickInv'
  BY <1>17 DEF LogOn, ProcessGone
<1>18. ASSUME NEW c \in conns, HandleLock(c) PROVE TickInv'
  BY <1>18 DEF HandleLock, SetPolicies
<1>19. ASSUME NEW c \in conns, HandleUnlock(c) PROVE TickInv'
  BY <1>19 DEF HandleUnlock, SetPolicies
<1>20. ASSUME NEW u \in busy.todo, WritePolicy(u) PROVE TickInv'
  BY <1>20 DEF WritePolicy
<1>21. ASSUME FinishPolicies PROVE TickInv'
  BY <1>21 DEF FinishPolicies
<1>22. ASSUME ServiceEnds PROVE TickInv'
  BY <1>22 DEF ServiceEnds
<1>23. ASSUME ServiceStarts PROVE TickInv'
  BY <1>23 DEF ServiceStarts
<1>24. CASE UNCHANGED vars
  BY <1>24 DEF vars
<1>25. QED
  BY <1>1, <1>2, <1>3, <1>4, <1>5, <1>6, <1>7, <1>8, <1>9, <1>10, <1>11, <1>12, <1>13, <1>14, <1>15, <1>16, <1>17, <1>18, <1>19, <1>20, <1>21, <1>22, <1>23, <1>24 DEF Next, MainThreadRuns, LockerThreadRuns, Asked, User, Server_Worker

\* EnforceInv is preserved: a fresh lock cannot equal the cached one, a new lock covers
\* every hive its holder may have, and writing one hive leaves the others.
LEMMA LockEnforced ==
  ASSUME TypeOK, TickInv, ThreadInv, EnforceInv, [Next]_vars PROVE EnforceInv'
<1> USE DEF EnforceInv, TypeOK, Owes, LocksAt, Releasing, Idle, vars, clock, clientVars, serviceVars
<1>1. ASSUME NEW s \in Sessions, StartLocking(s) PROVE EnforceInv'
  BY <1>1 DEF StartLocking
<1>2. ASSUME NEW s \in Sessions, StoreThreadId(s) PROVE EnforceInv'
  BY <1>2 DEF StoreThreadId
<1>3. ASSUME NEW s \in Sessions, Terminate(s) PROVE EnforceInv'
  BY <1>3 DEF Terminate, HasQueue
<1>4. ASSUME NEW s \in Sessions, AwaitShutdown(s) PROVE EnforceInv'
  BY <1>4 DEF AwaitShutdown, NoManagedThread
<1>5. ASSUME NEW s \in Sessions, WakeUp(s) PROVE EnforceInv'
  <2> USE <1>5 DEF EnforceInv, TypeOK, TickInv, Releasing, clock, clientVars, serviceVars
  <2>1. cache_locktime # NoLock => now' # cache_locktime
    BY DEF WakeUp
  <2>2. ASSUME NEW r \in Sessions, cache_locktime # NoLock, LocksAt(r, cache_locktime)' PROVE LocksAt(r, cache_locktime)
    BY <2>1, <2>2 DEF WakeUp, LocksAt, Owes
  <2>3. QED
    BY <2>2 DEF WakeUp
<1>6. ASSUME NEW s \in Sessions, SendLock(s) PROVE EnforceInv'
  BY <1>6 DEF SendLock, Sent
<1>7. ASSUME NEW s \in Sessions, EnterDesktop(s) PROVE EnforceInv'
  BY <1>7 DEF EnterDesktop
<1>8. ASSUME NEW s \in Sessions, DesktopFails(s) PROVE EnforceInv'
  BY <1>8 DEF DesktopFails
<1>9. ASSUME NEW s \in Sessions, PasswordGiven(s) PROVE EnforceInv'
  BY <1>9 DEF PasswordGiven, LeaveDesktop
<1>10. ASSUME NEW s \in Sessions, QuitReceived(s) PROVE EnforceInv'
  BY <1>10 DEF QuitReceived, LeaveDesktop
<1>11. ASSUME NEW s \in Sessions, SendUnlock(s) PROVE EnforceInv'
  BY <1>11 DEF SendUnlock, Sent
<1>12. ASSUME NEW s \in Sessions, RemoveThread(s) PROVE EnforceInv'
  BY <1>12 DEF RemoveThread
<1>13. ASSUME NEW s \in Sessions, ClearThreadId(s) PROVE EnforceInv'
  BY <1>13 DEF ClearThreadId
<1>14. ASSUME NEW s \in Sessions, Kill(s) PROVE EnforceInv'
  BY <1>14 DEF Kill, ProcessGone
<1>15. ASSUME NEW s \in Sessions, Relaunch(s) PROVE EnforceInv'
  BY <1>15 DEF Relaunch, ProcessGone
<1>16. ASSUME NEW s \in Sessions, LogOff(s) PROVE EnforceInv'
  BY <1>16 DEF LogOff, ProcessGone
<1>17. ASSUME NEW s \in Sessions, LogOn(s) PROVE EnforceInv'
  BY <1>17 DEF LogOn, ProcessGone
<1>18. ASSUME NEW c \in conns, HandleLock(c) PROVE EnforceInv'
  <2> USE <1>18 DEF EnforceInv, TypeOK, Releasing, Commands, clock, clientVars, serviceVars
  <2>1. CASE cache_locktime = NoLock
    <3>1. c.val \in Ticks /\ cache_locktime' = c.val /\ SetPolicies(TRUE)
      BY <2>1 DEF HandleLock
    <3>2. policy'[HKLM] /\ busy'.held /\ busy'.on /\ busy'.todo = Loaded
      BY <3>1 DEF SetPolicies
    <3>3. ASSUME NEW s \in Sessions, LocksAt(s, cache_locktime)' PROVE s \in Loaded
      BY <3>3 DEF HandleLock, LocksAt, Owes, ThreadInv, NoManagedThread, Loaded
    <3>4. QED
      BY <3>1, <3>2, <3>3
  <2>2. CASE cache_locktime # NoLock
    BY <2>2 DEF HandleLock, LocksAt, Owes
  <2>3. QED
    BY <2>1, <2>2
<1>19. ASSUME NEW c \in conns, HandleUnlock(c) PROVE EnforceInv'
  BY <1>19 DEF HandleUnlock, SetPolicies
<1>20. ASSUME NEW u \in busy.todo, WritePolicy(u) PROVE EnforceInv'
  <2> USE <1>20 DEF EnforceInv, TypeOK, Releasing, Updates, clock, clientVars, serviceVars
  <2>1. busy' = [on |-> busy.on, todo |-> busy.todo \ {u}, held |-> busy.held]
    BY DEF WritePolicy
  <2>2. u \in Sessions /\ busy.held /\ busy'.held
    BY <2>1 DEF WritePolicy
  <2>3. policy'[HKLM] = policy[HKLM]
    BY <2>2 DEF WritePolicy
  <2>4. ASSUME NEW s \in Sessions, cache_locktime # NoLock, busy.on, LocksAt(s, cache_locktime)'
        PROVE  policy'[s] \/ s \in busy'.todo
    <3>1. LocksAt(s, cache_locktime)
      BY <2>4 DEF WritePolicy, LocksAt, Owes
    <3>2. s \in Loaded
      BY <3>1 DEF LocksAt, Owes, ThreadInv, NoManagedThread, Loaded
    <3>3. CASE s = u
      BY <3>2, <3>3, <2>4 DEF WritePolicy
    <3>4. CASE s # u
      BY <3>1, <3>4, <2>1, <2>2, <2>4 DEF WritePolicy
    <3>5. QED
      BY <3>3, <3>4
  <2>5. QED
    BY <2>1, <2>2, <2>3, <2>4 DEF WritePolicy
<1>21. ASSUME FinishPolicies PROVE EnforceInv'
  BY <1>21 DEF FinishPolicies
<1>22. ASSUME ServiceEnds PROVE EnforceInv'
  BY <1>22 DEF ServiceEnds
<1>23. ASSUME ServiceStarts PROVE EnforceInv'
  BY <1>23 DEF ServiceStarts
<1>24. CASE UNCHANGED vars
  BY <1>24 DEF vars
<1>25. QED
  BY <1>1, <1>2, <1>3, <1>4, <1>5, <1>6, <1>7, <1>8, <1>9, <1>10, <1>11, <1>12, <1>13, <1>14, <1>15, <1>16, <1>17, <1>18, <1>19, <1>20, <1>21, <1>22, <1>23, <1>24 DEF Next, MainThreadRuns, LockerThreadRuns, Asked, User, Server_Worker

\* ReleaseInv is preserved: an update enumerates every hive loaded at its start.
LEMMA ReleaseComplete ==
  ASSUME TypeOK, EnforceInv, ReleaseInv, [Next]_vars PROVE ReleaseInv'
<1> USE DEF ReleaseInv, EnforceInv, TypeOK, Releasing, Idle, Loaded, ObjStates, vars, clock, clientVars, serviceVars
<1>1. ASSUME NEW s \in Sessions, StartLocking(s) PROVE ReleaseInv'
  BY <1>1 DEF StartLocking
<1>2. ASSUME NEW s \in Sessions, StoreThreadId(s) PROVE ReleaseInv'
  BY <1>2 DEF StoreThreadId
<1>3. ASSUME NEW s \in Sessions, Terminate(s) PROVE ReleaseInv'
  BY <1>3 DEF Terminate, HasQueue
<1>4. ASSUME NEW s \in Sessions, AwaitShutdown(s) PROVE ReleaseInv'
  BY <1>4 DEF AwaitShutdown, NoManagedThread
<1>5. ASSUME NEW s \in Sessions, WakeUp(s) PROVE ReleaseInv'
  BY <1>5 DEF WakeUp
<1>6. ASSUME NEW s \in Sessions, SendLock(s) PROVE ReleaseInv'
  BY <1>6 DEF SendLock, Sent
<1>7. ASSUME NEW s \in Sessions, EnterDesktop(s) PROVE ReleaseInv'
  BY <1>7 DEF EnterDesktop
<1>8. ASSUME NEW s \in Sessions, DesktopFails(s) PROVE ReleaseInv'
  BY <1>8 DEF DesktopFails
<1>9. ASSUME NEW s \in Sessions, PasswordGiven(s) PROVE ReleaseInv'
  BY <1>9 DEF PasswordGiven, LeaveDesktop
<1>10. ASSUME NEW s \in Sessions, QuitReceived(s) PROVE ReleaseInv'
  BY <1>10 DEF QuitReceived, LeaveDesktop
<1>11. ASSUME NEW s \in Sessions, SendUnlock(s) PROVE ReleaseInv'
  BY <1>11 DEF SendUnlock, Sent
<1>12. ASSUME NEW s \in Sessions, RemoveThread(s) PROVE ReleaseInv'
  BY <1>12 DEF RemoveThread
<1>13. ASSUME NEW s \in Sessions, ClearThreadId(s) PROVE ReleaseInv'
  BY <1>13 DEF ClearThreadId
<1>14. ASSUME NEW s \in Sessions, Kill(s) PROVE ReleaseInv'
  BY <1>14 DEF Kill, ProcessGone
<1>15. ASSUME NEW s \in Sessions, Relaunch(s) PROVE ReleaseInv'
  BY <1>15 DEF Relaunch, ProcessGone
<1>16. ASSUME NEW s \in Sessions, LogOff(s) PROVE ReleaseInv'
  BY <1>16 DEF LogOff, ProcessGone
<1>17. ASSUME NEW s \in Sessions, LogOn(s) PROVE ReleaseInv'
  BY <1>17 DEF LogOn, ProcessGone
<1>18. ASSUME NEW c \in conns, HandleLock(c) PROVE ReleaseInv'
  <2> USE <1>18 DEF ReleaseInv, TypeOK, Releasing, Commands, clock, clientVars, serviceVars
  <2>1. CASE cache_locktime = NoLock
    <3>1. c.val \in Ticks /\ cache_locktime' = c.val /\ SetPolicies(TRUE)
      BY <2>1 DEF HandleLock
    <3>2. cache_locktime' # NoLock /\ ~Releasing'
      BY <3>1 DEF SetPolicies
    <3>4. QED
      BY <3>2
  <2>2. CASE cache_locktime # NoLock
    BY <2>2 DEF HandleLock, Loaded
  <2>3. QED
    BY <2>1, <2>2
<1>19. ASSUME NEW c \in conns, HandleUnlock(c) PROVE ReleaseInv'
  BY <1>19 DEF HandleUnlock, SetPolicies
<1>20. ASSUME NEW u \in busy.todo, WritePolicy(u) PROVE ReleaseInv'
  BY <1>20 DEF WritePolicy
<1>21. ASSUME FinishPolicies PROVE ReleaseInv'
  BY <1>21 DEF FinishPolicies
<1>22. ASSUME ServiceEnds PROVE ReleaseInv'
  BY <1>22 DEF ServiceEnds
<1>23. ASSUME ServiceStarts PROVE ReleaseInv'
  BY <1>23 DEF ServiceStarts
<1>24. CASE UNCHANGED vars
  BY <1>24 DEF vars
<1>25. QED
  BY <1>1, <1>2, <1>3, <1>4, <1>5, <1>6, <1>7, <1>8, <1>9, <1>10, <1>11, <1>12, <1>13, <1>14, <1>15, <1>16, <1>17, <1>18, <1>19, <1>20, <1>21, <1>22, <1>23, <1>24 DEF Next, MainThreadRuns, LockerThreadRuns, Asked, User, Server_Worker

\* UnlockInv is preserved: an UNLOCK is sent when its thread leaves the lock, and a
\* session never locks at the same ticks again.
LEMMA UnlocksOwned ==
  ASSUME TypeOK, TickInv, UnlockInv, [Next]_vars PROVE UnlockInv'
<1> USE DEF UnlockInv, TickInv, TypeOK, Owes, LocksAt, Commands, Token, Wrapped, vars, clock, clientVars, serviceVars
<1>1. ASSUME NEW s \in Sessions, StartLocking(s) PROVE UnlockInv'
  BY <1>1 DEF StartLocking
<1>2. ASSUME NEW s \in Sessions, StoreThreadId(s) PROVE UnlockInv'
  BY <1>2 DEF StoreThreadId
<1>3. ASSUME NEW s \in Sessions, Terminate(s) PROVE UnlockInv'
  BY <1>3 DEF Terminate, HasQueue
<1>4. ASSUME NEW s \in Sessions, AwaitShutdown(s) PROVE UnlockInv'
  BY <1>4 DEF AwaitShutdown, NoManagedThread
<1>5. ASSUME NEW s \in Sessions, WakeUp(s) PROVE UnlockInv'
  BY <1>5 DEF WakeUp
<1>6. ASSUME NEW s \in Sessions, SendLock(s) PROVE UnlockInv'
  <2> USE <1>6 DEF TypeOK, Commands, clock, clientVars, serviceVars
  <2> SUFFICES ASSUME NEW c \in conns', c.cmd = "UNLOCK"
               PROVE  \E t \in past' : /\ c.val = Token(t)
                                       /\ c.from \in readers'[t]
                                       /\ ~LocksAt(c.from, t)'
    BY DEF UnlockInv
  <2>1. c \in conns
    BY DEF SendLock, Sent
  <2>2. PICK t \in past : c.val = Token(t) /\ c.from \in readers[t] /\ ~LocksAt(c.from, t)
    BY <2>1 DEF UnlockInv
  <2>3. t \in past' /\ c.from \in readers'[t]
    BY <2>2 DEF SendLock
  <2>4. ~LocksAt(c.from, t)'
    BY <2>1, <2>2 DEF SendLock, LocksAt, Owes
  <2>5. QED
    BY <2>2, <2>3, <2>4
<1>7. ASSUME NEW s \in Sessions, EnterDesktop(s) PROVE UnlockInv'
  BY <1>7 DEF EnterDesktop
<1>8. ASSUME NEW s \in Sessions, DesktopFails(s) PROVE UnlockInv'
  BY <1>8 DEF DesktopFails
<1>9. ASSUME NEW s \in Sessions, PasswordGiven(s) PROVE UnlockInv'
  BY <1>9 DEF PasswordGiven, LeaveDesktop
<1>10. ASSUME NEW s \in Sessions, QuitReceived(s) PROVE UnlockInv'
  BY <1>10 DEF QuitReceived, LeaveDesktop
<1>11. ASSUME NEW s \in Sessions, SendUnlock(s) PROVE UnlockInv'
  <2> USE <1>11 DEF TypeOK, Commands, clock, clientVars, serviceVars
  <2> SUFFICES ASSUME NEW c \in conns', c.cmd = "UNLOCK"
               PROVE  \E t \in past' : /\ c.val = Token(t)
                                       /\ c.from \in readers'[t]
                                       /\ ~LocksAt(c.from, t)'
    BY DEF UnlockInv
  <2>1. CASE c \in conns
    <3>1. PICK t \in past : c.val = Token(t) /\ c.from \in readers[t] /\ ~LocksAt(c.from, t)
      BY <2>1 DEF UnlockInv
    <3>2. t \in past' /\ c.from \in readers'[t]
      BY <3>1 DEF SendUnlock
    <3>3. ~LocksAt(c.from, t)'
      BY <2>1, <3>1 DEF SendUnlock, LocksAt, Owes
    <3>4. QED
      BY <3>1, <3>2, <3>3
  <2>2. CASE c \notin conns
    <3>1. c.from = s /\ c.val = Token(locktime_ticks[s])
      BY <2>2 DEF SendUnlock, Sent
    <3>2. locktime_ticks[s] \in past' /\ s \in readers'[locktime_ticks[s]]
      BY DEF SendUnlock, TickInv, Owes
    <3>3. ~LocksAt(s, locktime_ticks[s])'
      BY DEF SendUnlock, LocksAt, Owes
    <3>4. QED
      BY <3>1, <3>2, <3>3 DEF SendUnlock
  <2>3. QED
    BY <2>1, <2>2
<1>12. ASSUME NEW s \in Sessions, RemoveThread(s) PROVE UnlockInv'
  BY <1>12 DEF RemoveThread
<1>13. ASSUME NEW s \in Sessions, ClearThreadId(s) PROVE UnlockInv'
  BY <1>13 DEF ClearThreadId
<1>14. ASSUME NEW s \in Sessions, Kill(s) PROVE UnlockInv'
  <2>1. UNCHANGED <<conns, past, readers>>
    BY <1>14 DEF Kill, ProcessGone
  <2>2. \A r \in Sessions, t \in past : LocksAt(r, t)' => LocksAt(r, t)
    BY <1>14 DEF Kill, ProcessGone
  <2>3. SUFFICES ASSUME NEW c \in conns, c.cmd = "UNLOCK"
                 PROVE  \E t \in past : c.val = Token(t) /\ c.from \in readers[t] /\ ~LocksAt(c.from, t)'
    BY <2>1 DEF UnlockInv
  <2>4. PICK t \in past : c.val = Token(t) /\ c.from \in readers[t] /\ ~LocksAt(c.from, t)
    BY <2>3 DEF UnlockInv
  <2>5. c.from \in Sessions
    BY <2>4
  <2>6. ~LocksAt(c.from, t)'
    BY <2>2, <2>4, <2>5
  <2>7. QED
    BY <2>4, <2>6
<1>15. ASSUME NEW s \in Sessions, Relaunch(s) PROVE UnlockInv'
  BY <1>15 DEF Relaunch, ProcessGone
<1>16. ASSUME NEW s \in Sessions, LogOff(s) PROVE UnlockInv'
  BY <1>16 DEF LogOff, ProcessGone
<1>17. ASSUME NEW s \in Sessions, LogOn(s) PROVE UnlockInv'
  BY <1>17 DEF LogOn, ProcessGone
<1>18. ASSUME NEW c \in conns, HandleLock(c) PROVE UnlockInv'
  BY <1>18 DEF HandleLock, SetPolicies
<1>19. ASSUME NEW c \in conns, HandleUnlock(c) PROVE UnlockInv'
  BY <1>19 DEF HandleUnlock, SetPolicies
<1>20. ASSUME NEW u \in busy.todo, WritePolicy(u) PROVE UnlockInv'
  BY <1>20 DEF WritePolicy
<1>21. ASSUME FinishPolicies PROVE UnlockInv'
  BY <1>21 DEF FinishPolicies
<1>22. ASSUME ServiceEnds PROVE UnlockInv'
  BY <1>22 DEF ServiceEnds
<1>23. ASSUME ServiceStarts PROVE UnlockInv'
  BY <1>23 DEF ServiceStarts
<1>24. CASE UNCHANGED vars
  BY <1>24 DEF vars
<1>25. QED
  BY <1>1, <1>2, <1>3, <1>4, <1>5, <1>6, <1>7, <1>8, <1>9, <1>10, <1>11, <1>12, <1>13, <1>14, <1>15, <1>16, <1>17, <1>18, <1>19, <1>20, <1>21, <1>22, <1>23, <1>24 DEF Next, MainThreadRuns, LockerThreadRuns, Asked, User, Server_Worker

-----------------------------------------------------------------------------
(* The end of a cached lock: a LOCK on its way and a lock that is cached each    *)
(* have, at the same ticks, a session of their own that will undo it.            *)

Lock(s, t)   == [from |-> s, cmd |-> "LOCK", val |-> t]
Unlock(s, t) == [from |-> s, cmd |-> "UNLOCK", val |-> Token(t)]

\* A session about to lock has not locked in this tick, and nobody locks in a tick to come.
FreshInv ==
  /\ \A s \in Sessions : thr[s] = "lockcmd" => s \notin readers[now]
  /\ \A t \in Ticks : t \notin past => readers[t] = {}

\* The sessions whose LOCK at ticks t is on its way.
Locking(t) == {s \in Sessions : Lock(s, t) \in conns}

\* The sessions that will undo, or are undoing, a lock made at ticks t.
Undoing(t) == {s \in Sessions : \/ Owes(s) /\ locktime_ticks[s] = t
                                \/ Unlock(s, t) \in conns}

\* Whether the service caches the lock made at ticks t and is not undoing it.
Held(t) == IF cache_locktime = t /\ ~Releasing THEN 1 ELSE 0

Balanced(t) ==
  t \in stranded \/ Cardinality(Locking(t)) + Held(t) <= Cardinality(Undoing(t))

\* Sessions that lock in the same tick share a token, so their locks are counted.
BalanceInv == \A t \in Ticks : Balanced(t)

\* What is counted is finite.
LEMMA Counted ==
  ASSUME NEW t \in Ticks
  PROVE  /\ IsFiniteSet(Locking(t)) /\ Cardinality(Locking(t)) \in Nat
         /\ IsFiniteSet(Undoing(t)) /\ Cardinality(Undoing(t)) \in Nat
         /\ Held(t) \in {0, 1}
<1>1. Locking(t) \in SUBSET Sessions /\ Undoing(t) \in SUBSET Sessions
  BY DEF Locking, Undoing
<1>2. IsFiniteSet(Locking(t)) /\ IsFiniteSet(Undoing(t))
  BY <1>1, FS_Subset
<1>3. Cardinality(Locking(t)) \in Nat /\ Cardinality(Undoing(t)) \in Nat
  BY <1>2, FS_CardinalityType
<1>4. Held(t) \in {0, 1}
  BY DEF Held
<1>5. QED
  BY <1>2, <1>3, <1>4

\* The same in the next state.
LEMMA CountedNext ==
  ASSUME NEW t \in Ticks
  PROVE  /\ IsFiniteSet(Locking(t)') /\ Cardinality(Locking(t)') \in Nat
         /\ IsFiniteSet(Undoing(t)') /\ Cardinality(Undoing(t)') \in Nat
         /\ Held(t)' \in {0, 1}
<1>1. Locking(t)' \in SUBSET Sessions /\ Undoing(t)' \in SUBSET Sessions
  BY DEF Locking, Undoing
<1>2. IsFiniteSet(Locking(t)') /\ IsFiniteSet(Undoing(t)')
  BY <1>1, FS_Subset
<1>3. Cardinality(Locking(t)') \in Nat /\ Cardinality(Undoing(t)') \in Nat
  BY <1>2, FS_CardinalityType
<1>4. Held(t)' \in {0, 1}
  BY DEF Held
<1>5. QED
  BY <1>2, <1>3, <1>4

\* A step that takes no session from those who undo, and adds no lock, keeps the balance.
LEMMA BalanceKept ==
  ASSUME NEW t \in Ticks, Balanced(t), stranded \subseteq stranded',
         Locking(t)' \subseteq Locking(t), Undoing(t) \subseteq Undoing(t)',
         Held(t)' <= Held(t)
  PROVE  Balanced(t)'
<1>1. CASE t \in stranded
  BY <1>1 DEF Balanced
<1>2. CASE t \notin stranded
  <2>1. Cardinality(Locking(t)') <= Cardinality(Locking(t))
    BY Counted, FS_Subset
  <2>2. Cardinality(Undoing(t)) <= Cardinality(Undoing(t)')
    BY CountedNext, FS_Subset
  <2>3. Cardinality(Locking(t)) + Held(t) <= Cardinality(Undoing(t))
    BY <1>2 DEF Balanced
  <2>4. Cardinality(Locking(t)') + Held(t)' <= Cardinality(Undoing(t)')
    BY <2>1, <2>2, <2>3, Counted, CountedNext
  <2>5. QED
    BY <2>4 DEF Balanced
<1>3. QED
  BY <1>1, <1>2

\* FreshInv is inductive: a thread gets to lock only by WakeUp, which moves on to a
\* tick nobody has locked in.
LEMMA TicksFresh ==
  ASSUME TypeOK, TickInv, FreshInv, [Next]_vars PROVE FreshInv'
<1> USE DEF FreshInv, TypeOK, TickInv
<1>1. ASSUME NEW s \in Sessions, WakeUp(s) PROVE FreshInv'
  <2>1. now' \in Ticks /\ now' \notin past /\ past' = past \cup {now'} /\ readers' = readers
    BY <1>1 DEF WakeUp, Wrapped
  <2>2. QED
    BY <2>1
<1>2. ASSUME NEW s \in Sessions, SendLock(s) PROVE FreshInv'
  <2>1. /\ now' = now /\ past' = past
        /\ thr' = [thr EXCEPT ![s] = "desktop"]
        /\ readers' = [readers EXCEPT ![now] = @ \cup {s}]
    BY <1>2 DEF SendLock
  <2>2. ASSUME NEW r \in Sessions, thr'[r] = "lockcmd" PROVE r \notin readers'[now']
    BY <2>1, <2>2
  <2>3. QED
    BY <2>1, <2>2
<1>3. ASSUME UNCHANGED clock, \A r \in Sessions : thr'[r] = "lockcmd" => thr[r] = "lockcmd"
      PROVE  FreshInv'
  BY <1>3 DEF clock
<1>4. ASSUME NEW s \in Sessions, LockerThreadRuns(s) PROVE FreshInv'
  BY <1>1, <1>2, <1>3, <1>4 DEF LockerThreadRuns, EnterDesktop, DesktopFails,
     QuitReceived, LeaveDesktop, SendUnlock, RemoveThread, ClearThreadId
<1>5. ASSUME NEW s \in Sessions, MainThreadRuns(s) \/ Asked(s) PROVE FreshInv'
  BY <1>3, <1>5 DEF MainThreadRuns, StoreThreadId, AwaitShutdown, Asked, StartLocking,
     Terminate, PasswordGiven, LeaveDesktop
<1>6. ASSUME NEW s \in Sessions, User(s) PROVE FreshInv'
  BY <1>3, <1>6 DEF User, Kill, Relaunch, LogOff, LogOn, ProcessGone
<1>7. ASSUME Server_Worker \/ ServiceEnds \/ ServiceStarts \/ UNCHANGED vars PROVE FreshInv'
  BY <1>3, <1>7 DEF Server_Worker, HandleLock, HandleUnlock, WritePolicy, FinishPolicies,
     ServiceEnds, ServiceStarts, vars, clientVars
<1>8. QED
  BY <1>4, <1>5, <1>6, <1>7 DEF Next

\* BalanceInv is inductive.  SendLock adds a session to those who undo, and a lock at
\* most; HandleLock turns a LOCK on its way into a lock that is cached; an UNLOCK that
\* matches takes the cached lock with it, and one that does not strands its ticks.
LEMMA BalanceStep ==
  ASSUME TypeOK, ThreadInv, TickInv, EnforceInv, UnlockInv, FreshInv, BalanceInv, [Next]_vars,
         NEW t \in Ticks
  PROVE  Balanced(t)'
<1>0. Balanced(t)
  BY DEF BalanceInv
<1>1. ASSUME NEW s \in Sessions, SendLock(s) PROVE Balanced(t)'
  <2>0. /\ thr[s] = "lockcmd" /\ thr' = [thr EXCEPT ![s] = "desktop"]
        /\ locktime_ticks' = [locktime_ticks EXCEPT ![s] = now]
        /\ stranded' = stranded
        /\ conns \subseteq conns' /\ conns' \subseteq conns \cup {Lock(s, now)}
        /\ Held(t)' = Held(t)
    BY <1>1 DEF SendLock, Sent, Lock, Held, Releasing, serviceVars
  <2>1. ~Owes(s) /\ Owes(s)' /\ locktime_ticks'[s] = now /\ now \in Ticks
    BY <2>0 DEF Owes, TypeOK
  <2>2. \A r \in Sessions \ {s} : (Owes(r)' <=> Owes(r)) /\ locktime_ticks'[r] = locktime_ticks[r]
    BY <2>0 DEF Owes, TypeOK
  <2>3. Undoing(t) \subseteq Undoing(t)'
    BY <2>0, <2>1, <2>2 DEF Undoing
  <2>4. CASE t # now
    <3>1. Locking(t)' \subseteq Locking(t)
      BY <2>0, <2>4 DEF Locking, Lock
    <3>2. QED
      BY <1>0, <2>0, <2>3, <3>1, BalanceKept, Counted
  <2>5. CASE t = now
    <3>1. s \notin readers[t]
      BY <2>0, <2>5 DEF FreshInv
    <3>2. Unlock(s, t) \notin conns
      <4> SUFFICES ASSUME Unlock(s, t) \in conns PROVE FALSE
        OBVIOUS
      <4>1. PICK r \in past : Token(t) = Token(r) /\ s \in readers[r]
        BY DEF UnlockInv, Unlock
      <4>2. r = t
        BY <4>1, TokenInjective DEF TypeOK
      <4>3. QED
        BY <3>1, <4>1, <4>2
    <3>3. s \notin Undoing(t) /\ s \in Undoing(t)'
      BY <2>1, <2>5, <3>2 DEF Undoing
    <3>4. Cardinality(Undoing(t)) + 1 <= Cardinality(Undoing(t)')
      <4>1. Cardinality(Undoing(t) \cup {s}) = Cardinality(Undoing(t)) + 1
        BY <3>3, Counted, FS_AddElement
      <4>2. Undoing(t) \cup {s} \subseteq Undoing(t)'
        BY <2>3, <3>3
      <4>3. Cardinality(Undoing(t) \cup {s}) <= Cardinality(Undoing(t)')
        BY <4>2, CountedNext, FS_Subset
      <4>4. QED
        BY <4>1, <4>3
    <3>5. Cardinality(Locking(t)') <= Cardinality(Locking(t)) + 1
      <4>1. Locking(t)' \subseteq Locking(t) \cup {s}
        BY <2>0 DEF Locking, Lock
      <4>2. /\ IsFiniteSet(Locking(t) \cup {s})
            /\ Cardinality(Locking(t) \cup {s}) <= Cardinality(Locking(t)) + 1
        <5>1. IsFiniteSet(Locking(t)) /\ Cardinality(Locking(t)) \in Nat
          BY Counted
        <5>2. /\ IsFiniteSet(Locking(t) \cup {s})
              /\ Cardinality(Locking(t) \cup {s}) =
                   IF s \in Locking(t) THEN Cardinality(Locking(t)) ELSE Cardinality(Locking(t)) + 1
          BY <5>1, FS_AddElement
        <5>3. QED
          BY <5>1, <5>2
      <4>3. Cardinality(Locking(t)') <= Cardinality(Locking(t) \cup {s})
        BY <4>1, <4>2, FS_Subset
      <4>4. Cardinality(Locking(t) \cup {s}) \in Nat
        BY <4>2, FS_CardinalityType
      <4>5. QED
        BY <4>2, <4>3, <4>4, Counted, CountedNext
    <3>6. QED
      BY <1>0, <2>0, <3>4, <3>5, Counted, CountedNext DEF Balanced
  <2>6. QED
    BY <2>4, <2>5
<1>2. ASSUME UNCHANGED <<conns, cache_locktime, busy>>, stranded \subseteq stranded',
             \A r \in Sessions : /\ locktime_ticks'[r] = locktime_ticks[r]
                                 /\ Owes(r) => Owes(r)' \/ locktime_ticks[r] \in stranded'
      PROVE  Balanced(t)'
  <2>1. CASE t \in stranded'
    BY <2>1 DEF Balanced
  <2>2. CASE t \notin stranded'
    <3>1. Locking(t)' = Locking(t) /\ Held(t)' = Held(t)
      BY <1>2 DEF Locking, Held, Releasing
    <3>2. Undoing(t) \subseteq Undoing(t)'
      BY <1>2, <2>2 DEF Undoing
    <3>3. QED
      BY <1>0, <1>2, <3>1, <3>2, BalanceKept, Counted
  <2>3. QED
    BY <2>1, <2>2
<1>3. ASSUME NEW s \in Sessions, SendUnlock(s) PROVE Balanced(t)'
  <2>1. CASE UNCHANGED conns /\ stranded' = stranded \cup {locktime_ticks[s]}
    BY <1>2, <1>3, <2>1 DEF SendUnlock, Owes, serviceVars, TypeOK
  <2>2. CASE Sent(s, "UNLOCK", Token(locktime_ticks[s])) /\ UNCHANGED stranded
    <3>1. conns' = conns \cup {Unlock(s, locktime_ticks[s])}
      BY <2>2 DEF Sent, Unlock
    <3>2. \A r \in Sessions : /\ locktime_ticks'[r] = locktime_ticks[r]
                              /\ Owes(r) => Owes(r)' \/ r = s
      BY <1>3 DEF SendUnlock, Owes, TypeOK
    <3>3. Undoing(t) \subseteq Undoing(t)'
      BY <3>1, <3>2 DEF Undoing
    <3>4. Locking(t)' = Locking(t)
      BY <3>1 DEF Locking, Lock, Unlock
    <3>5. Held(t)' = Held(t)
      BY <1>3 DEF SendUnlock, Held, Releasing, serviceVars
    <3>6. QED
      BY <1>0, <2>2, <3>3, <3>4, <3>5, BalanceKept, Counted
  <2>3. QED
    BY <1>3, <2>1, <2>2 DEF SendUnlock
<1>4. ASSUME NEW s \in Sessions, LockerThreadRuns(s) PROVE Balanced(t)'
  <2> USE <1>2 DEF Owes, serviceVars, TypeOK
  <2>1. CASE WakeUp(s)
    BY <2>1 DEF WakeUp
  <2>2. CASE EnterDesktop(s)
    BY <2>2 DEF EnterDesktop
  <2>3. CASE DesktopFails(s)
    BY <2>3 DEF DesktopFails
  <2>4. CASE QuitReceived(s)
    BY <2>4 DEF QuitReceived, LeaveDesktop
  <2>5. CASE RemoveThread(s)
    BY <2>5 DEF RemoveThread
  <2>6. CASE ClearThreadId(s)
    BY <2>6 DEF ClearThreadId
  <2>7. QED
    BY <1>1, <1>3, <1>4, <2>1, <2>2, <2>3, <2>4, <2>5, <2>6 DEF LockerThreadRuns
<1>5. ASSUME NEW s \in Sessions, MainThreadRuns(s) \/ Asked(s) PROVE Balanced(t)'
  <2> USE <1>2 DEF Owes, serviceVars, TypeOK
  <2>1. CASE StoreThreadId(s)
    BY <2>1 DEF StoreThreadId
  <2>2. CASE AwaitShutdown(s)
    BY <2>2 DEF AwaitShutdown
  <2>3. CASE StartLocking(s)
    BY <2>3 DEF StartLocking, ThreadInv
  <2>4. CASE Terminate(s)
    BY <2>4 DEF Terminate
  <2>5. CASE PasswordGiven(s)
    BY <2>5 DEF PasswordGiven, LeaveDesktop
  <2>6. QED
    BY <1>5, <2>1, <2>2, <2>3, <2>4, <2>5 DEF MainThreadRuns, Asked
<1>6. ASSUME NEW s \in Sessions, User(s) PROVE Balanced(t)'
  <2>1. \A r \in Sessions \ {s} : Owes(r) => Owes(r)'
    BY <1>6 DEF User, Kill, Relaunch, LogOff, LogOn, ProcessGone, Owes, TypeOK
  <2>2. Owes(s) => locktime_ticks[s] \in stranded'
    BY <1>6 DEF User, Kill, Relaunch, LogOff, LogOn, Owes, ThreadInv, NoManagedThread
  <2>3. UNCHANGED <<conns, cache_locktime, busy, locktime_ticks>> /\ stranded \subseteq stranded'
    BY <1>6 DEF User, Kill, Relaunch, LogOff, LogOn, ProcessGone, serviceVars
  <2>4. QED
    BY <1>2, <2>1, <2>2, <2>3
<1>7. ASSUME UNCHANGED clientVars PROVE \A r \in Sessions : Owes(r)' = Owes(r)
  BY <1>7 DEF clientVars, Owes
<1>8. ASSUME NEW c \in conns, HandleLock(c) PROVE Balanced(t)'
  <2>0. UNCHANGED clientVars /\ UNCHANGED stranded /\ conns' = conns \ {c}
    BY <1>8 DEF HandleLock
  <2>1. c = Lock(c.from, c.val) /\ c.from \in Sessions /\ c.val \in Ticks
    BY <1>8 DEF HandleLock, Lock, TypeOK, Commands
  <2>2. Locking(t)' \subseteq Locking(t)
    BY <2>0 DEF Locking
  <2>3. Undoing(t)' = Undoing(t)
    BY <1>7, <2>0, <2>1 DEF Undoing, Lock, Unlock, clientVars
  <2>4. CASE cache_locktime = NoLock /\ c.val = t
    <3>1. Held(t) = 0
      BY <2>4 DEF Held
    <3>2. Locking(t)' = Locking(t) \ {c.from} /\ c.from \in Locking(t)
      BY <2>0, <2>1, <2>4 DEF Locking, Lock
    <3>3. Cardinality(Locking(t)') = Cardinality(Locking(t)) - 1
      <4>1. IsFiniteSet(Locking(t))
        BY Counted
      <4>2. Cardinality(Locking(t) \ {c.from}) = Cardinality(Locking(t)) - 1
        BY <3>2, <4>1, FS_RemoveElement
      <4>3. QED
        BY <3>2, <4>2
    <3>4. QED
      BY <1>0, <2>0, <2>3, <3>1, <3>3, Counted, CountedNext DEF Balanced
  <2>5. CASE ~(cache_locktime = NoLock /\ c.val = t)
    <3>1. Held(t)' <= Held(t)
      <4>1. CASE cache_locktime = NoLock
        BY <1>8, <2>5, <4>1 DEF HandleLock, Held
      <4>2. CASE cache_locktime # NoLock
        BY <1>8, <4>2 DEF HandleLock, Held, Releasing
      <4>3. QED
        BY <4>1, <4>2
    <3>2. QED
      BY <1>0, <2>0, <2>2, <2>3, <3>1, BalanceKept
  <2>6. QED
    BY <2>4, <2>5
<1>9. ASSUME NEW c \in conns, HandleUnlock(c) PROVE Balanced(t)'
  <2>0. UNCHANGED clientVars /\ conns' = conns \ {c} /\ ~busy.held /\ cache_locktime' = cache_locktime
    BY <1>9 DEF HandleUnlock
  <2>1. c.cmd = "UNLOCK" /\ c = [from |-> c.from, cmd |-> "UNLOCK", val |-> c.val] /\ c.from \in Sessions
    BY <1>9 DEF HandleUnlock, TypeOK, Commands
  <2>2. Locking(t)' = Locking(t)
    BY <2>0, <2>1 DEF Locking, Lock
  <2>3. stranded \subseteq stranded'
    BY <1>9 DEF HandleUnlock
  <2>4. CASE c.val # Token(t)
    <3>1. Undoing(t) \subseteq Undoing(t)'
      BY <1>7, <2>0, <2>4 DEF Undoing, Unlock, clientVars
    <3>2. Held(t)' <= Held(t)
      BY <2>0 DEF Held, Releasing
    <3>3. QED
      BY <1>0, <2>2, <2>3, <3>1, <3>2, BalanceKept
  <2>5. CASE c.val = Token(t) /\ cache_locktime # t
    <3>1. ~(cache_locktime # NoLock /\ Matches(cache_locktime, c.val))
      <4> SUFFICES ASSUME cache_locktime # NoLock, Matches(cache_locktime, c.val) PROVE FALSE
        OBVIOUS
      <4>1. cache_locktime \in Ticks
        BY DEF TypeOK
      <4>2. Token(cache_locktime) = Token(t)
        BY <2>5 DEF Matches, Token
      <4>3. QED
        BY <2>5, <4>1, <4>2, TokenInjective
    <3>2. t \in stranded'
      BY <1>9, <2>5, <3>1 DEF HandleUnlock
    <3>3. QED
      BY <3>2 DEF Balanced
  <2>6. CASE c.val = Token(t) /\ cache_locktime = t
    <3>1. cache_locktime # NoLock /\ Matches(cache_locktime, c.val)
      BY <2>6 DEF Matches, Token
    <3>2. stranded' = stranded /\ Held(t)' = 0
      BY <1>9, <3>1 DEF HandleUnlock, SetPolicies, Held, Releasing
    <3>3. Held(t) = 1
      BY <2>0, <2>6 DEF Held, Releasing
    <3>4. Undoing(t) \ {c.from} \subseteq Undoing(t)'
      BY <1>7, <2>0, <2>1 DEF Undoing, Unlock, clientVars
    <3>5. Cardinality(Undoing(t)) - 1 <= Cardinality(Undoing(t)')
      <4>1. Cardinality(Undoing(t) \ {c.from}) <= Cardinality(Undoing(t)')
        BY <3>4, CountedNext, FS_Subset
      <4>2. Cardinality(Undoing(t) \ {c.from}) \in {Cardinality(Undoing(t)) - 1, Cardinality(Undoing(t))}
        BY Counted, FS_RemoveElement
      <4>3. QED
        BY <4>1, <4>2, Counted, CountedNext
    <3>6. QED
      BY <1>0, <2>2, <3>2, <3>3, <3>5, Counted, CountedNext DEF Balanced
  <2>7. QED
    BY <2>4, <2>5, <2>6
<1>10. ASSUME UNCHANGED <<clientVars, conns, stranded>>, Held(t)' <= Held(t) PROVE Balanced(t)'
  <2>1. Locking(t)' = Locking(t) /\ Undoing(t)' = Undoing(t)
    BY <1>7, <1>10 DEF Locking, Undoing, clientVars
  <2>2. QED
    BY <1>0, <1>10, <2>1, BalanceKept
<1>11. ASSUME NEW u \in busy.todo, WritePolicy(u) PROVE Balanced(t)'
  <2>1. Held(t)' = Held(t)
    BY <1>11 DEF WritePolicy, Held, Releasing, TypeOK, Updates
  <2>2. QED
    BY <1>10, <1>11, <2>1, Counted DEF WritePolicy
<1>12. ASSUME FinishPolicies PROVE Balanced(t)'
  <2>1. Held(t)' <= Held(t)
    BY <1>12 DEF FinishPolicies, Held, Releasing, Idle
  <2>2. QED
    BY <1>10, <1>12, <2>1 DEF FinishPolicies
<1>13. ASSUME ServiceEnds PROVE Balanced(t)'
  <2>1. Locking(t)' = {} /\ Held(t)' = 0
    BY <1>13 DEF ServiceEnds, Locking, Held
  <2>2. Cardinality(Locking(t)') = 0
    BY <2>1, FS_EmptySet
  <2>3. QED
    BY <2>1, <2>2, CountedNext DEF Balanced
<1>14. ASSUME ServiceStarts \/ UNCHANGED vars PROVE Balanced(t)'
  <2>1. Held(t)' = Held(t)
    BY <1>14 DEF ServiceStarts, vars, serviceVars, Held, Releasing
  <2>2. QED
    BY <1>10, <1>14, <2>1, Counted DEF ServiceStarts, vars
<1>15. QED
  BY <1>4, <1>5, <1>6, <1>8, <1>9, <1>11, <1>12, <1>13, <1>14 DEF Next, Server_Worker

-----------------------------------------------------------------------------
(* Theorems. *)

\* The conjunction of the parts is an invariant.
THEOREM SafetyInvHolds == Spec => []SafetyInv
<1>1. Init => SafetyInv
  <2> SUFFICES ASSUME Init PROVE SafetyInv
    OBVIOUS
  <2>1. TypeOK
    BY DEF Init, TypeOK, ObjStates, ThrStates, Idle, Updates, Commands
  <2>2. ThreadInv /\ TickInv
    BY DEF Init, ThreadInv, TickInv, NoManagedThread, Owes
  <2>3. EnforceInv /\ ReleaseInv
    BY DEF Init, EnforceInv, ReleaseInv, Releasing, Idle, Loaded
  <2>4. UnlockInv
    BY DEF Init, UnlockInv
  <2>5. QED
    BY <2>1, <2>2, <2>3, <2>4 DEF SafetyInv
<1>2. TypeOK /\ TypeOK' /\ SafetyInv /\ [Next]_vars => SafetyInv'
  BY ThreadsManaged, TicksPast, LockEnforced, ReleaseComplete, UnlocksOwned DEF SafetyInv
<1>3. QED
  BY <1>1, <1>2, TypeCorrect, PTL DEF Spec

\* A cached lock restricts the machine and its holder (HandleLock, WritePolicy).
THEOREM LockInForce == Spec => []CachedLockIsEnforced
<1>1. SafetyInv => CachedLockIsEnforced
  BY DEF SafetyInv, TypeOK, EnforceInv, Releasing, LocksAt, CachedLockIsEnforced
<1>2. QED
  BY <1>1, SafetyInvHolds, PTL

\* The balance is an invariant beside SafetyInv.
THEOREM BalanceInvHolds == Spec => [](FreshInv /\ BalanceInv)
<1>1. Init => FreshInv /\ BalanceInv
  <2> SUFFICES ASSUME Init PROVE FreshInv /\ BalanceInv
    OBVIOUS
  <2>1. FreshInv
    BY DEF Init, FreshInv
  <2>2. ASSUME NEW t \in Ticks PROVE Balanced(t)
    <3>1. Locking(t) = {} /\ Held(t) = 0
      BY DEF Init, Locking, Held
    <3>2. Cardinality(Locking(t)) = 0
      BY <3>1, FS_EmptySet
    <3>3. QED
      BY <3>1, <3>2, Counted DEF Balanced
  <2>3. QED
    BY <2>1, <2>2 DEF BalanceInv
<1>2. SafetyInv /\ FreshInv /\ BalanceInv /\ [Next]_vars => FreshInv' /\ BalanceInv'
  <2> SUFFICES ASSUME SafetyInv, FreshInv, BalanceInv, [Next]_vars PROVE FreshInv' /\ BalanceInv'
    OBVIOUS
  <2>1. FreshInv'
    BY TicksFresh DEF SafetyInv
  <2>2. \A t \in Ticks : Balanced(t)'
    BY BalanceStep DEF SafetyInv
  <2>3. QED
    BY <2>1, <2>2 DEF BalanceInv
<1>3. QED
  BY <1>1, <1>2, SafetyInvHolds, PTL DEF Spec

\* A cached lock has somebody who will undo it, unless one of the four recorded
\* accidents left it behind (SendUnlock, DesktopFails, Kill, HandleUnlock).
THEOREM CachedLockIsUndone == Spec => []CachedLockHasAnEnd
<1>1. SafetyInv /\ BalanceInv => CachedLockHasAnEnd
  <2> SUFFICES ASSUME SafetyInv, BalanceInv, cache_locktime # NoLock,
                      cache_locktime \notin stranded, ~Releasing
               PROVE  UnlockPending(cache_locktime)
    BY DEF CachedLockHasAnEnd, UnlockPending, Releasing
  <2>1. PICK t \in Ticks : t = cache_locktime
    BY DEF SafetyInv, TypeOK
  <2>2. Held(t) = 1
    BY <2>1 DEF Held
  <2>3. Cardinality(Undoing(t)) # 0
    BY <2>1, <2>2, Counted DEF BalanceInv, Balanced
  <2>4. PICK s : s \in Undoing(t)
    BY <2>3, FS_EmptySet
  <2>5. QED
    BY <2>1, <2>4 DEF Undoing, Unlock, UnlockPending
<1>2. QED
  BY <1>1, SafetyInvHolds, BalanceInvHolds, PTL

\* Without a cached lock nobody who has not logged on again is restricted, as long as
\* the service has not restarted (HandleUnlock, WritePolicy, FinishPolicies).
THEOREM ReleaseIsComplete == Spec => []EnforcementNeedsCache
<1>1. SafetyInv => EnforcementNeedsCache
  <2> SUFFICES ASSUME SafetyInv, ~busy.held, restarts = 0, svc, cache_locktime = NoLock
               PROVE  ~policy[HKLM] /\ \A u \in Loaded : policy[u] => logons[u] > 0
    BY DEF EnforcementNeedsCache
  <2>1. ~policy[HKLM]
    BY DEF SafetyInv, ReleaseInv
  <2>2. ASSUME NEW u \in Loaded, policy[u] PROVE logons[u] > 0
    <3>1. logons[u] # 0
      BY <2>2 DEF SafetyInv, ReleaseInv
    <3>2. logons[u] \in 0 .. MaxLogons
      BY DEF SafetyInv, TypeOK, Loaded
    <3>3. QED
      BY <3>1, <3>2
  <2>3. QED
    BY <2>1, <2>2
<1>2. QED
  BY <1>1, SafetyInvHolds, PTL

\* No command, however late, undoes the lock its session still holds alone
\* (HandleUnlock's comparison with the cached ticks).
THEOREM OwnLockIsKept == Spec => OwnLockHolds
<1> DEFINE Kept == \A s \in Sessions :
                     HoldsAlone(s) /\ ~busy.held /\ svc' =>
                       cache_locktime' = cache_locktime /\ ~(busy'.held /\ ~busy'.on)
<1>1. SafetyInv /\ [Next]_vars => [Kept]_vars
  <2> SUFFICES ASSUME SafetyInv, [Next]_vars, NEW r \in Sessions,
                      HoldsAlone(r), ~busy.held, svc', vars' # vars
               PROVE  cache_locktime' = cache_locktime /\ ~(busy'.held /\ ~busy'.on)
    OBVIOUS
  <2>0. cache_locktime \in Ticks /\ cache_locktime # NoLock
    BY DEF SafetyInv, TypeOK, HoldsAlone
  <2>1. ASSUME NEW c \in conns, HandleLock(c)
        PROVE  cache_locktime' = cache_locktime /\ busy' = busy
    BY <2>0, <2>1 DEF HandleLock
  <2>2. ASSUME NEW c \in conns, HandleUnlock(c)
        PROVE  cache_locktime' = cache_locktime /\ busy' = busy
    <3>1. c.cmd = "UNLOCK"
      BY <2>2 DEF HandleUnlock
    <3>2. PICK t \in past : c.val = Token(t) /\ c.from \in readers[t] /\ ~LocksAt(c.from, t)
      BY <3>1 DEF SafetyInv, UnlockInv
    <3>3. ASSUME Matches(cache_locktime, c.val) PROVE FALSE
      <4>1. t \in Ticks /\ Token(t) = Token(cache_locktime)
        BY <3>2, <3>3 DEF SafetyInv, TypeOK, Matches, Token
      <4>2. t = cache_locktime
        BY <2>0, <4>1, TokenInjective
      <4>3. c.from = r
        BY <3>2, <4>2 DEF HoldsAlone
      <4>4. LocksAt(r, t)
        BY <4>2 DEF HoldsAlone, LocksAt
      <4>5. QED
        BY <3>2, <4>3, <4>4
    <3>4. QED
      BY <2>2, <3>3 DEF HandleUnlock
  <2>3. ASSUME NEW s \in Sessions,
               MainThreadRuns(s) \/ LockerThreadRuns(s) \/ Asked(s) \/ User(s)
        PROVE  cache_locktime' = cache_locktime /\ busy' = busy
    <3> USE DEF serviceVars
    <3>1. CASE MainThreadRuns(s)
      BY <3>1 DEF MainThreadRuns, StoreThreadId, AwaitShutdown
    <3>2. CASE LockerThreadRuns(s)
      BY <3>2 DEF LockerThreadRuns, WakeUp, SendLock, EnterDesktop, DesktopFails,
                  QuitReceived, LeaveDesktop, SendUnlock, RemoveThread, ClearThreadId
    <3>3. CASE Asked(s)
      BY <3>3 DEF Asked, StartLocking, Terminate, PasswordGiven, LeaveDesktop
    <3>4. CASE User(s)
      BY <3>4 DEF User, Kill, Relaunch, LogOff, LogOn, ProcessGone
    <3>5. QED
      BY <2>3, <3>1, <3>2, <3>3, <3>4
  <2>4. ASSUME ServiceStarts PROVE cache_locktime' = cache_locktime /\ busy' = busy
    BY <2>4 DEF ServiceStarts
  <2>5. (\A u \in busy.todo : ~WritePolicy(u)) /\ ~FinishPolicies /\ ~ServiceEnds
    BY DEF WritePolicy, FinishPolicies, ServiceEnds
  <2>6. cache_locktime' = cache_locktime /\ busy' = busy
    BY <2>1, <2>2, <2>3, <2>4, <2>5 DEF Next, Server_Worker
  <2>7. QED
    BY <2>6
<1>2. QED
  BY <1>1, SafetyInvHolds, PTL DEF Spec, OwnLockHolds
=============================================================================
