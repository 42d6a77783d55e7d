-------------------------------- MODULE Boot --------------------------------
(* The user process from start to end (Boot.cpp): the modules it creates, how it is asked to *)
(* end, and TerminateAll, which can be entered again from the message loops it runs.         *)
(*                                                                                           *)
(* The end is asked for by a menu (TerminateVKernel in the main thread), by WM_ENDSESSION to *)
(* a window of the main thread, which ends everything at once, and by WM_ENDSESSION to the   *)
(* window of a client, which has a thread of its own and posts WM_QUIT to the main thread.   *)
EXTENDS Naturals, Sequences, FiniteSets, Functions

CONSTANTS
  Order,               \* the modules in the order of TerminateAll
  NtProtect, Player,   \* the two that TerminateVKernel_Allowed asks
  Clients,             \* those with a window in a thread of their own
  Pumping,             \* those whose end runs a message loop (AwaitShutdown)
  MaxLocks, MaxMenus   \* bounds

Modules == Range(Order)

VARIABLES
  main,        \* "start", "loop", "menu" (a popup menu runs its own loop), "left" (the main loop), "gone", "crashed"
  loaded,      \* modules whose pointer is not 0
  frames,      \* calls of TerminateAll, the outermost first: place in Order, and whether a destructor runs
  destroyed,   \* how often each module has been destroyed
  terminated,
  quit,        \* WM_QUIT is in the queue of the main thread
  locked,      \* IsSystemLocked
  permits,     \* IsShutdownAllowed of the player
  session,     \* "on", "ending": WM_ENDSESSION is being sent
  untold,      \* windows that are still to receive it: those of Clients, and "vk2"
  locks, menus,            \* so far
  nested, late, swallowed  \* ghosts: TerminateAll was entered twice; locked after the end was granted; WM_QUIT went to a menu

bootVars == <<main, loaded, frames, destroyed, terminated, quit, locked, permits, session, untold, locks, menus, nested, late, swallowed>>

Init ==
  /\ main = "start" /\ loaded = {} /\ frames = <<>> /\ destroyed = [m \in Modules |-> 0]
  /\ terminated = FALSE /\ quit = FALSE /\ locked = FALSE /\ permits = FALSE
  /\ session = "on" /\ untold = {} /\ locks = 0 /\ menus = 0
  /\ nested = FALSE /\ late = FALSE /\ swallowed = FALSE

\* What is enabled in the registry; NTProtect is dropped if it cannot be initialised.
WinMain ==
  /\ main = "start" /\ main' = "loop"
  /\ \E mods \in SUBSET Modules : loaded' = mods
  /\ UNCHANGED <<frames, destroyed, terminated, quit, locked, permits, session, untold, locks, menus, nested, late, swallowed>>

Allowed_Always(l, p) == TRUE
Allowed(l, p) == ~l \/ p    \* TerminateVKernel_Allowed

TerminateVKernel_Allowed == Allowed(NtProtect \in loaded /\ locked, Player \in loaded /\ permits)

\* The main thread takes messages: in its loop, in a menu, and while TerminateAll waits.
Top == frames[Len(frames)]
Deleting == frames # <<>> /\ Top.at <= Len(Order) /\ Top.deleting
Waiting == frames # <<>> /\ (IF Top.at <= Len(Order) THEN Top.deleting /\ Order[Top.at] \in Pumping ELSE TRUE)
Dispatches == IF frames = <<>> THEN main \in {"loop", "menu"} ELSE main \notin {"crashed", "gone"} /\ Waiting

\* Win+Y.  The locker thread unlocks by password, or in the end because of Terminate.
Lock ==
  /\ Dispatches /\ NtProtect \in loaded /\ ~locked /\ locks < MaxLocks
  /\ locked' = TRUE /\ locks' = locks + 1
  /\ late' = (late \/ quit)
  /\ UNCHANGED <<main, loaded, frames, destroyed, terminated, quit, permits, session, untold, menus, nested, swallowed>>

Unlock ==
  /\ locked /\ locked' = FALSE
  /\ UNCHANGED <<main, loaded, frames, destroyed, terminated, quit, permits, session, untold, locks, menus, nested, late, swallowed>>

\* The end of the playlist permits the shutdown, any later command of the player forbids it again.
PlayerSays ==
  /\ Player \in loaded /\ frames = <<>> /\ main = "loop" /\ permits' = ~permits
  /\ late' = (late \/ (quit /\ permits))
  /\ UNCHANGED <<main, loaded, frames, destroyed, terminated, quit, locked, session, untold, locks, menus, nested, swallowed>>

MenuOpens ==
  /\ main = "loop" /\ frames = <<>> /\ menus < MaxMenus
  /\ main' = "menu" /\ menus' = menus + 1
  /\ UNCHANGED <<loaded, frames, destroyed, terminated, quit, locked, permits, session, untold, locks, nested, late, swallowed>>

\* A choice, or none; the entry to exit and the button of the player call TerminateVKernel(false).
MenuCloses ==
  /\ main = "menu" /\ frames = <<>> /\ main' = "loop"
  /\ quit' \in {quit, quit \/ TerminateVKernel_Allowed}
  /\ UNCHANGED <<loaded, frames, destroyed, terminated, locked, permits, session, untold, locks, menus, nested, late, swallowed>>

\* MegaPopup's loop ends by WM_QUIT as by a choice, and nobody posts it again.
MenuTakesQuit ==
  /\ main = "menu" /\ frames = <<>> /\ quit
  /\ main' = "loop" /\ quit' = FALSE /\ swallowed' = TRUE
  /\ UNCHANGED <<loaded, frames, destroyed, terminated, locked, permits, session, untold, locks, menus, nested, late>>

\* So does the loop of AwaitShutdown, but then TerminateAll has begun.
AwaitTakesQuit ==
  /\ frames # <<>> /\ Dispatches /\ quit /\ quit' = FALSE
  /\ UNCHANGED <<main, loaded, frames, destroyed, terminated, locked, permits, session, untold, locks, menus, nested, late, swallowed>>

\* Windows asks every window (WM_QUERYENDSESSION); only clients and player ever refuse.  If all agree
\* it sends WM_ENDSESSION to one after the other.
SessionEnds ==
  /\ session = "on" /\ main \in {"loop", "menu"}
  /\ loaded \cap (Clients \cup {Player}) # {} => TerminateVKernel_Allowed
  /\ session' = "ending" /\ untold' = (loaded \cap Clients) \cup {"vk2"}
  /\ UNCHANGED <<main, loaded, frames, destroyed, terminated, quit, locked, permits, locks, menus, nested, late, swallowed>>

EndSessionToClient(c) ==
  /\ c \in untold \cap Clients /\ untold' = untold \ {c}
  /\ quit' = (quit \/ (c \in loaded /\ main # "gone" /\ TerminateVKernel_Allowed))
  /\ UNCHANGED <<main, loaded, frames, destroyed, terminated, locked, permits, session, locks, menus, nested, late, swallowed>>

Call == Append(frames, [at |-> 1, deleting |-> FALSE])

EndSessionToMain ==
  /\ "vk2" \in untold /\ ~terminated /\ Dispatches /\ untold' = untold \ {"vk2"}
  /\ frames' = IF TerminateVKernel_Allowed THEN Call ELSE frames
  /\ nested' = (nested \/ (frames # <<>> /\ TerminateVKernel_Allowed))
  /\ UNCHANGED <<main, loaded, destroyed, terminated, quit, locked, permits, session, locks, menus, late, swallowed>>

\* Once all have been told the process is ended by Windows, whatever it does.
Killed ==
  /\ session = "ending" /\ untold \subseteq {"vk2"} /\ ("vk2" \in untold => terminated) /\ frames = <<>>
  /\ main \in {"loop", "menu"} /\ main' = "gone"
  /\ UNCHANGED <<loaded, frames, destroyed, terminated, quit, locked, permits, session, untold, locks, menus, nested, late, swallowed>>

\* The loop ends; TerminateAll unless that is done already.
GetsQuit ==
  /\ main = "loop" /\ frames = <<>> /\ quit
  /\ quit' = FALSE
  /\ main' = IF terminated THEN "gone" ELSE "left"
  /\ frames' = IF terminated THEN <<>> ELSE Call
  /\ UNCHANGED <<loaded, destroyed, terminated, locked, permits, session, untold, locks, menus, nested, late, swallowed>>

SetTop(f) == [frames EXCEPT ![Len(frames)] = f]

\* if (mod != 0) { delete mod; ...: the pointer keeps its value while the destructor runs.
Delete ==
  /\ frames # <<>> /\ main # "crashed" /\ Top.at <= Len(Order) /\ ~Top.deleting
  /\ LET m == Order[Top.at]
     IN IF m \in loaded
        THEN /\ destroyed' = [destroyed EXCEPT ![m] = @ + 1]
             /\ main' = IF destroyed[m] > 0 THEN "crashed" ELSE main
             /\ frames' = SetTop([Top EXCEPT !.deleting = TRUE])
        ELSE frames' = SetTop([Top EXCEPT !.at = @ + 1]) /\ UNCHANGED <<main, destroyed>>
  /\ UNCHANGED <<loaded, terminated, quit, locked, permits, session, untold, locks, menus, nested, late, swallowed>>

\* Terminate of NTProtect ends the lock; then mod = 0.
Deleted ==
  /\ Deleting /\ main # "crashed"
  /\ loaded' = loaded \ {Order[Top.at]}
  /\ locked' = IF Order[Top.at] = NtProtect THEN FALSE ELSE locked
  /\ frames' = SetTop([at |-> Top.at + 1, deleting |-> FALSE])
  /\ UNCHANGED <<main, destroyed, terminated, quit, permits, session, untold, locks, menus, nested, late, swallowed>>

\* No threads are left; the window goes, and the caller goes on.
TerminateAllReturns ==
  /\ frames # <<>> /\ main # "crashed" /\ Top.at > Len(Order)
  /\ terminated' = TRUE
  /\ frames' = SubSeq(frames, 1, Len(frames) - 1)
  /\ main' = IF Len(frames) = 1 /\ main = "left" THEN "gone" ELSE main
  /\ UNCHANGED <<loaded, destroyed, quit, locked, permits, session, untold, locks, menus, nested, late, swallowed>>

MainThread == GetsQuit \/ Delete \/ Deleted \/ TerminateAllReturns
Windows == EndSessionToMain \/ Killed \/ \E c \in Clients : EndSessionToClient(c)

Next ==
  \/ WinMain \/ MainThread \/ Windows \/ SessionEnds
  \/ Lock \/ Unlock \/ PlayerSays \/ MenuOpens \/ MenuCloses \/ MenuTakesQuit \/ AwaitTakesQuit

Fairness == WF_bootVars(MainThread) /\ WF_bootVars(Windows) /\ WF_bootVars(MenuCloses \/ MenuTakesQuit)

Spec == Init /\ [][Next]_bootVars /\ Fairness

DestroyedOnce == \A m \in Modules : destroyed[m] <= 1 \/ nested

\* TerminateAll, which opens the lock, begins on a locked session only with the player's permission.
LockResists == frames = <<>> /\ frames' # <<>> /\ NtProtect \in loaded /\ locked => (permits /\ Player \in loaded) \/ late

\* The end of the user process (TerminateAll, TerminateVKernel): no module is destroyed twice unless
\* WM_ENDSESSION arrives while TerminateAll waits for threads; a locked session resists, unless it
\* was locked after the end had been granted; and an end that was granted comes, unless a menu takes WM_QUIT.
EndsInOrder ==
  /\ []DestroyedOnce
  /\ [][LockResists]_bootVars
  /\ quit ~> main \in {"gone", "crashed"} \/ swallowed
=============================================================================
