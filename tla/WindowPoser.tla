----------------------------- MODULE WindowPoser -----------------------------
(* The window poser (WindowPoser.cpp): a thread that looks every few seconds whether a window *)
(* has left the work area, and puts it back.  The main thread starts and stops it.            *)
(*                                                                                            *)
(* A place is the left upper corner of the window; its size and whether the poser leaves it   *)
(* alone (minimised, maximised, topmost, invisible, ...) are its user's choice.               *)
EXTENDS Integers

CONSTANTS
  Screen, Work,          \* records: left, top, right, bottom
  Tolerance,             \* FS_PIXEL_TOLERANCE
  Sizes,                 \* of windows: width, height
  Places,                \* where the user or a program puts a window: left, top
  MaxMoves, MaxToggles   \* bounds

VARIABLES
  window,     \* place, size, and whether it is exempt
  wrc,        \* the place as the thread has read it
  worker,     \* "none", "young" (no message queue yet), "timer", "x", "y", "removed" (after RemoveThread), "ended"
  object,     \* mod_windowposer: "none", "on", "deleting", and "freed" after that
  told,       \* WM_QUIT has been posted
  lost,       \* ghost: it was posted before there was a queue
  moves, toggles

poserVars == <<window, wrc, worker, object, told, lost, moves, toggles>>

Windows == [at : Places, size : Sizes, exempt : BOOLEAN]

Init ==
  /\ window \in Windows /\ wrc = window.at
  /\ worker = "none" /\ object = "none" /\ told = FALSE /\ lost = FALSE /\ moves = 0 /\ toggles = 0

Right(at) == at.left + window.size.width
Bottom(at) == at.top + window.size.height

\* An application, a game say, that fills the screen.
Near(a, b) == a - b < Tolerance /\ b - a < Tolerance
FullScreen(at) == /\ Near(Screen.left, at.left) /\ Near(Screen.top, at.top)
                  /\ Near(Screen.right, Right(at)) /\ Near(Screen.bottom, Bottom(at))

\* The constructor starts the thread.
SwitchOn ==
  /\ object \in {"none", "freed"} /\ toggles < MaxToggles /\ toggles' = toggles + 1
  /\ worker \in {"none", "ended"}
  /\ object' = "on" /\ worker' = "young" /\ told' = FALSE
  /\ UNCHANGED <<window, wrc, lost, moves>>

\* Terminate posts WM_QUIT; AwaitShutdown returns once no thread is left.
Terminate ==
  /\ object = "on" /\ object' = "deleting"
  /\ IF worker = "young" THEN lost' = TRUE /\ UNCHANGED told ELSE told' = TRUE /\ UNCHANGED lost
  /\ UNCHANGED <<window, wrc, worker, moves, toggles>>

AwaitShutdown ==
  /\ object = "deleting" /\ worker \in {"removed", "ended"} /\ object' = "freed"
  /\ UNCHANGED <<window, wrc, worker, told, lost, moves, toggles>>

SetsTimer == worker = "young" /\ worker' = "timer" /\ UNCHANGED <<window, wrc, object, told, lost, moves, toggles>>

\* WM_TIMER: the window as it is now, unless it is one to be left alone.
Looks ==
  /\ worker = "timer" /\ ~told
  /\ wrc' = window.at
  /\ worker' = IF window.exempt \/ FullScreen(window.at) THEN "timer" ELSE "x"
  /\ UNCHANGED <<window, object, told, lost, moves, toggles>>

SetWindowPos(left, top) == window' = [window EXCEPT !.at = [left |-> left, top |-> top]]

\* Either way only if the window is narrower, or lower, than the work area.
ChecksX ==
  /\ worker = "x" /\ worker' = "y"
  /\ IF wrc.left < Work.left /\ Work.left + window.size.width < Work.right
     THEN SetWindowPos(Work.left, wrc.top)
     ELSE IF wrc.left >= Work.left /\ Right(wrc) > Work.right /\ Work.right - window.size.width > Work.left
     THEN SetWindowPos(Work.right - window.size.width, wrc.top)
     ELSE UNCHANGED window
  /\ UNCHANGED <<wrc, object, told, lost, moves, toggles>>

ChecksY_Clips ==
  /\ worker = "y" /\ worker' = "timer"
  /\ IF wrc.top < Work.top /\ Work.top + window.size.height < Work.bottom
     THEN SetWindowPos(wrc.left, Work.top)
     ELSE IF wrc.top >= Work.top /\ Bottom(wrc) > Work.bottom /\ Work.bottom - window.size.height > Work.top
     THEN SetWindowPos(wrc.left, Work.bottom)
     ELSE UNCHANGED window
  /\ UNCHANGED <<wrc, object, told, lost, moves, toggles>>

\* With the left border as it was read, so that it takes back what ChecksX has done.
ChecksY ==
  /\ worker = "y" /\ worker' = "timer"
  /\ IF wrc.top < Work.top /\ Work.top + window.size.height < Work.bottom
     THEN SetWindowPos(wrc.left, Work.top)
     ELSE IF wrc.top >= Work.top /\ Bottom(wrc) > Work.bottom /\ Work.bottom - window.size.height > Work.top
     THEN SetWindowPos(wrc.left, Work.bottom - window.size.height)
     ELSE UNCHANGED window
  /\ UNCHANGED <<wrc, object, told, lost, moves, toggles>>

GetsQuit ==
  /\ worker = "timer" /\ told /\ worker' = "removed"
  /\ UNCHANGED <<window, wrc, object, told, lost, moves, toggles>>

\* wposer_thread = 0, written to an object that may be freed by then.
Ends == worker = "removed" /\ worker' = "ended" /\ UNCHANGED <<window, wrc, object, told, lost, moves, toggles>>

User ==
  /\ moves < MaxMoves /\ moves' = moves + 1
  /\ window' \in Windows /\ window' # window
  /\ UNCHANGED <<wrc, worker, object, told, lost, toggles>>

WorkerThread == SetsTimer \/ Looks \/ ChecksX \/ ChecksY \/ GetsQuit \/ Ends
Next == SwitchOn \/ Terminate \/ AwaitShutdown \/ WorkerThread \/ User

Fairness == WF_poserVars(WorkerThread) /\ WF_poserVars(AwaitShutdown)
Spec == Init /\ [][Next]_poserVars /\ Fairness

Inside == /\ Work.left <= window.at.left /\ Right(window.at) <= Work.right
          /\ Work.top <= window.at.top /\ Bottom(window.at) <= Work.bottom
Fits == window.size.width < Work.right - Work.left /\ window.size.height < Work.bottom - Work.top
Stray == object = "on" /\ Fits /\ ~Inside /\ ~window.exempt /\ ~FullScreen(window.at)

SparesInside == window' # window /\ moves' = moves => ~Inside \/ window.at # wrc

\* The poser (WorkerThread) brings back every window that fits into the work area, in both directions
\* although one takes back the other, as long as nobody moves it; it never touches one that it saw
\* inside; and it can be switched off, unless that comes before its thread has a message queue.
WindowsStayVisible ==
  /\ \A n \in 0..MaxMoves : Stray /\ moves = n ~> Inside \/ moves # n \/ object # "on"
  /\ [][SparesInside]_poserVars
  /\ object = "deleting" ~> object = "freed" \/ lost
=============================================================================
