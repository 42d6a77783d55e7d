------------------------------ MODULE Launcher ------------------------------
(* Assisted autostart (ARLauncher in Autoruns.cpp): Windows ignores the entries of the Run key *)
(* whose text begins with a minus, and a worker thread starts them later, one after the other. *)
(* Other programs, the guard and the editor may change the key meanwhile.                      *)
EXTENDS Naturals, Sequences, SequencesExt

CONSTANTS
  Names,            \* of entries, in the order of enumeration
  Values,           \* texts
  Marked,           \* those with the minus
  Plain,            \* [Marked -> Values]: without it
  MaxChanges        \* bound

None == "no entry"
Number == "a number"
Entries == {Names[i] : i \in DOMAIN Names}

VARIABLES
  run,              \* the registry key
  worker,           \* "start" (the module is created), "idle", "sleeping", "working", "asking", "over"
  left,             \* names still to be looked at, as enumerated
  call,             \* the variable regRead reads into
  started,          \* what has been started: name and text
  changed           \* by others so far

launcherVars == <<run, worker, left, call, started, changed>>

Readable(n) == run[n] \in Values
regRead(n) == IF Readable(n) THEN run[n] ELSE call

Init ==
  /\ run = [n \in Entries |-> None]
  /\ worker \in {"start", "idle"} /\ left = <<>> /\ call = "" /\ started = <<>> /\ changed = 0

\* Launcher_ReturnCountOfAssistedARS: a thread only if there is something to start.
ExternExecute ==
  /\ worker = "start"
  /\ worker' = IF \E n \in Entries : run[n] \in Marked THEN "sleeping" ELSE "idle"
  /\ UNCHANGED <<run, left, call, started, changed>>

Enumerated == FoldLeft(LAMBDA names, n : IF run[n] = None THEN names ELSE Append(names, n), <<>>, Names)
Awakes ==
  /\ worker = "sleeping"
  /\ worker' = "working" /\ left' = Enumerated /\ call' = ""
  /\ UNCHANGED <<run, started, changed>>

LaunchPrograms_KeepsMinus ==
  /\ worker = "working" /\ left # <<>>
  /\ LET n == Head(left)
         text == regRead(n)
     IN /\ call' = text
        /\ IF text \in Marked
           THEN \/ worker' = "working" /\ left' = Tail(left) /\ started' = Append(started, <<n, Plain[text]>>)
                \/ worker' = "asking" /\ UNCHANGED <<left, started>>
           ELSE left' = Tail(left) /\ UNCHANGED <<worker, started>>
  /\ UNCHANGED <<run, changed>>

\* The call loses its minus, and keeps its text over entries that cannot be read.
LaunchPrograms ==
  /\ worker = "working" /\ left # <<>>
  /\ LET n == Head(left)
         text == regRead(n)
     IN IF text \in Marked
        THEN /\ call' = Plain[text]
             /\ \/ worker' = "working" /\ left' = Tail(left) /\ started' = Append(started, <<n, Plain[text]>>)
                \/ worker' = "asking" /\ UNCHANGED <<left, started>>
        ELSE call' = text /\ left' = Tail(left) /\ UNCHANGED <<worker, started>>
  /\ UNCHANGED <<run, changed>>

\* It did not start: the user may have the entry removed, which may fail.
Answers ==
  /\ worker = "asking"
  /\ worker' = "working" /\ left' = Tail(left)
  /\ run' \in {run, [run EXCEPT ![Head(left)] = None]}
  /\ UNCHANGED <<call, started, changed>>

\* termsignal, and WM_CLOSE to the window.
Completed ==
  /\ worker = "working" /\ left = <<>>
  /\ worker' = "over"
  /\ UNCHANGED <<run, left, call, started, changed>>

Others(n, v) ==
  /\ changed < MaxChanges /\ changed' = changed + 1
  /\ run[n] # v /\ run' = [run EXCEPT ![n] = v]
  /\ UNCHANGED <<worker, left, call, started>>

Thread == ExternExecute \/ Awakes \/ LaunchPrograms \/ Answers \/ Completed
Next == Thread \/ \E n \in Entries, v \in Values \cup {None, Number} : Others(n, v)

Fairness == WF_launcherVars(Thread)
Spec == Init /\ [][Next]_launcherVars /\ Fairness

Started(n) == {i \in DOMAIN started : started[i][1] = n}

StartsMarkedOnce ==
  started' # started =>
    LET new == started'[Len(started')]
    IN run[new[1]] \in Marked /\ new[2] = Plain[run[new[1]]] /\ Started(new[1]) = {}

\* Each start is that of a marked entry with the text it has at that moment, even after entries that
\* cannot be read or have vanished; no entry is started twice; and the launcher comes to its end.
LaunchesMarked ==
  /\ [][StartsMarkedOnce]_launcherVars
  /\ worker = "sleeping" ~> worker = "over"
=============================================================================
