-------------------------------- MODULE Setup --------------------------------
(* Setup (class Setup and the switches /Install and /Uninstall in Boot.cpp): the dialog writes *)
(* which components the user wants, and has the service installed or removed by an elevated    *)
(* process of its own, which Windows asks the user to allow.  Nobody waits for that process,   *)
(* which leaves two traces: the service, and the value in the Run key that starts the          *)
(* components at logon.  Setup looks at the Run value alone.                                   *)
EXTENDS Naturals, Sequences, FiniteSets

CONSTANTS
  Components,       \* check boxes of the dialog
  MaxDialogs        \* bound

VARIABLES
  wanted,           \* components selected in the registry
  run,              \* the Run value exists
  service,          \* "absent", "present", or "marked": deleted, and gone once it has stopped
  jobs,             \* the elevated processes: number to what is left to do
  dialog,           \* Setup is on the screen
  dialogs,
  refused, failed,  \* ghosts: the user did not allow a process; the service could not be created or deleted
  overlapped        \* ghost: the dialog was used while a process was still at work

setupVars == <<wanted, run, service, jobs, dialog, dialogs, refused, failed, overlapped>>

Done == "done"

Init ==
  /\ wanted = {} /\ run = FALSE /\ service = "absent" /\ jobs = <<>>
  /\ dialog = FALSE /\ dialogs = 0 /\ refused = FALSE /\ failed = FALSE /\ overlapped = FALSE

Busy == {j \in DOMAIN jobs : jobs[j] # Done}
Settled == Busy = {} /\ ~dialog

Opens ==
  /\ ~dialog /\ dialogs < MaxDialogs /\ dialog' = TRUE /\ dialogs' = dialogs + 1
  /\ UNCHANGED <<wanted, run, service, jobs, refused, failed, overlapped>>

Cancel == dialog /\ dialog' = FALSE /\ UNCHANGED <<wanted, run, service, jobs, dialogs, refused, failed, overlapped>>

\* What has to be done, from the number of boxes checked.
Needed(selected) ==
  IF selected = {} /\ run THEN {"uninstall"} ELSE IF selected # {} /\ ~run THEN {"install"} ELSE {}

OK ==
  /\ dialog /\ dialog' = FALSE
  /\ \E selected \in SUBSET Components :
       /\ wanted' = selected
       /\ \/ \E job \in Needed(selected) :
               jobs' = Append(jobs, job) /\ UNCHANGED refused
          \/ UNCHANGED jobs /\ refused' = (refused \/ Needed(selected) # {})
  /\ overlapped' = (overlapped \/ Busy # {})
  /\ UNCHANGED <<run, service, dialogs, failed>>

Goes(j, from, to) == j \in DOMAIN jobs /\ jobs[j] = from /\ jobs' = [jobs EXCEPT ![j] = to]

\* ntsvc_Install fails if there is such a service, even one that is marked, and for other reasons.
Install(j) ==
  /\ Goes(j, "install", "register")
  /\ \/ service = "absent" /\ service' = "present" /\ UNCHANGED failed
     \/ UNCHANGED service /\ failed' = TRUE
  /\ UNCHANGED <<wanted, run, dialog, dialogs, refused, overlapped>>

Uninstall(j) ==
  /\ Goes(j, "uninstall", "unregister")
  /\ \/ service = "present" /\ service' = "marked" /\ UNCHANGED failed
     \/ UNCHANGED service /\ failed' = TRUE
  /\ UNCHANGED <<wanted, run, dialog, dialogs, refused, overlapped>>

\* Whatever became of the service, once the user has closed the message.
Register(j) ==
  /\ Goes(j, "register", Done) /\ run' = TRUE
  /\ UNCHANGED <<wanted, service, dialog, dialogs, refused, failed, overlapped>>
Unregister_KeepsRun(j) ==
  /\ Goes(j, "unregister", Done)
  /\ UNCHANGED <<wanted, run, service, dialog, dialogs, refused, failed, overlapped>>
Unregister(j) ==
  /\ Goes(j, "unregister", Done) /\ run' = FALSE
  /\ UNCHANGED <<wanted, service, dialog, dialogs, refused, failed, overlapped>>

ServiceStops == service = "marked" /\ service' = "absent" /\ UNCHANGED <<wanted, run, jobs, dialog, dialogs, refused, failed, overlapped>>

Elevated(j) == Install(j) \/ Uninstall(j) \/ Register(j) \/ Unregister(j)
Next == Opens \/ Cancel \/ OK \/ ServiceStops \/ \E j \in 1..MaxDialogs : Elevated(j)

Fairness == \A j \in 1..MaxDialogs : WF_setupVars(Elevated(j))
Spec == Init /\ [][Next]_setupVars /\ Fairness

Agrees == (wanted # {} <=> run) /\ (run <=> service = "present")

\* Setup takes effect: once the elevated processes are through, the service and the components start
\* if the user wants a component and not otherwise, unless one was refused or failed, or Setup was
\* used again before the last one was through; and they come to an end.
SetupTakesEffect ==
  /\ [](Settled => Agrees \/ refused \/ failed \/ overlapped)
  /\ Busy # {} ~> Busy = {} \/ dialog
=============================================================================
