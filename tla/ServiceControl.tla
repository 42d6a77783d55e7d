--------------------------- MODULE ServiceControl ---------------------------
(* Start and stop of the service (ntService.cpp): Windows' service control manager (SCM), the *)
(* thread of ntsvc_ServiceMain, the control handler in the dispatcher thread, and a thread for *)
(* each server.  WM_QUIT posted to a thread that has no message queue yet is lost.             *)
EXTENDS Naturals, FiniteSets

CONSTANTS
  Servers,      \* Winsuite, NetMsg and Syslog server
  Winsuite,     \* the one that always runs and reports the progress of its stop
  MaxStarts     \* bound: starts of the service

VARIABLES
  main,        \* thread of ntsvc_ServiceMain
  mainId,      \* MODID_NTSVC_MAIN_THREAD # 0
  mainQuit,    \* WM_QUIT is in its queue
  handler,     \* ntsvc_ServiceControlEx
  status,      \* ntsvc_status.dwCurrentState
  report,      \* what the SCM was told last: state and checkpoint
  progress,    \* checkpoint in the static service_status of ntsvc_SendProgressToSCM
  object,      \* servers that exist (mod_*_server # 0)
  id,          \* servers whose thread has stored its id (MODID_*_SERVER # 0)
  thread,      \* what the thread of each server does
  managed,     \* servers whose thread is in TVM_ServiceApp
  lost,        \* ghost: a WM_QUIT found no id or no queue
  starts       \* number of starts so far

serviceVars == <<main, mainId, mainQuit, handler, status, report, progress, object, id, thread, managed, lost, starts>>
processVars == <<mainId, object, id, thread, managed>>

MainPlaces == {"none", "register", "init", "started", "threads", "queue", "told", "await", "delete", "return"}
HandlerPlaces == {"idle", "progress", "post"}
ThreadPlaces == {"none", "new", "main", "loop", "quit", "progress", "stopping", "leaves", "ended"}
States == {"START_PENDING", "RUNNING", "STOP_PENDING", "STOPPED"}

TypeOK ==
  /\ main \in MainPlaces /\ handler \in HandlerPlaces
  /\ {mainId, mainQuit, lost} \subseteq BOOLEAN
  /\ status \in States /\ report \in [state : States, checkpoint : Nat]
  /\ progress \in Nat /\ starts \in 0..MaxStarts
  /\ object \subseteq Servers /\ id \subseteq Servers /\ managed \subseteq Servers
  /\ thread \in [Servers -> ThreadPlaces]

Init ==
  /\ main = "none" /\ mainId = FALSE /\ mainQuit = FALSE /\ handler = "idle"
  /\ status = "STOPPED" /\ report = [state |-> "STOPPED", checkpoint |-> 0] /\ progress = 0
  /\ object = {} /\ id = {} /\ thread = [s \in Servers |-> "none"] /\ managed = {}
  /\ lost = FALSE /\ starts = 0

Reports(state, checkpoint) == report' = [state |-> state, checkpoint |-> checkpoint]

\* WinMain starts the dispatcher; the SCM has the state START_PENDING and calls ServiceMain.
ntsvc_InitFromWinMain ==
  /\ main = "none" /\ report.state = "STOPPED" /\ starts < MaxStarts
  /\ starts' = starts + 1
  /\ main' = "register" /\ status' = "START_PENDING" /\ Reports("START_PENDING", 0)
  /\ mainQuit' = FALSE /\ progress' = 0 /\ handler' = "idle"
  /\ mainId' = FALSE /\ object' = {} /\ id' = {} /\ managed' = {} /\ lost' = FALSE
  /\ thread' = [s \in Servers |-> "none"]

\* Without a handler, or if RUNNING cannot be reported, the process exits at once.
ExitProcess ==
  /\ main \in {"register", "started"} /\ main' = "none"
  /\ Reports("STOPPED", 0) /\ status' = "STOPPED" /\ object' = {}
  /\ UNCHANGED <<mainId, id, thread, managed, mainQuit, handler, progress, lost, starts>>

Register == main = "register" /\ main' = "init" /\ UNCHANGED <<processVars, mainQuit, handler, status, report, progress, lost, starts>>

\* Servers that are disabled or fail to initialise do not exist.
ServiceApp_Init ==
  /\ main = "init" /\ main' = "started"
  /\ mainId' = TRUE
  /\ \E enabled \in SUBSET Servers : Winsuite \in enabled /\ object' = enabled
  /\ UNCHANGED <<mainQuit, handler, status, report, progress, id, thread, managed, lost, starts>>

ReportRunning ==
  /\ main = "started" /\ main' = "threads"
  /\ status' = "RUNNING" /\ Reports("RUNNING", 0)
  /\ UNCHANGED <<processVars, mainQuit, handler, progress, lost, starts>>

\* One after the other; then GetMessage creates the queue.
CreateServerThread(s) ==
  /\ main = "threads" /\ s \in object /\ thread[s] = "none"
  /\ thread' = [thread EXCEPT ![s] = "new"] /\ managed' = managed \cup {s}
  /\ UNCHANGED <<main, mainId, mainQuit, handler, status, report, progress, object, id, lost, starts>>

WaitsForQuit ==
  /\ main = "threads" /\ \A s \in object : thread[s] # "none"
  /\ main' = "queue"
  /\ UNCHANGED <<processVars, mainQuit, handler, status, report, progress, lost, starts>>

GetsQuit ==
  /\ main = "queue" /\ mainQuit /\ main' = "told"
  /\ UNCHANGED <<processVars, mainQuit, handler, status, report, progress, lost, starts>>

\* A thread receives WM_QUIT if it has stored its id and looked at its queue before.
TellServers ==
  /\ main = "told" /\ main' = "await"
  /\ thread' = [s \in Servers |-> IF s \in id /\ thread[s] = "loop" THEN "quit" ELSE thread[s]]
  /\ lost' = (lost \/ \E s \in managed : thread[s] \in {"new", "main"})
  /\ UNCHANGED <<mainId, mainQuit, handler, status, report, progress, object, id, managed, starts>>

AwaitShutdown_Never ==
  /\ main = "await" /\ main' = "delete"
  /\ UNCHANGED <<processVars, mainQuit, handler, status, report, progress, lost, starts>>

AwaitShutdown ==
  /\ main = "await" /\ managed = {} /\ main' = "delete"
  /\ UNCHANGED <<processVars, mainQuit, handler, status, report, progress, lost, starts>>

DeleteServers ==
  /\ main = "delete" /\ main' = "return" /\ object' = {}
  /\ UNCHANGED <<mainId, mainQuit, handler, status, report, progress, id, thread, managed, lost, starts>>

ReportStopped ==
  /\ main = "return" /\ main' = "none"
  /\ status' = "STOPPED" /\ Reports("STOPPED", 0)
  /\ UNCHANGED <<processVars, mainQuit, handler, progress, lost, starts>>

\* STOP, SHUTDOWN or PRESHUTDOWN: delivered to a service that said it is running.
ntsvc_ServiceControlEx ==
  /\ report.state = "RUNNING" /\ handler = "idle" /\ handler' = "progress"
  /\ status' = "STOP_PENDING" /\ Reports("STOP_PENDING", 0)
  /\ UNCHANGED <<processVars, main, mainQuit, progress, lost, starts>>

HandlerProgress ==
  /\ handler = "progress" /\ handler' = "post"
  /\ progress' = 0 /\ Reports(status, 0)
  /\ UNCHANGED <<processVars, main, mainQuit, status, lost, starts>>

HandlerPosts ==
  /\ handler = "post" /\ handler' = "idle"
  /\ IF mainId /\ main = "queue" THEN mainQuit' = TRUE /\ UNCHANGED lost ELSE lost' = TRUE /\ UNCHANGED mainQuit
  /\ UNCHANGED <<processVars, main, status, report, progress, starts>>

\* The thread of a server.
StoreId(s) ==
  /\ thread[s] = "new" /\ thread' = [thread EXCEPT ![s] = "main"] /\ id' = id \cup {s}
  /\ UNCHANGED <<main, mainId, mainQuit, handler, status, report, progress, object, managed, lost, starts>>

\* Main has looked at its queue, or has failed to listen and returns.
MainLoop(s) ==
  /\ thread[s] = "main" /\ \E p \in {"loop", "leaves"} : thread' = [thread EXCEPT ![s] = p]
  /\ UNCHANGED <<main, mainId, mainQuit, handler, status, report, progress, object, id, managed, lost, starts>>

ServerGetsQuit(s) ==
  /\ thread[s] = "quit"
  /\ thread' = [thread EXCEPT ![s] = IF s = Winsuite THEN "progress" ELSE "stopping"]
  /\ UNCHANGED <<main, mainId, mainQuit, handler, status, report, progress, object, id, managed, lost, starts>>

ntsvc_SendProgressToSCM ==
  /\ thread[Winsuite] = "progress" /\ thread' = [thread EXCEPT ![Winsuite] = "stopping"]
  /\ progress' = progress + 1 /\ Reports(status, progress + 1)
  /\ UNCHANGED <<main, mainId, mainQuit, handler, status, object, id, managed, lost, starts>>

\* ServerPool shows that the stop of a server ends.
ServerStops(s) ==
  /\ thread[s] = "stopping" /\ thread' = [thread EXCEPT ![s] = "leaves"]
  /\ UNCHANGED <<main, mainId, mainQuit, handler, status, report, progress, object, id, managed, lost, starts>>

RemoveThread(s) ==
  /\ thread[s] = "leaves" /\ thread' = [thread EXCEPT ![s] = "ended"] /\ managed' = managed \ {s}
  /\ UNCHANGED <<main, mainId, mainQuit, handler, status, report, progress, object, id, lost, starts>>

ServiceMain ==
  \/ Register \/ ServiceApp_Init \/ ReportRunning \/ WaitsForQuit \/ GetsQuit \/ TellServers
  \/ AwaitShutdown \/ DeleteServers \/ ReportStopped
  \/ \E s \in Servers : CreateServerThread(s)
Handler == HandlerProgress \/ HandlerPosts
ServerThread(s) == StoreId(s) \/ MainLoop(s) \/ ServerGetsQuit(s) \/ ServerStops(s) \/ RemoveThread(s)

Next ==
  \/ ntsvc_InitFromWinMain \/ ExitProcess \/ ntsvc_ServiceControlEx
  \/ ServiceMain \/ Handler \/ ntsvc_SendProgressToSCM
  \/ \E s \in Servers : ServerThread(s)

Fairness ==
  /\ WF_serviceVars(ServiceMain) /\ WF_serviceVars(Handler) /\ WF_serviceVars(ntsvc_SendProgressToSCM)
  /\ \A s \in Servers : WF_serviceVars(ServerThread(s))

Spec == Init /\ [][Next]_serviceVars /\ Fairness

\* A thread never runs a server that has been deleted, and a stop that was reported is done.
StoppedIsDone ==
  /\ \A s \in Servers : thread[s] \in {"main", "loop", "quit", "progress", "stopping"} => s \in object
  /\ report.state = "STOPPED" => object = {} /\ managed = {}

\* No report of progress or of a running service comes after what Windows takes for final.
ReportsInOrder ==
  /\ report.state = "STOPPED" => report'.state \in {"STOPPED", "START_PENDING"}
  /\ report.state = "STOP_PENDING" => report'.state # "RUNNING"

\* The stop of the service (ntsvc_ServiceControlEx, ntsvc_ServiceMain): what is reported to Windows
\* is true, and a service told to stop reports in the end that it has, unless a WM_QUIT came before
\* the main thread or a server thread could receive it.
ServiceStops ==
  /\ [](TypeOK /\ StoppedIsDone)
  /\ [][ReportsInOrder]_serviceVars
  /\ report.state = "STOP_PENDING" ~> report.state = "STOPPED" \/ lost
=============================================================================
