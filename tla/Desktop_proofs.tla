--------------------------- MODULE Desktop_proofs ---------------------------
(***************************************************************************)
(* Safety of components that MCDesktop checks, each for every value of its *)
(* constants: the stop of the service, Setup, the end of the user process, *)
(* the window poser, the autostart guard, the assisted start, the process  *)
(* manager, the audio player and the menus.                                *)
(***************************************************************************)
EXTENDS Desktop, FiniteSets, SequenceLemmas

-----------------------------------------------------------------------------
(* ServiceControl.  What was reported last is always the status; where       *)
(* ServiceMain is decides which reports may come, and threads of servers are *)
(* managed from their creation to RemoveThread.                              *)

\* The threads of the servers, and the servers they run.
ManagedInv ==
  /\ \A s \in Servers : thread[s] \notin {"none", "ended"} <=> s \in managed
  /\ managed \subseteq sc_object
  /\ managed # {} => sc_main \in {"threads", "queue", "told", "await"}
  /\ sc_main \in {"none", "return"} => sc_object = {}

\* The status by the place of ServiceMain and of the control handler.
StatusInv ==
  /\ report.state = status
  /\ sc_main = "none" <=> status = "STOPPED"
  /\ sc_main \in {"register", "init", "started"} => status = "START_PENDING"
  /\ sc_main \in {"threads", "queue", "told", "await", "delete", "return"} =>
       status \in {"RUNNING", "STOP_PENDING"}
  /\ handler # "idle" => status \in {"STOP_PENDING", "STOPPED"}

ServiceInv == Service!TypeOK /\ ManagedInv /\ StatusInv

\* The invariant is inductive, one step for each action of ServiceControl.
LEMMA ServiceStep ==
  ASSUME MaxStarts \in Nat, ServiceInv, [Service!Next]_Service!serviceVars
  PROVE  ServiceInv'
<1> USE DEF ServiceInv, ManagedInv, StatusInv, Service!TypeOK, Service!serviceVars, Service!processVars,
            Service!MainPlaces, Service!HandlerPlaces, Service!ThreadPlaces, Service!States,
            Service!Reports
<1>1. CASE Service!ntsvc_InitFromWinMain
  <2>1. Service!TypeOK'
    <3>1. starts' \in 0 .. MaxStarts
      BY <1>1 DEF Service!ntsvc_InitFromWinMain
    <3>2. thread' \in [Servers -> Service!ThreadPlaces]
      BY <1>1 DEF Service!ntsvc_InitFromWinMain
    <3>3. report' \in [state : Service!States, checkpoint : Nat]
      BY <1>1 DEF Service!ntsvc_InitFromWinMain
    <3>4. {mainId', mainQuit', sc_lost'} \subseteq BOOLEAN
      BY <1>1 DEF Service!ntsvc_InitFromWinMain
    <3>5. QED
      BY <1>1, <3>1, <3>2, <3>3, <3>4 DEF Service!ntsvc_InitFromWinMain
  <2>2. ManagedInv'
    BY <1>1 DEF Service!ntsvc_InitFromWinMain
  <2>3. StatusInv'
    BY <1>1 DEF Service!ntsvc_InitFromWinMain
  <2>4. QED
    BY <2>1, <2>2, <2>3
<1>2. CASE Service!ExitProcess
  BY <1>2 DEF Service!ExitProcess
<1>3. CASE Service!ntsvc_ServiceControlEx
  BY <1>3 DEF Service!ntsvc_ServiceControlEx
<1>4. CASE Service!Register
  BY <1>4 DEF Service!Register
<1>5. CASE Service!ServiceApp_Init
  BY <1>5 DEF Service!ServiceApp_Init
<1>6. CASE Service!ReportRunning
  BY <1>6 DEF Service!ReportRunning
<1>7. CASE Service!WaitsForQuit
  BY <1>7 DEF Service!WaitsForQuit
<1>8. CASE Service!GetsQuit
  BY <1>8 DEF Service!GetsQuit
<1>9. CASE Service!TellServers
  BY <1>9 DEF Service!TellServers
<1>10. CASE Service!AwaitShutdown
  BY <1>10 DEF Service!AwaitShutdown
<1>11. CASE Service!DeleteServers
  BY <1>11 DEF Service!DeleteServers
<1>12. CASE Service!ReportStopped
  BY <1>12 DEF Service!ReportStopped
<1>13. ASSUME NEW s \in Servers, Service!CreateServerThread(s) PROVE ServiceInv'
  BY <1>13 DEF Service!CreateServerThread
<1>14. CASE Service!HandlerProgress
  BY <1>14 DEF Service!HandlerProgress
<1>15. CASE Service!HandlerPosts
  BY <1>15 DEF Service!HandlerPosts
<1>16. CASE Service!ntsvc_SendProgressToSCM
  <2>1. CASE Winsuite \in Servers
    BY <1>16, <2>1 DEF Service!ntsvc_SendProgressToSCM
  <2>2. CASE Winsuite \notin Servers
    <3>1. thread' = thread
      BY <1>16, <2>2 DEF Service!ntsvc_SendProgressToSCM
    <3>2. progress' \in Nat /\ report' = [state |-> status, checkpoint |-> progress']
      BY <1>16 DEF Service!ntsvc_SendProgressToSCM
    <3>3. UNCHANGED <<sc_main, mainId, mainQuit, handler, status, sc_object, id, managed, sc_lost, starts>>
      BY <1>16 DEF Service!ntsvc_SendProgressToSCM
    <3>4. QED
      BY <3>1, <3>2, <3>3
  <2>3. QED
    BY <2>1, <2>2
<1>17. ASSUME NEW s \in Servers, Service!StoreId(s) PROVE ServiceInv'
  BY <1>17 DEF Service!StoreId
<1>18. ASSUME NEW s \in Servers, Service!MainLoop(s) PROVE ServiceInv'
  BY <1>18 DEF Service!MainLoop
<1>19. ASSUME NEW s \in Servers, Service!ServerGetsQuit(s) PROVE ServiceInv'
  BY <1>19 DEF Service!ServerGetsQuit
<1>20. ASSUME NEW s \in Servers, Service!ServerStops(s) PROVE ServiceInv'
  BY <1>20 DEF Service!ServerStops
<1>21. ASSUME NEW s \in Servers, Service!RemoveThread(s) PROVE ServiceInv'
  BY <1>21 DEF Service!RemoveThread
<1>22. CASE UNCHANGED Service!serviceVars
  BY <1>22
<1>23. QED
  BY <1>1, <1>2, <1>3, <1>4, <1>5, <1>6, <1>7, <1>8, <1>9, <1>10, <1>11, <1>12, <1>13, <1>14, <1>15, <1>16,
     <1>17, <1>18, <1>19, <1>20, <1>21, <1>22
  DEF Service!Next, Service!ServiceMain, Service!Handler, Service!ServerThread

\* The invariant holds from the start of the service on (ntsvc_InitFromWinMain).
THEOREM ServiceInvHolds == ASSUME MaxStarts \in Nat PROVE Service!Spec => []ServiceInv
<1>1. Service!Init => ServiceInv
  <2> SUFFICES ASSUME Service!Init PROVE ServiceInv
    OBVIOUS
  <2>1. Service!TypeOK
    <3>1. {mainId, mainQuit, sc_lost} \subseteq BOOLEAN
      BY DEF Service!Init
    <3>2. QED
      BY <3>1 DEF Service!Init, Service!TypeOK, Service!MainPlaces, Service!HandlerPlaces,
                  Service!ThreadPlaces, Service!States
  <2>2. ManagedInv
    BY DEF Service!Init, ManagedInv
  <2>3. StatusInv
    BY DEF Service!Init, StatusInv
  <2>4. QED
    BY <2>1, <2>2, <2>3 DEF ServiceInv
<1>2. ServiceInv /\ [Service!Next]_Service!serviceVars => ServiceInv'
  BY ServiceStep
<1>3. QED
  BY <1>1, <1>2, PTL DEF Service!Spec

\* No thread runs a server that has been deleted, and when the service has reported that
\* it has stopped, no server and no thread is left (ntsvc_ServiceMain, ServiceApp_Main).
THEOREM StopIsDone ==
  ASSUME MaxStarts \in Nat PROVE Service!Spec => [](Service!TypeOK /\ Service!StoppedIsDone)
<1>1. ServiceInv => Service!TypeOK /\ Service!StoppedIsDone
  BY DEF ServiceInv, ManagedInv, StatusInv, Service!TypeOK, Service!StoppedIsDone
<1>2. QED
  BY <1>1, ServiceInvHolds, PTL

\* The control handler, the main thread and the thread of the WinSuite server all report:
\* nothing but a new start follows STOPPED, and RUNNING never follows STOP_PENDING.
THEOREM ReportsFollow ==
  ASSUME MaxStarts \in Nat PROVE Service!Spec => [][Service!ReportsInOrder]_Service!serviceVars
<1>1. ServiceInv /\ ServiceInv' /\ [Service!Next]_Service!serviceVars => [Service!ReportsInOrder]_Service!serviceVars
  <2> SUFFICES ASSUME ServiceInv, ServiceInv', Service!Next PROVE Service!ReportsInOrder
    BY DEF Service!serviceVars
  <2>1. ASSUME status = "STOPPED" PROVE status' \in {"STOPPED", "START_PENDING"}
    BY <2>1 DEF
       ServiceInv, ManagedInv, StatusInv, Service!TypeOK, Service!Next, Service!ServiceMain,
       Service!Handler, Service!ServerThread, Service!ntsvc_InitFromWinMain, Service!ExitProcess,
       Service!ntsvc_ServiceControlEx, Service!Register, Service!ServiceApp_Init,
       Service!ReportRunning, Service!WaitsForQuit, Service!GetsQuit, Service!TellServers,
       Service!AwaitShutdown, Service!DeleteServers, Service!ReportStopped,
       Service!CreateServerThread, Service!HandlerProgress, Service!HandlerPosts,
       Service!ntsvc_SendProgressToSCM, Service!StoreId, Service!MainLoop,
       Service!ServerGetsQuit, Service!ServerStops, Service!RemoveThread
  <2>2. ASSUME status = "STOP_PENDING" PROVE status' # "RUNNING"
    BY <2>2 DEF
       ServiceInv, ManagedInv, StatusInv, Service!TypeOK, Service!Next, Service!ServiceMain,
       Service!Handler, Service!ServerThread, Service!ntsvc_InitFromWinMain, Service!ExitProcess,
       Service!ntsvc_ServiceControlEx, Service!Register, Service!ServiceApp_Init,
       Service!ReportRunning, Service!WaitsForQuit, Service!GetsQuit, Service!TellServers,
       Service!AwaitShutdown, Service!DeleteServers, Service!ReportStopped,
       Service!CreateServerThread, Service!HandlerProgress, Service!HandlerPosts,
       Service!ntsvc_SendProgressToSCM, Service!StoreId, Service!MainLoop,
       Service!ServerGetsQuit, Service!ServerStops, Service!RemoveThread
  <2>3. QED
    BY <2>1, <2>2 DEF ServiceInv, StatusInv, Service!ReportsInOrder
<1>2. QED
  BY <1>1, ServiceInvHolds, PTL DEF Service!Spec

-----------------------------------------------------------------------------
(* Setup.  As long as nothing was refused, has failed or overlapped, at most  *)
(* one elevated process is at work, and how far it is tells what Run value    *)
(* and service are.                                                           *)

JobPlaces == {"install", "register", "uninstall", "unregister", "done"}

SetupTypes ==
  /\ setup_run \in BOOLEAN /\ service \in {"absent", "present", "marked"} /\ jobs \in Seq(JobPlaces)
  /\ dialog \in BOOLEAN /\ refused \in BOOLEAN /\ failed \in BOOLEAN /\ overlapped \in BOOLEAN

\* What an elevated process that has come to this place has found and done.
DoneSoFar(place) ==
  \/ place = "install" /\ wanted # {} /\ ~setup_run /\ service # "present"
  \/ place = "register" /\ wanted # {} /\ ~setup_run /\ service = "present"
  \/ place = "uninstall" /\ wanted = {} /\ setup_run /\ service = "present"
  \/ place = "unregister" /\ wanted = {} /\ setup_run /\ service # "present"

OneAtWork ==
  /\ \A j, k \in Installer!Busy : j = k
  /\ \A j \in Installer!Busy : DoneSoFar(jobs[j])
  /\ Installer!Busy = {} => Installer!Agrees

SetupInv == SetupTypes /\ (refused \/ failed \/ overlapped \/ OneAtWork)

\* The invariant is inductive.
LEMMA SetupStep ==
  ASSUME SetupInv, [Installer!Next]_Installer!setupVars PROVE SetupInv'
<1> USE DEF SetupInv, SetupTypes, Installer!setupVars
<1>1. ASSUME UNCHANGED <<wanted, setup_run, service, jobs, refused, failed, overlapped>>, dialog' \in BOOLEAN
      PROVE  SetupInv'
  BY <1>1 DEF OneAtWork, DoneSoFar, Installer!Busy, Installer!Agrees, Installer!Done
<1>2. CASE Installer!Opens \/ Installer!Cancel \/ UNCHANGED Installer!setupVars
  BY <1>1, <1>2 DEF Installer!Opens, Installer!Cancel
<1>3. CASE Installer!OK
  <2>0. UNCHANGED <<setup_run, service, failed>> /\ dialog' = FALSE
    BY <1>3 DEF Installer!OK
  <2>1. PICK selected \in SUBSET Components :
          /\ wanted' = selected
          /\ \/ \E job \in Installer!Needed(selected) :
                  jobs' = Append(jobs, job) /\ UNCHANGED refused
             \/ UNCHANGED jobs /\ refused' = (refused \/ Installer!Needed(selected) # {})
    BY <1>3 DEF Installer!OK
  <2>2. overlapped' = (overlapped \/ Installer!Busy # {})
    BY <1>3 DEF Installer!OK
  <2>3. Installer!Needed(selected) \subseteq JobPlaces
    BY DEF Installer!Needed, JobPlaces
  <2>4. SetupTypes'
    <3>1. jobs' \in Seq(JobPlaces)
      BY <2>1, <2>3
    <3>2. refused' \in BOOLEAN
      <4>1. refused' = refused \/ refused' = (refused \/ Installer!Needed(selected) # {})
        BY <2>1
      <4>2. QED
        BY <4>1
    <3>3. overlapped' \in BOOLEAN
      BY <2>2
    <3>4. QED
      BY <2>0, <3>1, <3>2, <3>3
  <2>5. CASE refused \/ failed \/ overlapped \/ Installer!Busy # {}
    BY <2>0, <2>1, <2>2, <2>4, <2>5
  <2>6. CASE ~(refused \/ failed \/ overlapped \/ Installer!Busy # {})
    <3>1. Installer!Busy = {} /\ Installer!Agrees
      BY <2>6 DEF OneAtWork
    <3>2. CASE UNCHANGED jobs /\ Installer!Needed(selected) # {}
      BY <2>1, <2>4, <3>2
    <3>3. CASE UNCHANGED jobs /\ Installer!Needed(selected) = {}
      <4>1. Installer!Busy' = {}
        BY <3>1, <3>3 DEF Installer!Busy
      <4>2. selected # {} <=> setup_run
        BY <3>3 DEF Installer!Needed
      <4>3. Installer!Agrees'
        BY <2>0, <2>1, <3>1, <4>2 DEF Installer!Agrees
      <4>4. QED
        BY <2>4, <4>1, <4>3 DEF OneAtWork
    <3>4. ASSUME NEW job \in Installer!Needed(selected), jobs' = Append(jobs, job) PROVE SetupInv'
      <4>1. /\ DOMAIN jobs' = 1 .. Len(jobs) + 1
            /\ jobs'[Len(jobs) + 1] = job
            /\ \A j \in DOMAIN jobs : jobs'[j] = jobs[j]
        BY <3>4
      <4>2. Installer!Busy' \subseteq {Len(jobs) + 1}
        BY <3>1, <4>1 DEF Installer!Busy
      <4>3. \/ job = "uninstall" /\ selected = {} /\ setup_run
            \/ job = "install" /\ selected # {} /\ ~setup_run
        BY <3>4 DEF Installer!Needed
      <4>4. DoneSoFar(job)'
        BY <2>0, <2>1, <3>1, <4>3 DEF DoneSoFar, Installer!Agrees
      <4>5. Len(jobs) + 1 \in Installer!Busy'
        BY <4>1, <4>3 DEF Installer!Busy, Installer!Done
      <4>6. OneAtWork'
        BY <4>1, <4>2, <4>4, <4>5 DEF OneAtWork, DoneSoFar
      <4>7. QED
        BY <2>4, <4>6
    <3>5. QED
      BY <2>1, <3>2, <3>3, <3>4
  <2>7. QED
    BY <2>5, <2>6
<1>4. ASSUME NEW j \in 1 .. MaxDialogs, NEW from \in JobPlaces \ {"done"}, NEW to \in JobPlaces,
             Installer!Goes(j, from, to), UNCHANGED <<wanted, dialog, refused, overlapped>>,
             setup_run' \in BOOLEAN, service' \in {"absent", "present", "marked"}, failed' \in BOOLEAN,
             failed => failed',
             ~failed' /\ DoneSoFar(from) => IF to = "done" THEN Installer!Agrees' ELSE DoneSoFar(to)'
      PROVE  SetupInv'
  <2>1. j \in DOMAIN jobs /\ jobs[j] = from /\ jobs' = [jobs EXCEPT ![j] = to]
    BY <1>4 DEF Installer!Goes
  <2>2. SetupTypes'
    BY <1>4, <2>1
  <2>3. CASE refused \/ failed' \/ overlapped
    BY <1>4, <2>2, <2>3
  <2>4. CASE ~(refused \/ failed' \/ overlapped)
    <3>1. OneAtWork
      BY <1>4, <2>4
    <3>2. Installer!Busy = {j}
      BY <2>1, <3>1 DEF OneAtWork, Installer!Busy, Installer!Done
    <3>3. DoneSoFar(from)
      BY <2>1, <3>1, <3>2 DEF OneAtWork
    <3>4. DOMAIN jobs' = DOMAIN jobs /\ jobs'[j] = to /\ \A k \in DOMAIN jobs \ {j} : jobs'[k] = jobs[k]
      BY <2>1
    <3>5. Installer!Busy' = IF to = "done" THEN {} ELSE {j}
      BY <2>1, <3>2, <3>4 DEF Installer!Busy, Installer!Done
    <3>6. OneAtWork'
      <4>1. CASE to = "done"
        BY <1>4, <2>4, <3>3, <3>5, <4>1 DEF OneAtWork
      <4>2. CASE to # "done"
        BY <1>4, <2>4, <3>3, <3>4, <3>5, <4>2 DEF OneAtWork, DoneSoFar
      <4>3. QED
        BY <4>1, <4>2
    <3>7. QED
      BY <2>2, <3>6
  <2>5. QED
    BY <2>3, <2>4
<1>5. ASSUME NEW j \in 1 .. MaxDialogs, Installer!Elevated(j) PROVE SetupInv'
  <2>1. CASE Installer!Install(j)
    <3>0. /\ Installer!Goes(j, "install", "register")
          /\ UNCHANGED <<wanted, setup_run, dialog, refused, overlapped>>
      BY <2>1 DEF Installer!Install
    <3>1. CASE service = "absent" /\ service' = "present" /\ UNCHANGED failed
      <4>1. ~failed' /\ DoneSoFar("install") => DoneSoFar("register")'
        BY <3>0, <3>1 DEF DoneSoFar
      <4>2. QED
        BY <1>4, <3>0, <3>1, <4>1 DEF JobPlaces
    <3>2. CASE UNCHANGED service /\ failed' = TRUE
      BY <1>4, <3>0, <3>2 DEF JobPlaces
    <3>3. QED
      BY <2>1, <3>1, <3>2 DEF Installer!Install
  <2>2. CASE Installer!Uninstall(j)
    <3>0. /\ Installer!Goes(j, "uninstall", "unregister")
          /\ UNCHANGED <<wanted, setup_run, dialog, refused, overlapped>>
      BY <2>2 DEF Installer!Uninstall
    <3>1. CASE service = "present" /\ service' = "marked" /\ UNCHANGED failed
      <4>1. ~failed' /\ DoneSoFar("uninstall") => DoneSoFar("unregister")'
        BY <3>0, <3>1 DEF DoneSoFar
      <4>2. QED
        BY <1>4, <3>0, <3>1, <4>1 DEF JobPlaces
    <3>2. CASE UNCHANGED service /\ failed' = TRUE
      BY <1>4, <3>0, <3>2 DEF JobPlaces
    <3>3. QED
      BY <2>2, <3>1, <3>2 DEF Installer!Uninstall
  <2>3. CASE Installer!Register(j)
    BY <1>4, <2>3 DEF Installer!Register, JobPlaces, DoneSoFar, Installer!Agrees, Installer!Done
  <2>4. CASE Installer!Unregister(j)
    BY <1>4, <2>4 DEF Installer!Unregister, JobPlaces, DoneSoFar, Installer!Agrees, Installer!Done
  <2>5. QED
    BY <1>5, <2>1, <2>2, <2>3, <2>4 DEF Installer!Elevated
<1>6. CASE Installer!ServiceStops
  <2>1. service = "marked" /\ service' = "absent"
        /\ UNCHANGED <<wanted, setup_run, jobs, dialog, dialogs, refused, failed, overlapped>>
    BY <1>6 DEF Installer!ServiceStops
  <2>2. Installer!Busy' = Installer!Busy
    BY <2>1 DEF Installer!Busy
  <2>3. OneAtWork => OneAtWork'
    BY <2>1, <2>2 DEF OneAtWork, DoneSoFar, Installer!Agrees
  <2>4. QED
    BY <2>1, <2>3
<1>7. QED
  BY <1>2, <1>3, <1>5, <1>6 DEF Installer!Next

\* Once Setup is closed and no elevated process is at work, Run value and service are as
\* the user wants, unless one of the three accidents happened (class Setup, /Install, /Uninstall).
THEOREM SettledAgrees ==
  Installer!Spec =>
    [](Installer!Settled => Installer!Agrees \/ refused \/ failed \/ overlapped)
<1>1. Installer!Init => SetupInv
  <2> SUFFICES ASSUME Installer!Init PROVE SetupInv
    OBVIOUS
  <2>1. Installer!Busy = {}
    BY DEF Installer!Init, Installer!Busy
  <2>2. Installer!Agrees
    BY DEF Installer!Init, Installer!Agrees
  <2>3. SetupTypes
    <3>1. jobs = <<>>
      BY DEF Installer!Init
    <3>2. jobs \in Seq(JobPlaces)
      BY <3>1
    <3>3. service \in {"absent", "present", "marked"}
      BY DEF Installer!Init
    <3>4. QED
      BY <3>2, <3>3 DEF Installer!Init, SetupTypes
  <2>4. QED
    BY <2>1, <2>2, <2>3 DEF SetupInv, OneAtWork
<1>2. SetupInv /\ [Installer!Next]_Installer!setupVars => SetupInv'
  BY SetupStep
<1>3. SetupInv => (Installer!Settled => Installer!Agrees \/ refused \/ failed \/ overlapped)
  BY DEF SetupInv, OneAtWork, Installer!Settled
<1>4. QED
  BY <1>1, <1>2, <1>3, PTL DEF Installer!Spec

-----------------------------------------------------------------------------
(* Boot.  While TerminateAll has been entered once, a module that is still    *)
(* loaded has been destroyed only if its destructor runs; and an end that was *)
(* granted is one that the lock would still grant, or came before the lock.   *)

Frames == [at : Nat, deleting : BOOLEAN]

BootTypes ==
  /\ loaded \subseteq UserProcess!Modules
  /\ frames \in Seq(Frames)
  /\ destroyed \in [UserProcess!Modules -> Nat]
  /\ {terminated, quit, locked, permits, nested, late} \subseteq BOOLEAN

\* WinMain comes first.
StartInv ==
  main = "start" => /\ frames = <<>> /\ ~quit /\ untold = {}
                    /\ \A m \in UserProcess!Modules : destroyed[m] = 0

InDestructor(m) ==
  /\ frames # <<>> /\ UserProcess!Top.at <= Len(Order) /\ UserProcess!Top.deleting
  /\ Order[UserProcess!Top.at] = m

OnceInv ==
  nested \/ /\ Len(frames) <= 1
            /\ \A m \in UserProcess!Modules :
                 /\ destroyed[m] <= 1
                 /\ m \in loaded /\ destroyed[m] # 0 => InDestructor(m)

\* WM_QUIT waits in the main thread, which has not begun TerminateAll.
GrantInv ==
  quit /\ ~terminated /\ frames = <<>> /\ NtProtect \in loaded /\ locked =>
    (Player \in loaded /\ permits) \/ late

BootInv == BootTypes /\ StartInv /\ OnceInv /\ GrantInv

\* Steps that leave the modules and the calls of TerminateAll alone.
LEMMA QuietStep ==
  ASSUME BootInv, UNCHANGED <<loaded, frames, destroyed, terminated>>,
         {quit', locked', permits', nested', late'} \subseteq BOOLEAN, nested => nested',
         main' = "start" => main = "start" /\ ~quit' /\ untold' = {},
         GrantInv'
  PROVE  BootInv'
<1>1. BootTypes'
  BY DEF BootInv, BootTypes
<1>2. StartInv'
  BY DEF BootInv, StartInv
<1>3. OnceInv'
  BY DEF BootInv, BootTypes, OnceInv, InDestructor, UserProcess!Top
<1>4. QED
  BY <1>1, <1>2, <1>3 DEF BootInv

\* The invariant is inductive.
LEMMA BootStep ==
  ASSUME Order \in Seq(UserProcess!Modules), BootInv, [UserProcess!Next]_UserProcess!bootVars
  PROVE  BootInv'
<1>1. CASE UserProcess!WinMain
  <2>1. /\ main = "start" /\ main' = "loop" /\ loaded' \subseteq UserProcess!Modules
        /\ UNCHANGED <<frames, destroyed, terminated, quit, locked, permits, nested, late>>
    BY <1>1 DEF UserProcess!WinMain
  <2>2. BootTypes' /\ StartInv' /\ GrantInv'
    BY <2>1 DEF BootInv, BootTypes, StartInv, GrantInv
  <2>3. OnceInv'
    BY <2>1 DEF BootInv, BootTypes, StartInv, OnceInv
  <2>4. QED
    BY <2>2, <2>3 DEF BootInv
<1>2. CASE UserProcess!Lock
  BY <1>2, QuietStep DEF UserProcess!Lock, BootInv, BootTypes, StartInv, GrantInv
<1>3. CASE UserProcess!Unlock
  BY <1>3, QuietStep DEF UserProcess!Unlock, BootInv, BootTypes, StartInv, GrantInv
<1>4. CASE UserProcess!PlayerSays
  BY <1>4, QuietStep DEF UserProcess!PlayerSays, BootInv, BootTypes, StartInv, GrantInv
<1>5. CASE UserProcess!MenuOpens
  BY <1>5, QuietStep DEF UserProcess!MenuOpens, BootInv, BootTypes, StartInv, GrantInv
<1>6. CASE UserProcess!MenuCloses
  BY <1>6, QuietStep DEF UserProcess!MenuCloses, UserProcess!TerminateVKernel_Allowed, UserProcess!Allowed,
     BootInv, BootTypes, StartInv, GrantInv
<1>7. CASE UserProcess!MenuTakesQuit
  BY <1>7, QuietStep DEF UserProcess!MenuTakesQuit, BootInv, BootTypes, StartInv, GrantInv
<1>8. CASE UserProcess!AwaitTakesQuit
  BY <1>8, QuietStep DEF UserProcess!AwaitTakesQuit, BootInv, BootTypes, StartInv, GrantInv
<1>9. CASE UserProcess!SessionEnds
  BY <1>9, QuietStep DEF UserProcess!SessionEnds, BootInv, BootTypes, StartInv, GrantInv
<1>10. ASSUME NEW c \in Clients, UserProcess!EndSessionToClient(c) PROVE BootInv'
  BY <1>10, QuietStep DEF UserProcess!EndSessionToClient, UserProcess!TerminateVKernel_Allowed,
     UserProcess!Allowed, BootInv, BootTypes, StartInv, GrantInv
<1>11. CASE UserProcess!Killed
  BY <1>11, QuietStep DEF UserProcess!Killed, BootInv, BootTypes, StartInv, GrantInv
<1>12. ASSUME frames = <<>>, frames' = UserProcess!Call, main # "start", main' # "start",
              UNCHANGED <<loaded, destroyed, terminated, locked, permits, late>>, quit' \in BOOLEAN,
              nested' = nested
       PROVE  BootInv'
  <2>1. frames' = <<[at |-> 1, deleting |-> FALSE]>>
    BY <1>12 DEF UserProcess!Call
  <2>2. BootTypes' /\ StartInv' /\ GrantInv'
    BY <1>12, <2>1 DEF BootInv, BootTypes, StartInv, GrantInv, Frames
  <2>3. OnceInv'
    BY <1>12, <2>1 DEF BootInv, OnceInv, InDestructor
  <2>4. QED
    BY <2>2, <2>3 DEF BootInv
<1>13. CASE UserProcess!EndSessionToMain
  <2>1. CASE ~UserProcess!TerminateVKernel_Allowed
    BY <1>13, <2>1, QuietStep DEF UserProcess!EndSessionToMain, BootInv, BootTypes, StartInv, GrantInv
  <2>2. CASE UserProcess!TerminateVKernel_Allowed /\ frames = <<>>
    BY <1>12, <1>13, <2>2 DEF UserProcess!EndSessionToMain, UserProcess!Dispatches, BootInv, BootTypes
  <2>3. CASE UserProcess!TerminateVKernel_Allowed /\ frames # <<>>
    <3>1. /\ frames' = Append(frames, [at |-> 1, deleting |-> FALSE])
          /\ UNCHANGED <<main, loaded, destroyed, terminated, quit, locked, permits, late>>
      BY <1>13, <2>3 DEF UserProcess!EndSessionToMain, UserProcess!Call
    <3>2. nested' = TRUE
      BY <1>13, <2>3 DEF UserProcess!EndSessionToMain
    <3>3. frames' \in Seq(Frames) /\ frames' # <<>>
      BY <3>1 DEF BootInv, BootTypes, Frames
    <3>4. BootTypes'
      BY <3>1, <3>2, <3>3 DEF BootInv, BootTypes
    <3>5. main # "start"
      BY <2>3 DEF BootInv, StartInv
    <3>6. StartInv' /\ GrantInv' /\ OnceInv'
      BY <3>1, <3>2, <3>3, <3>5 DEF StartInv, GrantInv, OnceInv
    <3>7. QED
      BY <3>4, <3>6 DEF BootInv
  <2>4. QED
    BY <2>1, <2>2, <2>3
<1>14. CASE UserProcess!GetsQuit
  <2>1. CASE terminated
    BY <1>14, <2>1, QuietStep DEF UserProcess!GetsQuit, BootInv, BootTypes, StartInv, GrantInv
  <2>2. CASE ~terminated
    BY <1>12, <1>14, <2>2 DEF UserProcess!GetsQuit
  <2>3. QED
    BY <2>1, <2>2
<1>15. ASSUME NEW f \in Frames, frames # <<>>, frames' = UserProcess!SetTop(f)
       PROVE  /\ frames' \in Seq(Frames) /\ frames' # <<>> /\ Len(frames') = Len(frames)
              /\ frames'[Len(frames')] = f
  BY <1>15 DEF UserProcess!SetTop, BootInv, BootTypes
<1>16. frames # <<>> => UserProcess!Top \in Frames /\ UserProcess!Top = frames[Len(frames)]
  BY DEF UserProcess!Top, BootInv, BootTypes
<1>17. CASE UserProcess!Delete
  <2>0. /\ frames # <<>> /\ UserProcess!Top.at <= Len(Order) /\ ~UserProcess!Top.deleting
        /\ UNCHANGED <<loaded, terminated, quit, locked, permits, untold, nested, late>>
    BY <1>17 DEF UserProcess!Delete
  <2>1. PICK m : m = Order[UserProcess!Top.at]
    OBVIOUS
  <2>2. CASE m \in loaded
    <3>1. /\ destroyed' = [destroyed EXCEPT ![m] = @ + 1]
          /\ frames' = UserProcess!SetTop([UserProcess!Top EXCEPT !.deleting = TRUE])
          /\ main' = main \/ main' = "crashed"
      BY <1>17, <2>1, <2>2 DEF UserProcess!Delete
    <3>2. [UserProcess!Top EXCEPT !.deleting = TRUE] \in Frames
      BY <1>16, <2>0 DEF Frames
    <3>3. /\ frames' \in Seq(Frames) /\ frames' # <<>> /\ Len(frames') = Len(frames)
          /\ frames'[Len(frames')] = [UserProcess!Top EXCEPT !.deleting = TRUE]
      BY <1>15, <2>0, <3>1, <3>2
    <3>4. BootTypes' /\ StartInv' /\ GrantInv'
      BY <2>0, <2>2, <3>1, <3>3 DEF BootInv, BootTypes, StartInv, GrantInv
    <3>5. InDestructor(m)'
      BY <1>16, <2>0, <2>1, <3>3 DEF InDestructor, UserProcess!Top, Frames
    <3>6. OnceInv'
      <4> SUFFICES ASSUME ~nested PROVE OnceInv'
        BY <2>0 DEF OnceInv
      <4>1. destroyed[m] = 0
        BY <2>0, <2>2 DEF BootInv, BootTypes, OnceInv, InDestructor
      <4>2. \A x \in UserProcess!Modules \ {m} : ~(x \in loaded /\ destroyed[x] # 0) /\ destroyed'[x] = destroyed[x]
        BY <2>0, <3>1 DEF BootInv, BootTypes, OnceInv, InDestructor
      <4>3. destroyed'[m] = 1
        BY <2>2, <3>1, <4>1 DEF BootInv, BootTypes
      <4>4. QED
        BY <2>0, <3>3, <3>5, <4>2, <4>3 DEF BootInv, OnceInv
    <3>7. QED
      BY <3>4, <3>6 DEF BootInv
  <2>3. CASE m \notin loaded
    <3>1. /\ frames' = UserProcess!SetTop([UserProcess!Top EXCEPT !.at = @ + 1])
          /\ UNCHANGED <<main, destroyed>>
      BY <1>17, <2>1, <2>3 DEF UserProcess!Delete
    <3>2. [UserProcess!Top EXCEPT !.at = @ + 1] \in Frames
      BY <1>16, <2>0 DEF Frames
    <3>3. frames' \in Seq(Frames) /\ frames' # <<>> /\ Len(frames') = Len(frames)
      BY <1>15, <2>0, <3>1, <3>2
    <3>4. BootTypes' /\ StartInv' /\ GrantInv'
      BY <2>0, <3>1, <3>3 DEF BootInv, BootTypes, StartInv, GrantInv
    <3>5. OnceInv'
      BY <2>0, <3>1, <3>3 DEF BootInv, OnceInv, InDestructor
    <3>6. QED
      BY <3>4, <3>5 DEF BootInv
  <2>4. QED
    BY <2>2, <2>3
<1>18. CASE UserProcess!Deleted
  <2>0. /\ frames # <<>> /\ main # "crashed"
        /\ loaded' = loaded \ {Order[UserProcess!Top.at]}
        /\ locked' = IF Order[UserProcess!Top.at] = NtProtect THEN FALSE ELSE locked
        /\ frames' = UserProcess!SetTop([at |-> UserProcess!Top.at + 1, deleting |-> FALSE])
        /\ UNCHANGED <<main, destroyed, terminated, quit, permits, untold, nested, late>>
    BY <1>18 DEF UserProcess!Deleted, UserProcess!Deleting
  <2>1. [at |-> UserProcess!Top.at + 1, deleting |-> FALSE] \in Frames
    BY <1>16, <2>0 DEF Frames
  <2>2. frames' \in Seq(Frames) /\ frames' # <<>> /\ Len(frames') = Len(frames)
    BY <1>15, <2>0, <2>1
  <2>3. BootTypes' /\ StartInv' /\ GrantInv'
    BY <2>0, <2>2 DEF BootInv, BootTypes, StartInv, GrantInv
  <2>4. OnceInv'
    BY <2>0, <2>2 DEF BootInv, OnceInv, InDestructor
  <2>5. QED
    BY <2>3, <2>4 DEF BootInv
<1>19. CASE UserProcess!TerminateAllReturns
  <2>0. /\ frames # <<>> /\ UserProcess!Top.at > Len(Order) /\ terminated'
        /\ frames' = SubSeq(frames, 1, Len(frames) - 1)
        /\ main' = main \/ main' = "gone"
        /\ UNCHANGED <<loaded, destroyed, quit, locked, permits, untold, nested, late>>
    BY <1>19 DEF UserProcess!TerminateAllReturns
  <2>1. frames' \in Seq(Frames) /\ Len(frames') = Len(frames) - 1
    <3>1. frames \in Seq(Frames) /\ Len(frames) \in Nat \ {0}
      BY <2>0 DEF BootInv, BootTypes
    <3>2. /\ SubSeq(frames, 1, Len(frames) - 1) \in Seq(Frames)
          /\ Len(SubSeq(frames, 1, Len(frames) - 1)) = Len(frames) - 1
      <4>1. PICK n \in Nat : n = Len(frames) - 1
        BY <3>1
      <4>2. \A i \in 1 .. n : frames[i] \in Frames
        BY <3>1, <4>1
      <4>3. SubSeq(frames, 1, n) \in Seq(Frames) /\ Len(SubSeq(frames, 1, n)) = IF 1 <= n THEN n - 1 + 1 ELSE 0
        BY <4>2, SubSeqProperties
      <4>4. (IF 1 <= n THEN n - 1 + 1 ELSE 0) = n
        OBVIOUS
      <4>5. QED
        BY ONLY <4>1, <4>3, <4>4
    <3>3. QED
      BY <2>0, <3>2
  <2>2. terminated' = TRUE
    BY <1>19 DEF UserProcess!TerminateAllReturns
  <2>3. BootTypes' /\ StartInv' /\ GrantInv'
    BY <2>0, <2>1, <2>2 DEF BootInv, BootTypes, StartInv, GrantInv
  <2>4. \A m : ~InDestructor(m)
    BY <1>16, <2>0 DEF InDestructor, Frames
  <2>5. OnceInv'
    BY <2>0, <2>1, <2>4 DEF BootInv, BootTypes, OnceInv
  <2>6. QED
    BY <2>3, <2>5 DEF BootInv
<1>20. CASE UNCHANGED UserProcess!bootVars
  BY <1>20, QuietStep DEF UserProcess!bootVars, BootInv, BootTypes, StartInv, GrantInv
<1>21. QED
  BY <1>1, <1>2, <1>3, <1>4, <1>5, <1>6, <1>7, <1>8, <1>9, <1>10, <1>11, <1>13, <1>14, <1>17, <1>18, <1>19, <1>20
  DEF UserProcess!Next, UserProcess!MainThread, UserProcess!Windows

\* The invariant holds in every state of the user process (WinMain, TerminateAll).
THEOREM BootInvHolds ==
  ASSUME Order \in Seq(UserProcess!Modules) PROVE UserProcess!Spec => []BootInv
<1>1. UserProcess!Init => BootInv
  <2> SUFFICES ASSUME UserProcess!Init PROVE BootInv
    OBVIOUS
  <2>1. frames = <<>> /\ frames \in Seq(Frames)
    BY DEF UserProcess!Init
  <2>2. BootTypes
    BY <2>1 DEF UserProcess!Init, BootTypes
  <2>3. StartInv /\ GrantInv
    BY <2>1 DEF UserProcess!Init, StartInv, GrantInv
  <2>4. OnceInv
    BY <2>1 DEF UserProcess!Init, OnceInv
  <2>5. QED
    BY <2>2, <2>3, <2>4 DEF BootInv
<1>2. BootInv /\ [UserProcess!Next]_UserProcess!bootVars => BootInv'
  BY BootStep
<1>3. QED
  BY <1>1, <1>2, PTL DEF UserProcess!Spec

\* TerminateAll destroys no module twice unless it is entered again while it waits.
THEOREM DestroysOnce ==
  ASSUME Order \in Seq(UserProcess!Modules) PROVE UserProcess!Spec => []UserProcess!DestroyedOnce
<1>1. BootInv => UserProcess!DestroyedOnce
  BY DEF BootInv, OnceInv, UserProcess!DestroyedOnce
<1>2. QED
  BY <1>1, BootInvHolds, PTL

\* TerminateAll begins on a locked session only with the player's permission, unless the
\* lock came after the end had been granted (TerminateVKernel_Allowed, GetsQuit).
THEOREM LockIsRespected ==
  ASSUME Order \in Seq(UserProcess!Modules)
  PROVE  UserProcess!Spec => [][UserProcess!LockResists]_UserProcess!bootVars
<1>1. BootInv /\ [UserProcess!Next]_UserProcess!bootVars => [UserProcess!LockResists]_UserProcess!bootVars
  <2> SUFFICES ASSUME BootInv, UserProcess!Next, frames = <<>>, frames' # <<>>, NtProtect \in loaded, locked
               PROVE  (permits /\ Player \in loaded) \/ late
    BY DEF UserProcess!LockResists
  <2>1. UserProcess!EndSessionToMain \/ UserProcess!GetsQuit
    BY DEF UserProcess!Next, UserProcess!MainThread, UserProcess!Windows, UserProcess!WinMain, UserProcess!Lock,
       UserProcess!Unlock, UserProcess!PlayerSays, UserProcess!MenuOpens, UserProcess!MenuCloses,
       UserProcess!MenuTakesQuit, UserProcess!AwaitTakesQuit, UserProcess!SessionEnds,
       UserProcess!EndSessionToClient, UserProcess!Killed, UserProcess!Delete, UserProcess!Deleted,
       UserProcess!Deleting, UserProcess!TerminateAllReturns
  <2>2. CASE UserProcess!EndSessionToMain
    BY <2>2 DEF UserProcess!EndSessionToMain, UserProcess!TerminateVKernel_Allowed, UserProcess!Allowed
  <2>3. CASE UserProcess!GetsQuit
    BY <2>3 DEF UserProcess!GetsQuit, BootInv, GrantInv
  <2>4. QED
    BY <2>1, <2>2, <2>3
<1>2. QED
  BY <1>1, BootInvHolds, PTL DEF UserProcess!Spec

-----------------------------------------------------------------------------
(* WindowPoser.  Between reading the place of the window and moving it the    *)
(* user may have moved it too; the thread decides by what it has read.        *)

At == [left : Int, top : Int]

\* Coordinates are integers.
Coordinates ==
  /\ Work \in [left : Int, top : Int, right : Int, bottom : Int]
  /\ Sizes \subseteq [width : Int, height : Int] /\ Places \subseteq At

PoserTypes == window \in [at : At, size : Sizes, exempt : BOOLEAN] /\ wrc \in At /\ moves \in Nat

LEMMA PoserStep ==
  ASSUME Coordinates, PoserTypes, [Poser!Next]_Poser!poserVars PROVE PoserTypes'
<1> USE DEF PoserTypes
<1>1. window.at \in At /\ window.size \in [width : Int, height : Int]
  BY DEF Coordinates
<1>2. ASSUME NEW l \in Int, NEW t \in Int, Poser!SetWindowPos(l, t)
      PROVE  window' \in [at : At, size : Sizes, exempt : BOOLEAN]
  BY <1>2 DEF Poser!SetWindowPos, At
<1>3. CASE Poser!ChecksX
  <2>1. /\ Work.left \in Int /\ wrc.top \in Int /\ Work.right - window.size.width \in Int
    BY <1>1 DEF Coordinates, At
  <2>2. window' \in [at : At, size : Sizes, exempt : BOOLEAN]
    BY <1>2, <1>3, <2>1 DEF Poser!ChecksX
  <2>3. QED
    BY <1>3, <2>2 DEF Poser!ChecksX
<1>4. CASE Poser!ChecksY
  <2>1. /\ Work.top \in Int /\ wrc.left \in Int /\ Work.bottom - window.size.height \in Int
    BY <1>1 DEF Coordinates, At
  <2>2. window' \in [at : At, size : Sizes, exempt : BOOLEAN]
    BY <1>2, <1>4, <2>1 DEF Poser!ChecksY
  <2>3. QED
    BY <1>4, <2>2 DEF Poser!ChecksY
<1>5. CASE Poser!User
  <2>1. window' \in [at : Places, size : Sizes, exempt : BOOLEAN] /\ moves' \in Nat /\ UNCHANGED wrc
    BY <1>5 DEF Poser!User, Poser!Windows
  <2>2. QED
    BY <2>1 DEF Coordinates
<1>6. CASE Poser!Looks
  BY <1>1, <1>6 DEF Poser!Looks
<1>7. CASE UNCHANGED <<window, wrc, moves>>
  BY <1>7
<1>8. QED
  BY <1>3, <1>4, <1>5, <1>6, <1>7
  DEF Poser!Next, Poser!WorkerThread, Poser!SwitchOn, Poser!Terminate, Poser!AwaitShutdown, Poser!SetsTimer,
      Poser!GetsQuit, Poser!Ends, Poser!poserVars

\* The poser never touches a window that it has seen inside the work area; one that lies inside
\* is moved only if somebody has moved it since it was read (WorkerThread).
THEOREM InsideIsSpared ==
  ASSUME Coordinates PROVE Poser!Spec => [][Poser!SparesInside]_Poser!poserVars
<1>1. Poser!Init => PoserTypes
  BY DEF Poser!Init, Poser!Windows, PoserTypes, Coordinates
<1>2. PoserTypes /\ [Poser!Next]_Poser!poserVars => PoserTypes'
  BY PoserStep
<1>3. PoserTypes /\ [Poser!Next]_Poser!poserVars => [Poser!SparesInside]_Poser!poserVars
  <2> SUFFICES ASSUME PoserTypes, Poser!Next, window' # window, moves' = moves, Poser!Inside, window.at = wrc
               PROVE  FALSE
    BY DEF Poser!SparesInside
  <2>1. window.at \in At /\ window.size \in [width : Int, height : Int]
    BY DEF PoserTypes, Coordinates
  <2>2. CASE Poser!ChecksX
    BY <2>1, <2>2 DEF Poser!ChecksX, Poser!Inside, Poser!Right, Coordinates, At
  <2>3. CASE Poser!ChecksY
    BY <2>1, <2>3 DEF Poser!ChecksY, Poser!Inside, Poser!Bottom, Coordinates, At
  <2>4. CASE Poser!User
    BY <2>4 DEF Poser!User, PoserTypes
  <2>5. QED
    BY <2>2, <2>3, <2>4
    DEF Poser!Next, Poser!WorkerThread, Poser!SwitchOn, Poser!Terminate, Poser!AwaitShutdown, Poser!SetsTimer,
        Poser!Looks, Poser!GetsQuit, Poser!Ends
<1>4. QED
  BY <1>1, <1>2, <1>3, PTL DEF Poser!Spec

-----------------------------------------------------------------------------
(* Autoruns and Launcher.  The guard's memory is written by its dialogs; the  *)
(* launcher keeps a variable from entry to entry, which must not be taken for *)
(* an entry that cannot be read.                                              *)

\* The memory has a value for each entry and no others.
GuardTypes == DOMAIN guardfile = Guard!Entries /\ DOMAIN guarddisk = Guard!Entries

LEMMA GuardStep == ASSUME GuardTypes, [Guard!Next]_Guard!guardVars PROVE GuardTypes'
<1> USE DEF GuardTypes
<1>1. CASE Guard!Accept \/ Guard!Restore
  BY <1>1 DEF Guard!Accept, Guard!Restore, Guard!Answered, Guard!Guard_FlushINI
<1>2. CASE Guard!Editor
  <2>1. PICK c : Guard!EditorChanges(c)
    BY <1>2 DEF Guard!Editor, Guard!Write, Guard!Delreg, Guard!Rename
  <2>2. QED
    BY <2>1 DEF Guard!EditorChanges, Guard!Overlay, Guard!Guard_FlushINI
<1>3. CASE Guard!Restart
  BY <1>3 DEF Guard!Restart, Guard!NoEntries
<1>4. CASE UNCHANGED <<guardfile, guarddisk>>
  BY <1>4
<1>5. QED
  BY <1>1, <1>2, <1>3, <1>4
  DEF Guard!Next, Guard!Timer, Guard!User, Guard!Ticks, Guard!CheckEntry, Guard!CheckCached, Guard!NextLoop,
      Guard!OtherProgram, Guard!guardVars

\* Whatever other programs do while a question is open, the guard remembers only what its dialog
\* showed, the editor was told, or was on disk (CheckRegSection).
THEOREM GuardRemembersWhatItShowed == Guard!Spec => [][Guard!OnlyVouched]_Guard!guardVars
<1>1. Guard!Init => GuardTypes
  BY DEF Guard!Init, Guard!NoEntries, GuardTypes
<1>2. GuardTypes /\ [Guard!Next]_Guard!guardVars => GuardTypes'
  BY GuardStep
<1>3. GuardTypes /\ [Guard!Next]_Guard!guardVars => [Guard!OnlyVouched]_Guard!guardVars
  <2> SUFFICES ASSUME GuardTypes, Guard!Next, NEW n \in Guard!Entries, guardfile'[n] # guardfile[n],
                      ~Guard!Editor, ~Guard!Restart
               PROVE  asked.name = n /\ guardfile'[n] = asked.value
    BY DEF Guard!OnlyVouched
  <2>1. Guard!Accept
    BY DEF Guard!Next, Guard!Timer, Guard!User, Guard!Restore, Guard!Ticks, Guard!CheckEntry, Guard!CheckCached,
       Guard!NextLoop, Guard!OtherProgram
  <2>2. QED
    BY <2>1 DEF Guard!Accept, GuardTypes
<1>4. QED
  BY <1>1, <1>2, <1>3, PTL DEF Guard!Spec

\* The empty text has no minus, and none has two: without its minus it is not marked any more.
OneMinus == "" \notin Marked /\ \A m \in Marked : Plain[m] \notin Marked

\* The Run key has no two entries of the same name.
OwnNames ==
  /\ KeyNames \in Seq(Launch!Entries)
  /\ \A i, j \in 1 .. Len(KeyNames) : KeyNames[i] = KeyNames[j] => i = j

\* The enumeration, name by name (RegDir::Enum).
LEMMA Enumerates ==
  ASSUME KeyNames \in Seq(Launch!Entries)
  PROVE  \E a : /\ a[0] = <<>> /\ a[Len(KeyNames)] = Launch!Enumerated
                /\ \A j \in 1 .. Len(KeyNames) :
                     a[j] = IF launch_run[KeyNames[j]] = Launch!None THEN a[j - 1] ELSE Append(a[j - 1], KeyNames[j])
<1> DEFINE A == Seq(Launch!Entries)
           L == Launch!Entries
           T == [p \in A \X L |-> IF launch_run[p[2]] = Launch!None THEN p[1] ELSE Append(p[1], p[2])]
           D == DOMAIN KeyNames
           Is(f) == f = [s \in SUBSET D |-> IF s = {} THEN <<>>
                                            ELSE LET x == Max(s)
                                                 IN IF launch_run[KeyNames[x]] = Launch!None THEN f[s \ {x}]
                                                    ELSE Append(f[s \ {x}], KeyNames[x])]
           g == CHOOSE f : Is(f)
<1>1. Launch!Enumerated = g[D]
  BY DEF Launch!Enumerated, Launch!FoldLeft, Launch!MapThenFoldSet, Launch!Max, Max
<1>2. T \in [A \X L -> A] /\ <<>> \in A /\ KeyNames \in Seq(L)
  OBVIOUS
<1> HIDE DEF T, A, L
<1>3. (\E f \in [SUBSET D -> A] : FoldsBy(T, <<>>, KeyNames, D, f)) /\ TopsIn(L, KeyNames, D)
  BY <1>2, FoldExists
<1>4. \E f : Is(f)
  <2>1. PICK f \in [SUBSET D -> A] : FoldsBy(T, <<>>, KeyNames, D, f)
    BY <1>3
  <2>2. \A s \in SUBSET D : s # {} => f[s \ {Max(s)}] \in A /\ KeyNames[Max(s)] \in L
    BY <1>3, <2>1 DEF TopsIn
  <2>3. \A s \in SUBSET D : f[s] = IF s = {} THEN <<>> ELSE IF launch_run[KeyNames[Max(s)]] = Launch!None
                                   THEN f[s \ {Max(s)}] ELSE Append(f[s \ {Max(s)}], KeyNames[Max(s)])
    BY <2>1, <2>2 DEF FoldsBy, T
  <2>4. QED
    BY <2>3
<1>5. Is(g)
  BY <1>4
<1>6. D = 1 .. Len(KeyNames) /\ Len(KeyNames) \in Nat
  BY LenProperties
<1> HIDE DEF g
<1>7. PICK a : Climbs(g, a, Len(KeyNames))
  BY <1>6, FoldClimbs
<1>8. a[0] = <<>> /\ a[Len(KeyNames)] = Launch!Enumerated
  BY <1>1, <1>5, <1>6, <1>7 DEF Climbs
<1>9. ASSUME NEW j \in 1 .. Len(KeyNames)
      PROVE  a[j] = IF launch_run[KeyNames[j]] = Launch!None THEN a[j - 1] ELSE Append(a[j - 1], KeyNames[j])
  <2>1. 1 .. j \in SUBSET D /\ ClimbsTo(j, g, a)
    BY <1>6, <1>7 DEF Climbs
  <2>2. 1 .. j # {} /\ Max(1 .. j) = j /\ (1 .. j) \ {j} = 1 .. j - 1
    BY <2>1 DEF ClimbsTo
  <2>3. \A s \in SUBSET D : s # {} => g[s] = IF launch_run[KeyNames[Max(s)]] = Launch!None THEN g[s \ {Max(s)}]
                                           ELSE Append(g[s \ {Max(s)}], KeyNames[Max(s)])
    BY <1>5
  <2>4. g[1 .. j] = IF launch_run[KeyNames[j]] = Launch!None THEN g[1 .. j - 1] ELSE Append(g[1 .. j - 1], KeyNames[j])
    BY <2>1, <2>2, <2>3
  <2>5. QED
    BY <2>1, <2>4 DEF ClimbsTo
<1>10. QED
  BY <1>8, <1>9

\* It has each entry once.
LEMMA EnumeratesOnce ==
  ASSUME OwnNames
  PROVE  /\ Launch!Enumerated \in Seq(Launch!Entries)
         /\ \A i, j \in 1 .. Len(Launch!Enumerated) : Launch!Enumerated[i] = Launch!Enumerated[j] => i = j
<1> DEFINE Once(names, k) ==
             /\ names \in Seq(Launch!Entries)
             /\ \A i \in 1 .. Len(names) : \E m \in 1 .. k : names[i] = KeyNames[m]
             /\ \A i, j \in 1 .. Len(names) : names[i] = names[j] => i = j
<1>1. PICK a : /\ a[0] = <<>> /\ a[Len(KeyNames)] = Launch!Enumerated
               /\ \A j \in 1 .. Len(KeyNames) :
                    a[j] = IF launch_run[KeyNames[j]] = Launch!None THEN a[j - 1] ELSE Append(a[j - 1], KeyNames[j])
  BY Enumerates DEF OwnNames
<1> DEFINE P == {k \in 0 .. Len(KeyNames) : Once(a[k], k)}
<1>2. Len(KeyNames) \in Nat /\ \A j \in 1 .. Len(KeyNames) : KeyNames[j] \in Launch!Entries
  BY LenProperties, ElementOfSeq DEF OwnNames
<1>3. Once(a[0], 0)
  <2>1. a[0] = <<>> /\ <<>> \in Seq(Launch!Entries)
    BY <1>1
  <2>2. Len(<<>>) = 0 /\ 1 .. 0 = {}
    OBVIOUS
  <2>3. 1 .. Len(a[0]) = {}
    BY ONLY <2>1, <2>2
  <2>4. QED
    BY <2>1, <2>3
<1>4. ASSUME NEW j \in 1 .. Len(KeyNames), Once(a[j - 1], j - 1) PROVE Once(a[j], j)
  <2>1. PICK old : old = a[j - 1]
    OBVIOUS
  <2>2. Once(old, j - 1)
    BY <1>4, <2>1
  <2>3. CASE a[j] = old
    <3>1. 1 .. j - 1 \subseteq 1 .. j
      BY <1>2
    <3>2. QED
      BY <2>2, <2>3, <3>1
  <2>4. CASE a[j] = Append(old, KeyNames[j])
    <3>1. PICK new : new = Append(old, KeyNames[j])
      OBVIOUS
    <3>2. /\ new \in Seq(Launch!Entries) /\ Len(new) = Len(old) + 1 /\ Len(old) \in Nat
          /\ \A i \in 1 .. Len(old) : new[i] = old[i]
          /\ new[Len(old) + 1] = KeyNames[j]
      BY <1>2, <2>2, <3>1, Appended
    <3>3. \A i \in 1 .. Len(old) : \E m \in 1 .. j - 1 : new[i] = KeyNames[m]
      BY <2>2, <3>2
    <3>4. \A i \in 1 .. Len(old) : new[i] # KeyNames[j]
      BY <1>2, <3>3 DEF OwnNames
    <3>5. \A i \in 1 .. Len(new) : i \in 1 .. Len(old) \/ i = Len(old) + 1
      BY <3>2
    <3>6. \A i \in 1 .. Len(new) : \E m \in 1 .. j : new[i] = KeyNames[m]
      BY <1>2, <3>2, <3>3, <3>5
    <3>7. \A i, k \in 1 .. Len(new) : new[i] = new[k] => i = k
      BY <2>2, <3>2, <3>4, <3>5
    <3>8. QED
      BY <2>4, <3>1, <3>2, <3>6, <3>7
  <2>5. QED
    BY <1>1, <2>1, <2>3, <2>4
<1> HIDE DEF Once
<1>5. 0 \in P /\ \A j \in 1 .. Len(KeyNames) : j - 1 \in P => j \in P
  BY <1>2, <1>3, <1>4
<1> HIDE DEF P
<1>6. 0 .. Len(KeyNames) \subseteq P
  BY <1>2, <1>5, UpTo
<1>7. Len(KeyNames) \in P
  BY <1>2, <1>6
<1>8. Once(Launch!Enumerated, Len(KeyNames))
  BY <1>1, <1>7 DEF P
<1>9. QED
  BY <1>8 DEF Once

Starts == Launch!Entries \X {Plain[m] : m \in Marked}

\* What is still to be looked at has not been started; the variable has no marked text.
LaunchInv ==
  /\ call \notin Marked
  /\ started \in Seq(Starts) /\ left \in Seq(Launch!Entries)
  /\ \A i, j \in 1 .. Len(left) : left[i] = left[j] => i = j
  /\ \A i \in 1 .. Len(started), j \in 1 .. Len(left) : started[i][1] # left[j]
  /\ launch_worker \in {"start", "idle", "sleeping"} => started = <<>>
  /\ launch_worker = "asking" => left # <<>>

\* The first of those left is taken.
LEMMA LeftTaken ==
  ASSUME LaunchInv, left # <<>>
  PROVE  /\ Head(left) \in Launch!Entries /\ Tail(left) \in Seq(Launch!Entries)
         /\ \A i, j \in 1 .. Len(Tail(left)) : Tail(left)[i] = Tail(left)[j] => i = j
         /\ \A i \in 1 .. Len(started), j \in 1 .. Len(Tail(left)) : started[i][1] # Tail(left)[j]
         /\ \A i \in 1 .. Len(started) : started[i][1] # Head(left)
         /\ \A j \in 1 .. Len(Tail(left)) : Head(left) # Tail(left)[j]
<1>1. /\ Tail(left) \in Seq(Launch!Entries) /\ Head(left) \in Launch!Entries /\ Head(left) = left[1]
      /\ Len(left) \in Nat /\ Len(left) >= 1 /\ Len(Tail(left)) = Len(left) - 1
      /\ \A i \in 1 .. Len(left) - 1 : Tail(left)[i] = left[i + 1]
  BY Taken DEF LaunchInv
<1>2. \A j \in 1 .. Len(Tail(left)) : j + 1 \in 1 .. Len(left) /\ Tail(left)[j] = left[j + 1] /\ j + 1 # 1
  BY <1>1
<1>3. 1 \in 1 .. Len(left)
  BY <1>1
<1>4. ASSUME NEW i \in 1 .. Len(Tail(left)), NEW j \in 1 .. Len(Tail(left)), Tail(left)[i] = Tail(left)[j]
      PROVE  i = j
  <2>1. i + 1 = j + 1
    BY <1>2, <1>4 DEF LaunchInv
  <2>2. QED
    BY <1>1, <2>1
<1>5. \A i \in 1 .. Len(started), j \in 1 .. Len(Tail(left)) : started[i][1] # Tail(left)[j]
  BY <1>2 DEF LaunchInv
<1>6. \A i \in 1 .. Len(started) : started[i][1] # Head(left)
  BY <1>1, <1>3 DEF LaunchInv
<1>7. \A j \in 1 .. Len(Tail(left)) : Head(left) # Tail(left)[j]
  BY <1>1, <1>2, <1>3 DEF LaunchInv
<1>8. QED
  BY <1>1, <1>4, <1>5, <1>6, <1>7

\* What LaunchPrograms starts is marked, and was not started before.
LEMMA LaunchStarts ==
  ASSUME LaunchInv, Launch!LaunchPrograms, started' # started
  PROVE  LET n == Head(left)
         IN /\ launch_run[n] \in Marked /\ started' = Append(started, <<n, Plain[launch_run[n]]>>)
            /\ left # <<>> /\ left' = Tail(left) /\ launch_worker = "working" /\ launch_worker' = "working"
            /\ call' = Plain[launch_run[n]]
<1>1. Launch!regRead(Head(left)) \in Marked => Launch!regRead(Head(left)) = launch_run[Head(left)]
  BY DEF Launch!regRead, LaunchInv
<1>2. QED
  BY <1>1 DEF Launch!LaunchPrograms

LEMMA LaunchStep ==
  ASSUME OneMinus, OwnNames, LaunchInv, [Launch!Next]_Launch!launcherVars
  PROVE  LaunchInv'
<1>1. CASE Launch!LaunchPrograms
  <2>1. /\ left # <<>> /\ launch_worker = "working" /\ launch_worker' \in {"working", "asking"}
        /\ launch_worker' = "asking" => left' = left
    BY <1>1 DEF Launch!LaunchPrograms
  <2>2. call' \notin Marked
    BY <1>1 DEF Launch!LaunchPrograms, OneMinus
  <2>3. CASE started' # started
    <3> DEFINE n == Head(left)
               new == <<n, Plain[launch_run[n]]>>
    <3>1. launch_run[n] \in Marked /\ started' = Append(started, new) /\ left' = Tail(left)
      BY <1>1, <2>3, LaunchStarts
    <3>2. /\ n \in Launch!Entries /\ Tail(left) \in Seq(Launch!Entries)
          /\ \A i, j \in 1 .. Len(Tail(left)) : Tail(left)[i] = Tail(left)[j] => i = j
          /\ \A i \in 1 .. Len(started), j \in 1 .. Len(Tail(left)) : started[i][1] # Tail(left)[j]
          /\ \A j \in 1 .. Len(Tail(left)) : n # Tail(left)[j]
      BY <2>1, LeftTaken
    <3>3. new \in Starts /\ new[1] = n
      BY <3>1, <3>2 DEF Starts
    <3> HIDE DEF n, new
    <3>4. /\ started' \in Seq(Starts) /\ Len(started') = Len(started) + 1 /\ Len(started) \in Nat
          /\ \A i \in 1 .. Len(started) : started'[i] = started[i]
          /\ started'[Len(started) + 1] = new
      BY <3>1, <3>3, Appended DEF LaunchInv
    <3>5. \A i \in 1 .. Len(started'), j \in 1 .. Len(left') : started'[i][1] # left'[j]
      BY <3>1, <3>2, <3>3, <3>4
    <3>6. QED
      BY <1>1, <2>1, <2>2, <2>3, <3>1, <3>2, <3>4, <3>5, LaunchStarts DEF LaunchInv
  <2>4. CASE started' = started
    <3>1. left' \in {left, Tail(left)}
      BY <1>1 DEF Launch!LaunchPrograms
    <3>2. CASE left' = left
      BY <2>1, <2>2, <2>4, <3>2 DEF LaunchInv
    <3>3. CASE left' = Tail(left) /\ left' # left
      BY <2>1, <2>2, <2>4, <3>3, LeftTaken DEF LaunchInv
    <3>4. QED
      BY <3>1, <3>2, <3>3
  <2>5. QED
    BY <2>3, <2>4
<1>2. CASE Launch!Awakes
  <2>1. started' = <<>> /\ call' = "" /\ launch_worker' = "working" /\ started' = started
    BY <1>2 DEF Launch!Awakes, LaunchInv
  <2>2. left' = Launch!Enumerated
    BY <1>2 DEF Launch!Awakes
  <2>3. left' \in Seq(Launch!Entries) /\ \A i, j \in 1 .. Len(left') : left'[i] = left'[j] => i = j
    BY <2>2, EnumeratesOnce
  <2>4. 1 .. Len(started') = {}
    <3>1. Len(<<>>) = 0 /\ 1 .. 0 = {}
      BY EmptySeq
    <3>2. Len(started') = Len(<<>>)
      BY <2>1
    <3>3. QED
      BY ONLY <3>1, <3>2
  <2>5. QED
    BY <2>1, <2>3, <2>4 DEF LaunchInv, OneMinus
<1>3. CASE Launch!Answers
  <2>1. /\ launch_worker' = "working" /\ UNCHANGED <<call, started>>
        /\ left' = Tail(left)
    BY <1>3 DEF Launch!Answers
  <2>2. left # <<>>
    BY <1>3 DEF Launch!Answers, LaunchInv
  <2>3. QED
    BY <2>1, <2>2, LeftTaken DEF LaunchInv
<1>4. CASE Launch!ExternExecute \/ Launch!Completed
  BY <1>4 DEF Launch!ExternExecute, Launch!Completed, LaunchInv
<1>5. CASE UNCHANGED <<launch_worker, left, call, started>>
  BY <1>5 DEF LaunchInv
<1>6. QED
  BY <1>1, <1>2, <1>3, <1>4, <1>5 DEF Launch!Next, Launch!Thread, Launch!Others, Launch!launcherVars

\* Each start is that of a marked entry with the text it has at that moment, even after entries
\* that cannot be read or have vanished, and no entry is started twice (Launcher_LaunchPrograms).
THEOREM StartsAreMarked ==
  ASSUME OneMinus, OwnNames
  PROVE  Launch!Spec => [][Launch!StartsMarkedOnce]_Launch!launcherVars
<1>1. Launch!Init => LaunchInv
  <2> SUFFICES ASSUME Launch!Init PROVE LaunchInv
    OBVIOUS
  <2>1. left = <<>> /\ started = <<>> /\ call = "" /\ launch_worker \in {"start", "idle"}
    BY DEF Launch!Init
  <2>2. <<>> \in Seq(Launch!Entries) /\ <<>> \in Seq(Starts) /\ Len(<<>>) = 0
    BY EmptySeq
  <2>3. 1 .. Len(left) = {}
    <3>1. Len(left) = Len(<<>>)
      BY <2>1
    <3>2. 1 .. 0 = {}
      OBVIOUS
    <3>3. QED
      BY ONLY <2>2, <3>1, <3>2
  <2>4. QED
    BY <2>1, <2>2, <2>3 DEF LaunchInv, OneMinus
<1>2. LaunchInv /\ [Launch!Next]_Launch!launcherVars => LaunchInv'
  BY LaunchStep
<1>3. LaunchInv /\ [Launch!Next]_Launch!launcherVars => [Launch!StartsMarkedOnce]_Launch!launcherVars
  <2> SUFFICES ASSUME LaunchInv, Launch!Next, started' # started
               PROVE  LET new == started'[Len(started')]
                      IN /\ launch_run[new[1]] \in Marked /\ new[2] = Plain[launch_run[new[1]]]
                         /\ Launch!Started(new[1]) = {}
    BY DEF Launch!StartsMarkedOnce
  <2> DEFINE n == Head(left)
             new == <<n, Plain[launch_run[n]]>>
  <2>1. Launch!LaunchPrograms
    BY DEF Launch!Next, Launch!Thread, Launch!ExternExecute, Launch!Awakes, Launch!Answers, Launch!Completed,
       Launch!Others
  <2>2. launch_run[n] \in Marked /\ started' = Append(started, new) /\ left # <<>>
    BY <2>1, LaunchStarts
  <2>3. n \in Launch!Entries /\ \A i \in 1 .. Len(started) : started[i][1] # n
    BY <2>2, LeftTaken
  <2>4. new \in Starts
    BY <2>2, <2>3 DEF Starts
  <2>5. started'[Len(started')] = new
    <3> HIDE DEF new
    <3>1. started \in Seq(Starts)
      BY DEF LaunchInv
    <3>2. QED
      BY <2>2, <2>4, <3>1, Appended
  <2>6. DOMAIN started = 1 .. Len(started)
    BY LenProperties DEF LaunchInv
  <2>7. Launch!Started(n) = {}
    BY <2>3, <2>6 DEF Launch!Started
  <2>8. QED
    BY <2>2, <2>5, <2>7
<1>4. QED
  BY <1>1, <1>2, <1>3, PTL DEF Launch!Spec

-----------------------------------------------------------------------------
(* ProcView.  Each item of the tree and of the menu names its process as it    *)
(* was when they were made: the process with its number is that one, or none,  *)
(* or has been given the number since.                                         *)

\* The windows are finitely many, and the classes of the menu begin one after the other.
ViewAssumption ==
  /\ LastPid \in Nat /\ IsFiniteSet(Hwnds)
  /\ {StartKernel, StartSystem, StartOther} \subseteq Int /\ StartKernel < StartSystem /\ StartSystem < StartOther

Item == [hwnd : Hwnds \cup {View!NoWindow}, procid : View!Pids, name : Exes \cup {View!None}]
Current == {x \in Item : x.name = procs[x.procid]}
Alive == {p \in View!Pids : procs[p] # View!None}

LEMMA RunningTyped ==
  ASSUME ViewAssumption PROVE View!Running \in Seq(Alive)
<1> DEFINE A == Seq(Alive)
           L == View!Pids
           q == [i \in View!Pids |-> i]
           T == [p \in A \X L |-> IF procs[p[2]] = View!None THEN p[1] ELSE Append(p[1], p[2])]
           D == DOMAIN q
           Is(f) == f = [s \in SUBSET D |-> IF s = {} THEN <<>>
                                            ELSE LET x == Max(s)
                                                 IN IF procs[q[x]] = View!None THEN f[s \ {x}]
                                                    ELSE Append(f[s \ {x}], q[x])]
           g == CHOOSE f : Is(f)
<1>1. View!Running = g[D]
  BY DEF View!Running, View!FoldLeft, View!MapThenFoldSet, View!Max, Max
<1>2. T \in [A \X L -> A] /\ <<>> \in A
  <2>1. ASSUME NEW list \in A, NEW p \in L PROVE (IF procs[p] = View!None THEN list ELSE Append(list, p)) \in A
    BY DEF Alive
  <2>2. QED
    BY <2>1
<1>3. q \in Seq(L)
  BY DEF ViewAssumption, View!Pids
<1> HIDE DEF T, A, L, q
<1>4. (\E f \in [SUBSET D -> A] : FoldsBy(T, <<>>, q, D, f)) /\ TopsIn(L, q, D)
  BY <1>2, <1>3, FoldExists
<1>5. ASSUME NEW list \in A, NEW p \in L
      PROVE  /\ T[<<list, p>>] = IF procs[p] = View!None THEN list ELSE Append(list, p)
             /\ T[<<list, p>>] \in A
  BY <1>2 DEF T
<1>6. \E f : Is(f)
  <2>1. PICK f \in [SUBSET D -> A] : FoldsBy(T, <<>>, q, D, f)
    BY <1>4
  <2>2. \A s \in SUBSET D : s # {} => f[s \ {Max(s)}] \in A /\ q[Max(s)] \in L
    BY <1>4, <2>1 DEF TopsIn
  <2>3. \A s \in SUBSET D : f[s] = IF s = {} THEN <<>> ELSE IF procs[q[Max(s)]] = View!None
                                   THEN f[s \ {Max(s)}] ELSE Append(f[s \ {Max(s)}], q[Max(s)])
    BY <1>5, <2>1, <2>2 DEF FoldsBy
  <2>4. QED
    BY <2>3
<1>7. Is(g)
  BY <1>6
<1> HIDE DEF g
<1>8. g[{}] \in A
  BY <1>2, <1>7
<1>9. ASSUME NEW s \in SUBSET D, s # {}, g[s \ {Max(s)}] \in A PROVE g[s] \in A
  <2>1. q[Max(s)] \in L
    BY <1>4, <1>9 DEF TopsIn
  <2>2. g[s] = T[<<g[s \ {Max(s)}], q[Max(s)]>>]
    BY <1>5, <1>7, <1>9, <2>1
  <2>3. QED
    BY <1>5, <1>9, <2>1, <2>2
<1>10. g[D] \in A
  BY <1>3, <1>8, <1>9, FoldStays
<1>11. QED
  BY <1>1, <1>10 DEF A

LEMMA BranchTyped ==
  ASSUME ViewAssumption, procs \in [View!Pids -> Exes \cup {View!None}], NEW p \in View!Pids
  PROVE  View!Branch(p) \in Seq(Current)
<1>1. View!WindowsOf(p) \in Seq(Hwnds)
  <2> DEFINE S == {h \in Hwnds : windows[h] = p}
  <2>1. S \in SUBSET Hwnds /\ IsFiniteSet(S)
    BY FS_Subset DEF ViewAssumption
  <2>2. View!WindowsOf(p) = SetToSeq(S)
    BY DEF View!WindowsOf, View!SetToSeq, SetToSeq, View!IsInjective, IsInjective, View!Cardinality, Cardinality
  <2> HIDE DEF S
  <2>3. SetToSeq(S) \in Seq(S)
    BY <2>1, SeqOfSet
  <2>4. QED
    BY <2>1, <2>2, <2>3, SeqMonotonic
<1> DEFINE W == View!WindowsOf(p)
           x == [hwnd |-> View!NoWindow, procid |-> p, name |-> procs[p]]
           y == [i \in DOMAIN W |-> [hwnd |-> W[i], procid |-> p, name |-> procs[p]]]
<1>2. View!Branch(p) = <<x>> \o y
  BY DEF View!Branch
<1>3. <<x>> \in Seq(Current)
  BY DEF Current, Item
<1>4. y \in Seq(Current)
  <2> HIDE DEF W
  <2>1. DOMAIN W = 1 .. Len(W) /\ Len(W) \in Nat /\ \A i \in 1 .. Len(W) : W[i] \in Hwnds
    BY <1>1, LenProperties, ElementOfSeq DEF W
  <2>2. \A i \in DOMAIN W : y[i] \in Current
    BY <2>1 DEF Current, Item
  <2> HIDE DEF y
  <2>3. y \in [1 .. Len(W) -> Current]
    BY <2>1, <2>2 DEF y
  <2>4. QED
    BY <2>1, <2>3
<1> HIDE DEF x, y
<1>5. QED
  BY <1>2, <1>3, <1>4, ConcatProperties

LEMMA NewTreeTyped ==
  ASSUME ViewAssumption, procs \in [View!Pids -> Exes \cup {View!None}]
  PROVE  View!NewTree \in Seq(Current)
<1> DEFINE A == Seq(Current)
           L == View!Pids
           q == View!Reverse(View!Running)
           T == [p \in A \X L |-> p[1] \o View!Branch(p[2])]
           D == DOMAIN q
           Is(f) == f = [s \in SUBSET D |-> IF s = {} THEN <<>>
                                            ELSE LET x == Max(s) IN f[s \ {x}] \o View!Branch(q[x])]
           g == CHOOSE f : Is(f)
<1>1. View!NewTree = g[D]
  BY DEF View!NewTree, View!FoldLeft, View!MapThenFoldSet, View!Max, Max
<1>2. T \in [A \X L -> A] /\ <<>> \in A
  <2>1. ASSUME NEW t \in A, NEW p \in L PROVE t \o View!Branch(p) \in A
    BY BranchTyped, ConcatProperties
  <2>2. QED
    BY <2>1
<1>3. q \in Seq(L)
  <2> DEFINE r == View!Running
  <2>1. r \in Seq(L)
    BY RunningTyped, SeqMonotonic DEF Alive
  <2> HIDE DEF r
  <2>2. Len(r) \in Nat /\ \A i \in 1 .. Len(r) : r[i] \in L
    BY <2>1, LenProperties, ElementOfSeq
  <2>3. q = [i \in 1 .. Len(r) |-> r[(Len(r) - i) + 1]]
    BY DEF View!Reverse, r
  <2>4. \A i \in 1 .. Len(r) : r[(Len(r) - i) + 1] \in L
    BY <2>2
  <2>5. q \in [1 .. Len(r) -> L]
    BY <2>3, <2>4
  <2>6. QED
    BY <2>2, <2>5
<1> HIDE DEF T, A, L, q
<1>4. (\E f \in [SUBSET D -> A] : FoldsBy(T, <<>>, q, D, f)) /\ TopsIn(L, q, D)
  BY <1>2, <1>3, FoldExists
<1>5. ASSUME NEW t \in A, NEW p \in L
      PROVE  T[<<t, p>>] = t \o View!Branch(p) /\ T[<<t, p>>] \in A
  BY <1>2 DEF T
<1>6. \E f : Is(f)
  <2>1. PICK f \in [SUBSET D -> A] : FoldsBy(T, <<>>, q, D, f)
    BY <1>4
  <2>2. \A s \in SUBSET D : s # {} => f[s \ {Max(s)}] \in A /\ q[Max(s)] \in L
    BY <1>4, <2>1 DEF TopsIn
  <2>3. \A s \in SUBSET D : f[s] = IF s = {} THEN <<>> ELSE f[s \ {Max(s)}] \o View!Branch(q[Max(s)])
    BY <1>5, <2>1, <2>2 DEF FoldsBy
  <2>4. QED
    BY <2>3
<1>7. Is(g)
  BY <1>6
<1> HIDE DEF g
<1>8. g[{}] \in A
  BY <1>2, <1>7
<1>9. ASSUME NEW s \in SUBSET D, s # {}, g[s \ {Max(s)}] \in A PROVE g[s] \in A
  <2>1. q[Max(s)] \in L
    BY <1>4, <1>9 DEF TopsIn
  <2>2. g[s] = T[<<g[s \ {Max(s)}], q[Max(s)]>>]
    BY <1>5, <1>7, <1>9, <2>1
  <2>3. QED
    BY <1>5, <1>9, <2>1, <2>2
<1>10. g[D] \in A
  BY <1>3, <1>8, <1>9, FoldStays
<1>11. QED
  BY <1>1, <1>10 DEF A

\* A menu of current items, its classes filled up to next, each by its own as long as it has room.
Rooms(d, next) ==
  /\ d \in SUBSET Int /\ next \in [{"kernel", "system", "other"} -> Int]
  /\ next["kernel"] > StartKernel /\ next["system"] > StartSystem /\ next["other"] > StartOther
  /\ (StartKernel + 1) .. (next["kernel"] - 1) \subseteq d
  /\ (StartSystem + 1) .. (next["system"] - 1) \subseteq d
Filling(entries, next) ==
  /\ Rooms(DOMAIN entries, next)
  /\ \A i \in DOMAIN entries : entries[i] \in Current
  /\ next["kernel"] <= StartSystem /\ next["system"] <= StartOther =>
       \A i \in DOMAIN entries : View!Asked(i) = View!Class(entries[i].name)
Menus == UNION {[d -> Current] : d \in SUBSET Int}
Fillings == {a \in [entries : Menus, next : [{"kernel", "system", "other"} -> Int]] : Filling(a.entries, a.next)}

LEMMA AddedTyped ==
  ASSUME ViewAssumption, procs \in [View!Pids -> Exes \cup {View!None}], NEW p \in View!Pids, NEW acc \in Fillings
  PROVE  View!Added(acc, p) \in Fillings
<1> DEFINE c == View!Class(procs[p])
           x == [procid |-> p, name |-> procs[p], hwnd |-> View!NoWindow]
           e == View!Put(acc.entries, acc.next[c], x)
           n == [acc.next EXCEPT ![c] = @ + 1]
<1>1. View!Added(acc, p) = IF procs[p] \in Hidden THEN acc ELSE [entries |-> e, next |-> n]
  BY DEF View!Added
<1>2. x \in Current /\ x.name = procs[p]
  BY DEF Current, Item
<1>3. c \in {"kernel", "system", "other"} /\ c = View!Class(procs[p])
  BY DEF View!Class
<1> HIDE DEF c, x
<1>4. /\ acc.next \in [{"kernel", "system", "other"} -> Int] /\ Filling(acc.entries, acc.next)
      /\ acc.entries \in Menus
  BY DEF Fillings
<1>5. PICK k \in Int : k = acc.next[c]
  BY <1>3, <1>4
<1>6. DOMAIN e = DOMAIN acc.entries \cup {k} /\ e[k] = x /\ \A i \in DOMAIN acc.entries : i # k => e[i] = acc.entries[i]
  BY <1>5 DEF View!Put
<1>7. e \in Menus
  <2>1. PICK d \in SUBSET Int : acc.entries \in [d -> Current]
    BY <1>4 DEF Menus
  <2>2. e = [i \in d \cup {k} |-> IF i = k THEN x ELSE acc.entries[i]]
    BY <1>5, <2>1 DEF View!Put
  <2>3. \A i \in d \cup {k} : (IF i = k THEN x ELSE acc.entries[i]) \in Current
    BY <1>2, <2>1
  <2>4. e \in [d \cup {k} -> Current] /\ d \cup {k} \in SUBSET Int
    BY <2>2, <2>3
  <2> HIDE DEF e
  <2>5. QED
    BY <2>4 DEF Menus
<1> HIDE DEF e
<1>8. /\ n \in [{"kernel", "system", "other"} -> Int] /\ n[c] = k + 1
      /\ \A b \in {"kernel", "system", "other"} : b # c => n[b] = acc.next[b]
  BY <1>3, <1>4, <1>5
<1> HIDE DEF n
<1>9. Rooms(DOMAIN e, n)
  BY <1>3, <1>4, <1>5, <1>6, <1>8 DEF Rooms, Filling, ViewAssumption
<1>10. ASSUME NEW i \in DOMAIN e PROVE e[i] \in Current
  BY <1>2, <1>4, <1>6 DEF Filling
<1>11. ASSUME n["kernel"] <= StartSystem, n["system"] <= StartOther, NEW i \in DOMAIN e
       PROVE  View!Asked(i) = View!Class(e[i].name)
  <2>1. acc.next["kernel"] <= StartSystem /\ acc.next["system"] <= StartOther
    BY <1>3, <1>4, <1>5, <1>8, <1>11 DEF ViewAssumption
  <2>2. CASE i = k
    <3>1. e[i].name = procs[p]
      BY <1>2, <1>6, <2>2
    <3>2. View!Asked(k) = c
      BY <1>3, <1>4, <1>5, <1>8, <1>11 DEF View!Asked, Filling, Rooms, ViewAssumption
    <3>3. QED
      BY <1>3, <2>2, <3>1, <3>2
  <2>3. CASE i # k
    BY <1>4, <1>6, <2>1, <2>3 DEF Filling
  <2>4. QED
    BY <2>2, <2>3
<1>12. Filling(e, n)
  BY <1>9, <1>10, <1>11 DEF Filling
<1>13. [entries |-> e, next |-> n] \in Fillings
  BY <1>7, <1>8, <1>12 DEF Fillings
<1>14. QED
  BY <1>1, <1>13

LEMMA FilledTyped ==
  ASSUME ViewAssumption, procs \in [View!Pids -> Exes \cup {View!None}]
  PROVE  \E next : Filling(View!Filled, next)
<1> DEFINE A == Fillings
           L == View!Pids
           q == View!Running
           b == [entries |-> View!NoMenu, next |-> View!NextIndex]
           T == [p \in A \X L |-> View!Added(p[1], p[2])]
           D == DOMAIN q
           Is(f) == f = [s \in SUBSET D |-> IF s = {} THEN b ELSE LET x == Max(s) IN View!Added(f[s \ {x}], q[x])]
           g == CHOOSE f : Is(f)
<1>1. View!Filled = g[D].entries
  BY DEF View!Filled, View!FoldLeft, View!MapThenFoldSet, View!Max, Max
<1>2. b \in A
  <2> DEFINE m == View!NoMenu
             n == View!NextIndex
  <2>1. DOMAIN m = {} /\ m \in [{} -> Current]
    BY DEF View!NoMenu
  <2>2. /\ n \in [{"kernel", "system", "other"} -> Int]
        /\ n["kernel"] = StartKernel + 1 /\ n["system"] = StartSystem + 1 /\ n["other"] = StartOther + 1
    BY DEF View!NextIndex, ViewAssumption
  <2> HIDE DEF m, n
  <2>3. m \in Menus
    BY <2>1 DEF Menus
  <2>4. (StartKernel + 1) .. (StartKernel + 1 - 1) = {} /\ (StartSystem + 1) .. (StartSystem + 1 - 1) = {}
    BY DEF ViewAssumption
  <2>5. Filling(m, n)
    BY <2>1, <2>2, <2>4 DEF Filling, Rooms, ViewAssumption
  <2>6. [entries |-> m, next |-> n] \in Fillings
    BY <2>2, <2>3, <2>5 DEF Fillings
  <2>7. QED
    BY <2>6 DEF m, n
<1>3. T \in [A \X L -> A]
  <2>1. ASSUME NEW a \in A, NEW p \in L PROVE View!Added(a, p) \in A
    BY AddedTyped
  <2> HIDE DEF A, L
  <2>2. QED
    BY <2>1
<1>4. q \in Seq(L)
  BY RunningTyped, SeqMonotonic DEF Alive
<1> HIDE DEF T, A, L, q, b
<1>5. (\E f \in [SUBSET D -> A] : FoldsBy(T, b, q, D, f)) /\ TopsIn(L, q, D)
  BY <1>2, <1>3, <1>4, FoldExists
<1>6. ASSUME NEW a \in A, NEW p \in L
      PROVE  T[<<a, p>>] = View!Added(a, p) /\ T[<<a, p>>] \in A
  BY <1>3 DEF T
<1>7. \E f : Is(f)
  <2>1. PICK f \in [SUBSET D -> A] : FoldsBy(T, b, q, D, f)
    BY <1>5
  <2>2. \A s \in SUBSET D : s # {} => f[s \ {Max(s)}] \in A /\ q[Max(s)] \in L
    BY <1>5, <2>1 DEF TopsIn
  <2>3. \A s \in SUBSET D : f[s] = IF s = {} THEN b ELSE View!Added(f[s \ {Max(s)}], q[Max(s)])
    BY <1>6, <2>1, <2>2 DEF FoldsBy
  <2>4. QED
    BY <2>3
<1>8. Is(g)
  BY <1>7
<1> HIDE DEF g
<1>9. g[{}] \in A
  BY <1>2, <1>8
<1>10. ASSUME NEW s \in SUBSET D, s # {}, g[s \ {Max(s)}] \in A PROVE g[s] \in A
  <2>1. q[Max(s)] \in L
    BY <1>5, <1>10 DEF TopsIn
  <2>2. g[s] = T[<<g[s \ {Max(s)}], q[Max(s)]>>]
    BY <1>6, <1>8, <1>10, <2>1
  <2>3. QED
    BY <1>6, <1>10, <2>1, <2>2
<1>11. g[D] \in A
  BY <1>4, <1>9, <1>10, FoldStays
<1>12. QED
  BY <1>1, <1>11 DEF A, Fillings

\* The process with the number of x is the one that x names, or none, or new.
Fits(x, news) == procs[x.procid] \in {x.name, View!None} \/ x.procid \in news

Kinds == {"none", "terminate", "close", "kernel", "system", "other"}
Questions == [kind : Kinds, procid : Nat, hwnd : Hwnds \cup {View!NoWindow}, name : Exes \cup {View!None}, reused : BOOLEAN]

ViewInv ==
  /\ procs \in [View!Pids -> Exes \cup {View!None}]
  /\ fresh \in [tree : SUBSET View!Pids, menu : SUBSET View!Pids]
  /\ tree \in Seq(Item) /\ sel \in {0} \cup DOMAIN tree
  /\ \A i \in DOMAIN tree : Fits(tree[i], fresh.tree)
  /\ \A hv \in DOMAIN menu : menu[hv] \in Item /\ Fits(menu[hv], fresh.menu)
  /\ View!WarnsRightly
  /\ question \in Questions
  /\ question.procid \in View!Pids => procs[question.procid] \in {question.name, View!None} \/ question.reused
  /\ events \in Int

\* What has been made of current items fits.
LEMMA CurrentFits == ASSUME NEW x \in Current, NEW news PROVE x \in Item /\ Fits(x, news)
  BY DEF Current, Fits

\* An item still fits when processes end, or start and are noted as new.
LEMMA StillFits ==
  ASSUME NEW x \in Item, NEW a, NEW b, Fits(x, a), a \subseteq b,
         \A p \in View!Pids : procs'[p] \in {procs[p], View!None} \/ p \in b
  PROVE  procs'[x.procid] \in {x.name, View!None} \/ x.procid \in b
  BY DEF Fits, Item

\* A question about an item that fits.
LEMMA AboutTyped ==
  ASSUME ViewAssumption, NEW kind \in Kinds, NEW x \in Item, NEW news, Fits(x, news)
  PROVE  LET q == View!About(kind, x, news)
         IN /\ q \in Questions /\ q.procid \in View!Pids
            /\ procs[q.procid] \in {q.name, View!None} \/ q.reused
<1> DEFINE Q(r) == [kind |-> kind, procid |-> x.procid, hwnd |-> x.hwnd, name |-> x.name, reused |-> r]
<1>1. View!About(kind, x, news) = Q(x.procid \in news)
  BY DEF View!About
<1>2. CASE x.procid \in news
  <2>1. View!About(kind, x, news) = Q(TRUE)
    BY <1>1, <1>2
  <2>2. QED
    BY <2>1 DEF ViewAssumption, View!Pids, Item, Questions
<1>3. CASE x.procid \notin news
  <2>1. (x.procid \in news) = FALSE
    BY <1>3
  <2>2. View!About(kind, x, news) = Q(FALSE)
    BY <1>1, <2>1
  <2>3. QED
    BY <1>3, <2>2 DEF ViewAssumption, View!Pids, Fits, Item, Questions
<1>4. QED
  BY <1>2, <1>3

LEMMA UpdateStep ==
  ASSUME ViewAssumption, ViewInv, View!Update PROVE ViewInv' /\ View!SelectionStays
<1>1. /\ UNCHANGED <<procs, menu, question, events>> /\ fresh'.menu = fresh.menu
      /\ fresh' \in [tree : SUBSET View!Pids, menu : SUBSET View!Pids]
  BY DEF View!Update, ViewInv
<1>2. CASE UNCHANGED <<tree, sel, fresh>>
  BY <1>1, <1>2 DEF ViewInv, Fits, View!WarnsRightly, View!SelectionStays
<1>3. CASE tree' = View!NewTree /\ sel' = View!Refound(View!NewTree)
  <2> DEFINE t == View!NewTree
             found == {i \in DOMAIN t : sel \in DOMAIN tree /\ View!Same(t[i], tree[sel])}
  <2>1. t \in Seq(Current)
    BY NewTreeTyped DEF ViewInv
  <2> HIDE DEF t
  <2>2. t \in Seq(Item) /\ DOMAIN t = 1 .. Len(t) /\ Len(t) \in Nat /\ \A i \in DOMAIN t : t[i] \in Current
    <3>1. Current \subseteq Item
      BY DEF Current
    <3>2. QED
      BY <2>1, <3>1, SeqMonotonic, LenProperties, ElementOfSeq
  <2>3. sel' = IF found = {} THEN 0 ELSE Max(found)
    BY <1>3 DEF View!Refound, t, View!Max, Max
  <2>4. found # {} => sel' \in found
    <3>1. found \in SUBSET (1 .. Len(t))
      BY <2>2
    <3> HIDE DEF found
    <3>2. QED
      BY <2>2, <2>3, <3>1, GreatestPlace
  <2>5. sel' \in {0} \cup DOMAIN t
    BY <2>3, <2>4
  <2>6. tree' = t
    BY <1>3 DEF t
  <2>7. \A i \in DOMAIN tree' : Fits(tree'[i], fresh'.tree)
    BY <2>2, <2>6, CurrentFits
  <2>8. ViewInv'
    BY <1>1, <2>2, <2>5, <2>6, <2>7 DEF ViewInv, Fits, View!WarnsRightly
  <2>9. View!SelectionStays
    <3> SUFFICES ASSUME sel # 0, NEW i \in DOMAIN tree', View!Same(tree'[i], tree[sel])
                 PROVE  sel' # 0 /\ View!Same(tree'[sel'], tree[sel])
      BY DEF View!SelectionStays
    <3>1. sel \in DOMAIN tree
      BY DEF ViewInv
    <3>2. i \in found
      BY <2>6, <3>1
    <3>3. sel' \in found
      BY <2>4, <3>2
    <3>4. sel' \in 1 .. Len(t) /\ View!Same(t[sel'], tree[sel])
      BY <2>2, <3>3
    <3>5. QED
      BY <2>2, <2>6, <3>4
  <2>10. QED
    BY <2>8, <2>9
<1>4. QED
  BY <1>2, <1>3 DEF View!Update

\* What changes processes, and leaves tree and menu as they are.
LEMMA OthersStep ==
  ASSUME ViewAssumption, ViewInv,
         procs' \in [View!Pids -> Exes \cup {View!None}],
         fresh' \in [tree : SUBSET View!Pids, menu : SUBSET View!Pids],
         fresh.tree \subseteq fresh'.tree, fresh.menu \subseteq fresh'.menu,
         \A p \in View!Pids : procs'[p] \in {procs[p], View!None} \/ (p \in fresh'.tree /\ p \in fresh'.menu),
         UNCHANGED <<tree, sel, menu>>, events' \in Int,
         question' \in Questions,
         question'.procid \in View!Pids => procs'[question'.procid] \in {question'.name, View!None} \/ question'.reused
  PROVE  ViewInv'
<1>1. ASSUME NEW i \in DOMAIN tree PROVE procs'[tree[i].procid] \in {tree[i].name, View!None} \/ tree[i].procid \in fresh'.tree
  <2>1. tree[i] \in Item /\ Fits(tree[i], fresh.tree)
    BY ElementOfSeq, LenProperties DEF ViewInv
  <2>2. QED
    BY <2>1, StillFits
<1>2. ASSUME NEW i \in DOMAIN menu PROVE procs'[menu[i].procid] \in {menu[i].name, View!None} \/ menu[i].procid \in fresh'.menu
  <2>1. menu[i] \in Item /\ Fits(menu[i], fresh.menu)
    BY DEF ViewInv
  <2>2. QED
    BY <2>1, StillFits
<1>3. QED
  BY <1>1, <1>2 DEF ViewInv, Fits, View!WarnsRightly

LEMMA ViewStep ==
  ASSUME ViewAssumption, ViewInv, [View!Next]_View!viewVars
  PROVE  ViewInv'
<1>1. CASE View!Update
  BY <1>1, UpdateStep
<1>2. ASSUME NEW i \in DOMAIN tree, View!Select(i) PROVE ViewInv'
  BY <1>2 DEF View!Select, ViewInv, Fits, View!WarnsRightly
<1>3. CASE View!AskTerminate \/ View!AskClose
  <2>1. PICK kind \in Kinds : question' = View!About(kind, tree[sel], fresh.tree)
    BY <1>3 DEF View!AskTerminate, View!AskClose, View!Asks, Kinds
  <2>2. sel \in DOMAIN tree /\ tree[sel] \in Item /\ Fits(tree[sel], fresh.tree)
    BY <1>3, ElementOfSeq, LenProperties DEF View!AskTerminate, View!AskClose, ViewInv
  <2>3. /\ UNCHANGED <<procs, tree, sel, menu, fresh>> /\ events' \in Int
    BY <1>3 DEF View!AskTerminate, View!AskClose, View!Counts, ViewInv
  <2>4. question' \in Questions /\ (procs[question'.procid] \in {question'.name, View!None} \/ question'.reused)
    BY <2>1, <2>2, AboutTyped
  <2> HIDE DEF Questions
  <2>5. QED
    BY <2>3, <2>4 DEF ViewInv, Fits, View!WarnsRightly
<1>4. CASE View!OpenMenu
  <2>1. PICK m : m = View!Filled
    OBVIOUS
  <2>2. PICK next : Filling(m, next)
    BY <2>1, FilledTyped DEF ViewInv
  <2>3. /\ menu' = m /\ UNCHANGED <<procs, tree, sel, question>> /\ events' \in Int
        /\ fresh' = [fresh EXCEPT !.menu = {}]
    BY <1>4, <2>1 DEF View!OpenMenu, View!Counts, ViewInv
  <2>4. \A hv \in DOMAIN m : m[hv] \in Item /\ Fits(m[hv], fresh'.menu)
    BY <2>2, CurrentFits DEF Filling
  <2>5. {StartSystem, StartOther} \cap DOMAIN m = {} => \A hv \in DOMAIN m : View!Asked(hv) = View!Class(m[hv].name)
    BY <2>2 DEF Filling, Rooms, ViewAssumption
  <2>6. View!WarnsRightly'
    BY <2>3, <2>5 DEF View!WarnsRightly
  <2>7. fresh' \in [tree : SUBSET View!Pids, menu : SUBSET View!Pids] /\ fresh'.tree = fresh.tree
    BY <2>3 DEF ViewInv
  <2>8. QED
    BY <2>3, <2>4, <2>6, <2>7 DEF ViewInv, Fits
<1>5. CASE View!Choose
  <2>1. menu' = View!NoMenu /\ UNCHANGED <<procs, tree, sel, fresh, events>>
    BY <1>5 DEF View!Choose
  <2>2. DOMAIN menu' = {}
    BY <2>1 DEF View!NoMenu
  <2>3. question' \in Questions /\ (question'.procid \in View!Pids => procs[question'.procid] \in {question'.name, View!None} \/ question'.reused)
    <3>1. CASE UNCHANGED question
      BY <3>1 DEF ViewInv
    <3>2. ASSUME NEW hv \in DOMAIN menu, View!Asks(View!About(View!Asked(hv), menu[hv], fresh.menu))
          PROVE  question' \in Questions /\ (procs[question'.procid] \in {question'.name, View!None} \/ question'.reused)
      <4>1. View!Asked(hv) \in Kinds
        BY DEF View!Asked, Kinds
      <4>2. menu[hv] \in Item /\ Fits(menu[hv], fresh.menu)
        BY DEF ViewInv
      <4>3. QED
        BY <3>2, <4>1, <4>2, AboutTyped DEF View!Asks
    <3>3. ASSUME View!Asks(View!About("other", [hwnd |-> View!NoWindow, procid |-> View!NoPid, name |-> View!None], {}))
          PROVE  question' \in Questions /\ question'.procid \notin View!Pids
      <4>1. question' = [kind |-> "other", procid |-> View!NoPid, hwnd |-> View!NoWindow, name |-> View!None,
                         reused |-> View!NoPid \in {}]
        BY <3>3 DEF View!Asks, View!About
      <4>2. (View!NoPid \in {}) = FALSE
        OBVIOUS
      <4>3. question' = [kind |-> "other", procid |-> View!NoPid, hwnd |-> View!NoWindow, name |-> View!None,
                         reused |-> FALSE]
        BY <4>1, <4>2
      <4>4. QED
        BY <4>3 DEF Questions, View!NoPid, View!Pids, Kinds
    <3>4. QED
      BY <1>5, <3>1, <3>2, <3>3 DEF View!Choose
  <2> HIDE DEF Questions
  <2>4. QED
    BY <2>1, <2>2, <2>3 DEF ViewInv, Fits, View!WarnsRightly
<1>6. CASE View!Answer
  <2>1. question' = View!NoQuestion /\ UNCHANGED <<tree, sel, menu, fresh, events>>
    BY <1>6 DEF View!Answer
  <2>2. question' \in Questions /\ question'.procid \notin View!Pids
    BY <2>1 DEF View!NoQuestion, View!NoPid, View!Pids, Questions, Kinds
  <2>3. procs' \in [View!Pids -> Exes \cup {View!None}] /\ \A p \in View!Pids : procs'[p] \in {procs[p], View!None}
    BY <1>6 DEF View!Answer, View!Dies, ViewInv
  <2>4. events' \in Int /\ fresh' \in [tree : SUBSET View!Pids, menu : SUBSET View!Pids]
    BY <2>1 DEF ViewInv
  <2> HIDE DEF Questions
  <2>5. QED
    BY <2>1, <2>2, <2>3, <2>4, OthersStep
<1>7. ASSUME NEW p \in View!Pids, NEW exe \in Exes, View!Starts(p, exe) PROVE ViewInv'
  <2>1. /\ procs[p] = View!None /\ procs' = [procs EXCEPT ![p] = exe]
        /\ fresh' = [tree |-> fresh.tree \cup {p}, menu |-> fresh.menu \cup {p}]
        /\ question' = [question EXCEPT !.reused = @ \/ question.procid = p]
        /\ UNCHANGED <<tree, sel, menu>> /\ events' \in Int
    BY <1>7 DEF View!Starts, View!Counts, ViewInv
  <2>2. procs' \in [View!Pids -> Exes \cup {View!None}] /\ \A r \in View!Pids : r # p => procs'[r] = procs[r]
    BY <2>1 DEF ViewInv
  <2>3. fresh' \in [tree : SUBSET View!Pids, menu : SUBSET View!Pids]
        /\ fresh.tree \subseteq fresh'.tree /\ fresh.menu \subseteq fresh'.menu /\ p \in fresh'.tree /\ p \in fresh'.menu
    BY <2>1 DEF ViewInv
  <2>4. question' \in Questions /\ question'.procid = question.procid /\ question'.name = question.name
        /\ (question.procid = p => question'.reused) /\ (question.reused => question'.reused)
    BY <2>1 DEF ViewInv, Questions
  <2>5. question'.procid \in View!Pids => procs'[question'.procid] \in {question'.name, View!None} \/ question'.reused
    BY <2>2, <2>4 DEF ViewInv
  <2> HIDE DEF Questions
  <2>6. QED
    BY <2>1, <2>2, <2>3, <2>4, <2>5, OthersStep
<1>8. ASSUME NEW p \in View!Pids, View!Exits(p) PROVE ViewInv'
  <2>1. UNCHANGED <<tree, sel, menu, question, fresh>> /\ events' \in Int
    BY <1>8 DEF View!Exits, View!Counts, ViewInv
  <2>2. procs' \in [View!Pids -> Exes \cup {View!None}] /\ \A r \in View!Pids : procs'[r] \in {procs[r], View!None}
    BY <1>8 DEF View!Exits, View!Dies, ViewInv
  <2>3. question' \in Questions /\ fresh' \in [tree : SUBSET View!Pids, menu : SUBSET View!Pids]
    BY <2>1 DEF ViewInv
  <2> HIDE DEF Questions
  <2>4. question'.procid \in View!Pids => procs'[question'.procid] \in {question'.name, View!None} \/ question'.reused
    BY <2>1, <2>2 DEF ViewInv
  <2>5. QED
    BY <2>1, <2>2, <2>3, <2>4, OthersStep
<1>9. ASSUME UNCHANGED <<procs, tree, sel, menu, question, fresh>>, events' \in Int PROVE ViewInv'
  <2> HIDE DEF Questions
  <2>1. QED
    BY <1>9 DEF ViewInv, Fits, View!WarnsRightly
<1>10. ASSUME NEW h \in Hwnds, NEW p \in View!Pids, View!WindowOpens(h, p) PROVE ViewInv'
  <2>1. UNCHANGED <<procs, tree, sel, menu, question, fresh>> /\ events' \in Int
    BY <1>10 DEF View!WindowOpens, View!Counts, ViewInv
  <2>2. QED
    BY <1>9, <2>1
<1>11. CASE UNCHANGED View!viewVars
  <2>1. UNCHANGED <<procs, tree, sel, menu, question, fresh>> /\ events' \in Int
    BY <1>11 DEF View!viewVars, ViewInv
  <2>2. QED
    BY <1>9, <2>1
<1>12. QED
  BY <1>1, <1>2, <1>3, <1>4, <1>5, <1>6, <1>7, <1>8, <1>10, <1>11 DEF View!Next

LEMMA ViewActs ==
  ASSUME ViewAssumption, ViewInv, View!Next
  PROVE  View!KillsWhatItNamed /\ View!SelectionStays
<1>1. View!SelectionStays
  <2>1. CASE View!Update
    BY <2>1, UpdateStep
  <2>2. CASE tree' = tree
    BY <2>2 DEF View!SelectionStays
  <2>3. QED
    BY <2>1, <2>2 DEF View!Next, View!AskTerminate, View!AskClose, View!OpenMenu, View!Choose, View!Answer, View!Select,
       View!Exits, View!Starts, View!WindowOpens
<1>2. View!KillsWhatItNamed
  <2> SUFFICES ASSUME procs' # procs, events' = events, NEW p \in View!Pids, procs'[p] # procs[p]
               PROVE  procs[p] = question.name \/ question.reused
    BY DEF View!KillsWhatItNamed
  <2>1. View!Answer
    <3>1. View!Counts => events' # events
      BY DEF View!Counts, ViewInv
    <3>2. QED
      BY <3>1 DEF View!Next, View!Update, View!AskTerminate, View!AskClose, View!OpenMenu, View!Choose, View!Select,
         View!Exits, View!Starts, View!WindowOpens
  <2>2. question.procid \in View!Pids /\ View!Dies(question.procid)
    BY <2>1 DEF View!Answer
  <2>3. procs[p] # View!None /\ p = question.procid
    BY <2>2 DEF View!Dies, ViewInv
  <2>4. QED
    BY <2>2, <2>3 DEF ViewInv
<1>3. QED
  BY <1>1, <1>2

\* The process that is terminated is the one its question named, unless its number was given to
\* another since; the menu warns by class while there is room; and the selection stays with its
\* process or window when the tree is rebuilt (ProcView.cpp), whatever starts, ends and opens.
THEOREM ViewEndsWhatItNamed ==
  ASSUME ViewAssumption
  PROVE  View!Spec => EndsWhatItNamed
<1>1. View!Init => ViewInv
  <2> SUFFICES ASSUME View!Init PROVE ViewInv
    OBVIOUS
  <2>1. tree = <<>> /\ sel = 0 /\ menu = View!NoMenu /\ question = View!NoQuestion /\ fresh = [tree |-> {}, menu |-> {}]
        /\ events = 0 /\ procs \in [View!Pids -> Exes \cup {View!None}]
    BY DEF View!Init
  <2>2. tree \in Seq(Item) /\ DOMAIN tree = {} /\ DOMAIN menu = {}
    BY <2>1 DEF View!NoMenu
  <2>3. question \in Questions /\ question.procid \notin View!Pids
    BY <2>1 DEF View!NoQuestion, View!NoPid, View!Pids, Questions, Kinds
  <2>4. View!WarnsRightly
    BY <2>2 DEF View!WarnsRightly
  <2> HIDE DEF Questions
  <2>5. QED
    BY <2>1, <2>2, <2>3, <2>4 DEF ViewInv
<1>2. ViewInv /\ [View!Next]_View!viewVars => ViewInv'
  BY ViewStep
<1>3. ViewInv => View!WarnsRightly
  BY DEF ViewInv
<1>4. ViewInv /\ [View!Next]_View!viewVars => [View!KillsWhatItNamed /\ View!SelectionStays]_View!viewVars
  BY ViewActs
<1>5. QED
  BY <1>1, <1>2, <1>3, <1>4, PTL DEF View!Spec, EndsWhatItNamed, View!EndsWhatItNamed

-----------------------------------------------------------------------------
(* Player.  A command is made of calls that end with each other; each of them  *)
(* leaves a player that fits together, and there are finitely many, because    *)
(* between the end of the list and the next a file leaves it, or one opens.    *)

\* The files, what opens of them, and what the repeat field and the registry have.
PlayerAssumption ==
  /\ Renders \in [Files -> {"plays", "unplayable", "fails"}]
  /\ Repeats \subseteq Nat /\ Stored \subseteq Seq(Files)

Listed == [file : Files, played : BOOLEAN]
PlayerType ==
  [list : Seq(Listed), cur : Nat, sel : Nat, state : {"stop", "playing", "paused"}, loop : Int, allowed : BOOLEAN,
   open : Files \cup {Music!None}, at : {"within", "end", "over"}, random : BOOLEAN, repeat : Nat \cup {Music!Off},
   shutdown : BOOLEAN, due : BOOLEAN, heard : SUBSET Nat, clean : BOOLEAN, astray : BOOLEAN]
Played(p) == {i \in 1 .. Len(p.list) : p.list[i].played}

\* The places are in the list, what is open is the current entry unless it is
\* about to be closed, and a shutdown waits for the end.
InPlace(p) ==
  /\ p.sel <= Len(p.list)
  /\ p.state # "stop" => p.cur <= Len(p.list)
  /\ p.open # Music!None /\ ~(p.due /\ p.state = "playing") => p.state # "stop" /\ p.cur \in 1 .. Len(p.list) /\ p.list[p.cur].file = p.open
  /\ p.allowed => p.state = "stop" /\ Played(p) = {}
\* In a pass that the user lets alone, what was heard is what is marked, or current.
Fair(p) == p.state # "stop" /\ p.clean => p.random /\ p.heard = Played(p) \cup ({p.cur} \ {0})

Fitting == {p \in PlayerType : InPlace(p) /\ ~p.astray}
Players == {p \in Fitting : Fair(p)}

LEMMA MarkFits ==
  ASSUME NEW p \in Fitting, p.state # "stop", p.open = Music!None
  PROVE  LET q == Music!Mark(p)
         IN /\ q \in Fitting /\ Len(q.list) = Len(p.list)
            /\ q = [p EXCEPT !.list = q.list]
            /\ Played(q) = Played(p) \cup ({p.cur} \ {0})
<1> DEFINE i == p.cur
           q == Music!Mark(p)
           l == [p.list EXCEPT ![i] = [@ EXCEPT !.played = TRUE]]
<1>1. /\ p \in PlayerType /\ p.list \in Seq(Listed) /\ Len(p.list) \in Nat /\ DOMAIN p.list = 1 .. Len(p.list)
      /\ p.list \in [1 .. Len(p.list) -> Listed]
      /\ i \in 0 .. Len(p.list)
  BY LenProperties DEF Fitting, InPlace, PlayerType
<1>2. CASE i = 0
  <2>1. q = p
    BY <1>1, <1>2 DEF Music!Mark
  <2>2. p = [p EXCEPT !.list = p.list]
    BY <1>1 DEF PlayerType
  <2>3. QED
    BY <1>2, <2>1, <2>2
<1>3. CASE i # 0
  <2>1. i \in 1 .. Len(p.list)
    BY <1>1, <1>3
  <2>2. q = [p EXCEPT !.list = l]
    BY <1>1, <2>1 DEF Music!Mark
  <2>3. p.list[i] \in Listed /\ [p.list[i] EXCEPT !.played = TRUE] \in Listed
        /\ [p.list[i] EXCEPT !.played = TRUE].played
    BY <1>1, <2>1 DEF Listed
  <2>4. l \in [1 .. Len(p.list) -> Listed] /\ l[i].played
        /\ \A j \in 1 .. Len(p.list) : j # i => l[j] = p.list[j]
    BY <1>1, <2>1, <2>3
  <2> HIDE DEF l
  <2>5. l \in Seq(Listed) /\ Len(l) = Len(p.list)
    BY <1>1, <2>4, LenProperties
  <2>6. q.list = l
    BY <1>1, <2>2 DEF PlayerType
  <2>7. q \in PlayerType
    BY <1>1, <2>2, <2>5 DEF PlayerType
  <2>8. Played(q) = Played(p) \cup {i}
    BY <2>1, <2>4, <2>5, <2>6 DEF Played
  <2>9. ~p.allowed /\ ~p.astray
    BY DEF Fitting, InPlace
  <2>10. InPlace(q)
    BY <1>1, <2>2, <2>5, <2>6, <2>7, <2>9 DEF InPlace, Fitting, PlayerType
  <2>11. QED
    BY <1>1, <1>3, <2>2, <2>5, <2>6, <2>7, <2>8, <2>9, <2>10 DEF Fitting, PlayerType
<1>4. QED
  BY <1>2, <1>3

LEMMA RemoveFits ==
  ASSUME NEW p \in Fitting, ~p.due, Fair(p) \/ p.sel # 0
  PROVE  LET q == Music!Command_Remove(p)
         IN /\ q \in Players
            /\ p.sel # 0 => Len(q.list) = Len(p.list) - 1
            /\ q.due => p.sel # 0
<1> DEFINE q == Music!Command_Remove(p)
<1>1. /\ p \in PlayerType /\ p.list \in Seq(Listed) /\ Len(p.list) \in Nat
      /\ p.cur \in Nat /\ p.sel \in 0 .. Len(p.list)
      /\ p.state # "stop" => p.cur <= Len(p.list)
  BY LenProperties DEF Fitting, InPlace, PlayerType
<1>2. CASE p.sel = 0
  BY <1>2 DEF Music!Command_Remove, Players
<1>3. CASE p.sel # 0
  <2> DEFINE i == p.sel
             l == RemoveAt(p.list, i)
             s == IF p.state = "paused" THEN Music!Command_Stop(p) ELSE p
             c == IF s.state = "playing" /\ i <= s.cur THEN s.cur - 1 ELSE s.cur
             r == [s EXCEPT !.cur = c, !.list = l, !.sel = 0, !.clean = FALSE]
  <2>1. i \in 1 .. Len(p.list)
    BY <1>1, <1>3
  <2>2. /\ l \in Seq(Listed) /\ Len(l) = Len(p.list) - 1
        /\ \A j \in 1 .. Len(p.list) - 1 : l[j] = p.list[IF j < i THEN j ELSE j + 1]
    BY <1>1, <2>1, Removed
  <2> HIDE DEF l
  <2>3. /\ s \in PlayerType /\ s.list = p.list /\ ~s.astray /\ s.state # "paused"
        /\ s.state # "stop" => s = p
        /\ s.state = "stop" => s.open = Music!None
        /\ s.allowed = p.allowed
    BY <1>1 DEF Music!Command_Stop, PlayerType, Fitting, InPlace
  <2>4. q = IF s.state = "playing" /\ i = s.cur THEN Music!Due(r) ELSE r
    BY <1>3, <2>3 DEF Music!Command_Remove, Music!Touched, Music!RemoveAt, RemoveAt, l, PlayerType
  <2> HIDE DEF s
  <2>5. c \in Nat /\ (s.state # "stop" => c <= Len(l))
    BY <1>1, <2>1, <2>2, <2>3 DEF PlayerType
  <2> HIDE DEF c
  <2>6. r \in PlayerType /\ r.list = l /\ r.sel = 0 /\ r.cur = c /\ r.clean = FALSE /\ r.astray = s.astray
        /\ r.state = s.state /\ r.open = s.open /\ r.allowed = s.allowed /\ r.due = s.due
    BY <2>2, <2>3, <2>5 DEF PlayerType
  <2> HIDE DEF r
  <2>7. r.allowed => r.state = "stop" /\ Played(r) = {}
    <3> SUFFICES ASSUME r.allowed PROVE r.state = "stop" /\ Played(r) = {}
      OBVIOUS
    <3>1. p.allowed /\ p.state = "stop" /\ Played(p) = {} /\ s.state = "stop"
      BY <2>3, <2>6 DEF Fitting, InPlace, Music!Command_Stop, s
    <3>2. \A j \in 1 .. Len(p.list) : ~p.list[j].played
      BY <3>1 DEF Played
    <3>3. \A j \in 1 .. Len(l) : ~l[j].played
      BY <1>1, <2>1, <2>2, <3>2
    <3>4. QED
      BY <2>6, <3>1, <3>3 DEF Played
  <2>8. r.open # Music!None /\ ~(s.state = "playing" /\ i = s.cur) =>
          r.state # "stop" /\ r.cur \in 1 .. Len(r.list) /\ r.list[r.cur].file = r.open
    <3> SUFFICES ASSUME r.open # Music!None, ~(s.state = "playing" /\ i = s.cur)
                 PROVE  r.state # "stop" /\ r.cur \in 1 .. Len(r.list) /\ r.list[r.cur].file = r.open
      OBVIOUS
    <3>1. s = p /\ s.state = "playing" /\ p.open # Music!None
      BY <2>3, <2>6 DEF PlayerType
    <3>2. p.cur \in 1 .. Len(p.list) /\ p.list[p.cur].file = p.open /\ p.cur # i
      BY <3>1 DEF Fitting, InPlace
    <3>3. c = IF i <= p.cur THEN p.cur - 1 ELSE p.cur
      BY <3>1 DEF c
    <3>4. c \in 1 .. Len(l) /\ l[c] = p.list[p.cur]
      <4>1. CASE i < p.cur
        <5>1. c = p.cur - 1 /\ c \in 1 .. Len(p.list) - 1 /\ ~(c < i)
          BY <1>1, <2>1, <3>2, <3>3, <4>1
        <5> HIDE DEF c
        <5>2. l[c] = p.list[IF c < i THEN c ELSE c + 1]
          BY <2>2, <5>1
        <5>3. (IF c < i THEN c ELSE c + 1) = p.cur
          BY <1>1, <5>1
        <5>4. QED
          BY <2>2, <5>1, <5>2, <5>3
      <4>2. CASE p.cur < i
        <5>1. c = p.cur /\ c \in 1 .. Len(p.list) - 1 /\ c < i
          BY <1>1, <2>1, <3>2, <3>3, <4>2
        <5>2. QED
          BY <2>2, <5>1
      <4>3. QED
        BY <1>1, <2>1, <3>2, <4>1, <4>2
    <3>5. QED
      BY <2>6, <3>1, <3>2, <3>4
  <2>9. CASE s.state = "playing" /\ i = s.cur
    <3>1. q = Music!Due(r)
      BY <2>4, <2>9 DEF r
    <3>2. q \in PlayerType /\ q.list = l /\ q.sel = 0 /\ q.cur = c /\ q.clean = FALSE /\ q.astray = s.astray
          /\ q.state = s.state /\ q.allowed = s.allowed /\ q.due = TRUE
      BY <2>6, <3>1 DEF Music!Due, PlayerType
    <3> HIDE DEF q
    <3>3. q.allowed => q.state = "stop" /\ Played(q) = {}
      BY <2>6, <2>7, <3>2 DEF Played
    <3>4. q.sel <= Len(q.list) /\ (q.state # "stop" => q.cur <= Len(q.list)) /\ Len(q.list) = Len(p.list) - 1
      BY <2>1, <2>2, <2>5, <3>2
    <3>5. InPlace(q) /\ Fair(q)
      BY <2>9, <3>2, <3>3, <3>4 DEF InPlace, Fair
    <3>6. QED
      BY <1>3, <2>3, <3>2, <3>4, <3>5 DEF Players, Fitting, q
  <2>10. CASE ~(s.state = "playing" /\ i = s.cur)
    <3>1. q = r
      BY <2>4, <2>10 DEF r
    <3> HIDE DEF q
    <3>2. r.sel <= Len(r.list) /\ (r.state # "stop" => r.cur <= Len(r.list)) /\ Len(r.list) = Len(p.list) - 1
      BY <2>1, <2>2, <2>5, <2>6
    <3>3. InPlace(r) /\ Fair(r)
      BY <2>6, <2>7, <2>8, <2>10, <3>2 DEF InPlace, Fair
    <3>4. ~r.due
      BY <2>3, <2>6 DEF Music!Command_Stop, s, PlayerType
    <3>5. QED
      BY <1>3, <2>3, <2>6, <3>1, <3>2, <3>3, <3>4 DEF Players, Fitting, q
  <2>11. QED
    BY <2>9, <2>10
<1>4. QED
  BY <1>2, <1>3

\* A pass that begins: the next call finds an entry.
Fresh(p) == p.state = "playing" /\ p.cur = 0 /\ p.list # <<>> /\ Played(p) = {}
\* The calls that may still follow.
Left(p) == IF ~p.due THEN 0 ELSE IF Fresh(p) THEN 2 * Len(p.list) + 1 ELSE 2 * Len(p.list) + 2

LEMMA LeftIs ==
  ASSUME NEW p \in Players
  PROVE  /\ Len(p.list) \in Nat /\ Left(p) \in Nat
         /\ ~p.due => Left(p) = 0
         /\ p.due /\ Fresh(p) => Left(p) = 2 * Len(p.list) + 1
         /\ p.due /\ ~Fresh(p) => Left(p) = 2 * Len(p.list) + 2
<1>1. PICK n \in Nat : n = Len(p.list)
  BY LenProperties DEF Players, Fitting, PlayerType
<1>2. 2 * n + 1 \in Nat /\ 2 * n + 2 \in Nat
  BY <1>1
<1>3. Left(p) = IF ~p.due THEN 0 ELSE IF Fresh(p) THEN 2 * n + 1 ELSE 2 * n + 2
  BY <1>1 DEF Left
<1>4. CASE ~p.due
  BY <1>1, <1>3, <1>4
<1>5. CASE p.due /\ Fresh(p)
  BY <1>1, <1>2, <1>3, <1>5
<1>6. CASE p.due /\ ~Fresh(p)
  BY <1>1, <1>2, <1>3, <1>6
<1>7. QED
  BY <1>4, <1>5, <1>6

LEMMA PlayFits ==
  ASSUME NEW p \in Players, ~p.due, NEW again \in BOOLEAN
  PROVE  LET q == Music!Command_Play(p, again)
         IN /\ q \in Players /\ q.list = p.list
            /\ q.due /\ p.state = "stop" /\ p.sel = 0 /\ Played(p) = {} => Fresh(q)
<1> DEFINE q == Music!Command_Play(p, again)
           p1 == [p EXCEPT !.allowed = FALSE]
<1>1. /\ p \in PlayerType /\ p.list \in Seq(Listed) /\ Len(p.list) \in Nat /\ DOMAIN p.list = 1 .. Len(p.list)
      /\ p.list = <<>> <=> Len(p.list) = 0
      /\ p.cur \in Nat /\ p.sel \in 0 .. Len(p.list) /\ ~p.astray
      /\ p.state # "stop" => p.cur <= Len(p.list)
  BY LenProperties, EmptySeq DEF Players, Fitting, InPlace, PlayerType
<1>2. /\ p1 \in PlayerType /\ ~p1.allowed /\ p1.list = p.list /\ p1.cur = p.cur /\ p1.sel = p.sel /\ ~p1.astray
      /\ p1.state = p.state /\ p1.open = p.open /\ ~p1.due /\ p1.random = p.random /\ p1.at = p.at
      /\ p1.heard = p.heard /\ p1.clean = p.clean
  BY <1>1 DEF PlayerType
<1>3. p1 \in Players
  BY <1>1, <1>2 DEF Players, Fitting, InPlace, Fair, Played
<1> HIDE DEF p1
<1>4. CASE p.state = "stop" /\ p.list = <<>>
  <2>1. q = p1
    BY <1>2, <1>4 DEF Music!Command_Play, p1
  <2>2. QED
    BY <1>2, <1>3, <2>1
<1>5. CASE p.state = "stop" /\ p.list # <<>>
  <2> DEFINE c == IF p.sel = 0 THEN 0 ELSE p.sel - 1
             clean == p.random /\ p.sel = 0 /\ Played(p) = {}
  <2>1. (\A i \in 1 .. Len(p.list) : ~p.list[i].played) <=> Played(p) = {}
    BY DEF Played
  <2>2. q = [p1 EXCEPT !.state = "playing", !.loop = IF again THEN @ ELSE 0, !.cur = c, !.clean = clean, !.heard = {},
                       !.due = TRUE]
    <3>1. q = Music!Due([p1 EXCEPT !.state = "playing", !.loop = IF again THEN @ ELSE 0, !.cur = c, !.clean = clean,
                                   !.heard = {}])
      <4> DEFINE none == p1.random /\ p1.sel = 0 /\ \A i \in DOMAIN p1.list : ~p1.list[i].played
      <4>1. q = Music!Due([p1 EXCEPT !.state = "playing", !.loop = IF again THEN @ ELSE 0,
                                     !.cur = IF p1.sel = 0 THEN 0 ELSE p1.sel - 1, !.clean = none, !.heard = {}])
        BY <1>2, <1>5 DEF Music!Command_Play, p1
      <4>2. none = clean
        BY <1>1, <1>2, <2>1
      <4>3. (IF p1.sel = 0 THEN 0 ELSE p1.sel - 1) = c
        BY <1>2
      <4> HIDE DEF q, none, c, clean
      <4>4. QED
        BY <4>1, <4>2, <4>3
    <3> HIDE DEF c, clean
    <3>2. QED
      BY <1>2, <3>1 DEF Music!Due, PlayerType
  <2>3. c \in Nat /\ c <= Len(p.list) /\ clean \in BOOLEAN
    BY <1>1 DEF PlayerType
  <2> HIDE DEF c, clean
  <2>4. /\ q \in PlayerType /\ q.state = "playing" /\ q.cur = c /\ q.clean = clean /\ q.heard = {} /\ q.due
        /\ q.list = p.list /\ ~q.allowed /\ ~q.astray /\ q.sel = p.sel /\ q.random = p.random
    <3> DEFINE loop == IF again THEN p1.loop ELSE 0
    <3>1. loop \in Int
      BY <1>2 DEF PlayerType
    <3> HIDE DEF q
    <3>2. q = [p1 EXCEPT !.state = "playing", !.loop = loop, !.cur = c, !.clean = clean, !.heard = {}, !.due = TRUE]
      BY <1>2, <2>2 DEF PlayerType
    <3> HIDE DEF loop
    <3>3. QED
      BY <1>2, <2>3, <3>1, <3>2 DEF PlayerType
  <2> HIDE DEF q
  <2>5. Played(q) = Played(p)
    BY <2>4 DEF Played
  <2>6. InPlace(q)
    BY <1>1, <2>3, <2>4 DEF InPlace
  <2>7. Fair(q)
    BY <2>4, <2>5 DEF Fair, c, clean
  <2>8. q.due /\ p.state = "stop" /\ p.sel = 0 /\ Played(p) = {} => Fresh(q)
    BY <1>5, <2>4, <2>5 DEF Fresh, c
  <2>9. QED
    BY <2>4, <2>6, <2>7, <2>8 DEF Players, Fitting, q
<1>6. CASE p.state = "paused" /\ p.at = "within"
  <2>1. q = [p1 EXCEPT !.state = "playing"]
    BY <1>2, <1>6 DEF Music!Command_Play, p1
  <2>2. /\ q \in PlayerType /\ q.state = "playing" /\ q.cur = p.cur /\ q.clean = p.clean /\ q.heard = p.heard /\ ~q.due
        /\ q.list = p.list /\ ~q.allowed /\ ~q.astray /\ q.sel = p.sel /\ q.random = p.random /\ q.open = p.open
    BY <1>2, <2>1 DEF PlayerType
  <2> HIDE DEF q
  <2>3. InPlace(q) /\ Fair(q)
    BY <1>1, <1>2, <1>6, <2>2 DEF InPlace, Fair, Played, Players, Fitting
  <2>4. QED
    BY <1>6, <2>2, <2>3 DEF Players, Fitting, q
<1>7. CASE p.state = "paused" /\ p.at # "within"
  <2>1. q = [p1 EXCEPT !.state = "playing", !.due = TRUE]
    <3>1. q = Music!Due([p1 EXCEPT !.state = "playing"])
      BY <1>2, <1>7 DEF Music!Command_Play, p1
    <3>2. QED
      BY <1>2, <3>1 DEF Music!Due, PlayerType
  <2>2. /\ q \in PlayerType /\ q.state = "playing" /\ q.cur = p.cur /\ q.clean = p.clean /\ q.heard = p.heard /\ q.due
        /\ q.list = p.list /\ ~q.allowed /\ ~q.astray /\ q.sel = p.sel /\ q.random = p.random /\ q.open = p.open
    BY <1>2, <2>1 DEF PlayerType
  <2> HIDE DEF q
  <2>3. InPlace(q) /\ Fair(q)
    BY <1>1, <1>2, <1>7, <2>2 DEF InPlace, Fair, Played, Players, Fitting
  <2>4. QED
    BY <1>7, <2>2, <2>3 DEF Players, Fitting, q
<1>8. CASE p.state = "playing" /\ p.sel = 0
  <2>1. q = p1
    BY <1>2, <1>8 DEF Music!Command_Play, p1
  <2>2. QED
    BY <1>2, <1>3, <1>8, <2>1
<1>9. CASE p.state = "playing" /\ p.sel # 0 /\ p.cur = p.sel
  <2>1. q = [p1 EXCEPT !.at = "within"]
    BY <1>2, <1>9 DEF Music!Command_Play, p1
  <2>2. /\ q \in PlayerType /\ q.state = "playing" /\ q.cur = p.cur /\ q.clean = p.clean /\ q.heard = p.heard /\ ~q.due
        /\ q.list = p.list /\ ~q.allowed /\ ~q.astray /\ q.sel = p.sel /\ q.random = p.random /\ q.open = p.open
    BY <1>2, <1>9, <2>1 DEF PlayerType
  <2> HIDE DEF q
  <2>3. InPlace(q) /\ Fair(q)
    BY <1>1, <1>2, <1>9, <2>2 DEF InPlace, Fair, Played, Players, Fitting
  <2>4. QED
    BY <1>9, <2>2, <2>3 DEF Players, Fitting, q
<1>10. CASE p.state = "playing" /\ p.sel # 0 /\ p.cur # p.sel
  <2>1. q = [p1 EXCEPT !.cur = p.sel - 1, !.clean = FALSE, !.due = TRUE]
    <3>1. q = Music!Due(Music!Touched([p1 EXCEPT !.cur = p.sel - 1]))
      BY <1>2, <1>10 DEF Music!Command_Play, p1
    <3>2. QED
      BY <1>2, <3>1 DEF Music!Due, Music!Touched, PlayerType
  <2>2. p.sel - 1 \in Nat /\ p.sel - 1 <= Len(p.list)
    BY <1>1, <1>10
  <2>3. /\ q \in PlayerType /\ q.state = "playing" /\ q.cur = p.sel - 1 /\ ~q.clean /\ q.due
        /\ q.list = p.list /\ ~q.allowed /\ ~q.astray /\ q.sel = p.sel
    BY <1>2, <1>10, <2>1, <2>2 DEF PlayerType
  <2> HIDE DEF q
  <2>4. InPlace(q) /\ Fair(q)
    BY <1>1, <2>2, <2>3 DEF InPlace, Fair
  <2>5. QED
    BY <1>10, <2>3, <2>4 DEF Players, Fitting, q
<1>11. QED
  BY <1>1, <1>4, <1>5, <1>6, <1>7, <1>8, <1>9, <1>10 DEF PlayerType

\* The player before a file is chosen: nothing is open, and what was heard is marked.
Choosing(p) ==
  /\ p \in Fitting /\ p.state = "playing" /\ p.open = Music!None /\ ~p.due /\ ~p.allowed
  /\ p.clean => p.random /\ p.heard = Played(p)

LEMMA OpenFits ==
  ASSUME PlayerAssumption, NEW p, Choosing(p), NEW i \in Music!DecideNextFileToPlay(p)
  PROVE  LET q == Music!Opened([p EXCEPT !.cur = i])
         IN q \in Players /\ (q.due => Len(q.list) = Len(p.list) - 1)
<1> DEFINE x == [p EXCEPT !.cur = i]
           q == Music!Opened(x)
           file == p.list[i].file
<1>1. /\ p \in PlayerType /\ p.list \in Seq(Listed) /\ Len(p.list) \in Nat /\ DOMAIN p.list = 1 .. Len(p.list)
      /\ p.cur \in Nat /\ p.sel \in 0 .. Len(p.list) /\ ~p.astray
  BY LenProperties DEF Choosing, Fitting, InPlace, PlayerType
<1>2. i \in 1 .. Len(p.list) /\ (p.random => i \notin Played(p))
  BY <1>1 DEF Music!DecideNextFileToPlay, Played, PlayerType
<1>3. p.list[i] \in Listed /\ file \in Files
  <2>1. p.list[i] \in Listed
    BY <1>1, <1>2, ElementOfSeq
  <2>2. QED
    BY <2>1 DEF Listed
<1>4. /\ x \in PlayerType /\ x.cur = i /\ x.list = p.list /\ x.sel = p.sel /\ ~x.astray /\ x.state = "playing"
      /\ x.open = Music!None /\ ~x.due /\ ~x.allowed /\ x.heard = p.heard /\ x.clean = p.clean /\ x.random = p.random
  BY <1>1, <1>2 DEF PlayerType, Choosing
<1> HIDE DEF x
<1>5. Renders[file] \in {"plays", "unplayable", "fails"}
  BY <1>3 DEF PlayerAssumption
<1>6. CASE Renders[file] = "plays"
  <2> DEFINE astray == x.astray \/ (x.clean /\ i \in x.heard)
  <2>1. ~astray
    BY <1>2, <1>4 DEF Choosing
  <2>2. q = [x EXCEPT !.open = file, !.at = "within", !.sel = i, !.heard = @ \cup {i}, !.astray = FALSE]
    <3>1. q = [x EXCEPT !.open = file, !.at = "within", !.sel = i, !.heard = @ \cup {i}, !.astray = astray]
      BY <1>4, <1>6 DEF Music!Opened, PlayerType
    <3>2. astray = FALSE
      BY <1>4, <2>1 DEF PlayerType
    <3> HIDE DEF astray, q
    <3>3. QED
      BY <3>1, <3>2
  <2> HIDE DEF q
  <2>3. /\ q \in PlayerType /\ q.cur = i /\ q.list = p.list /\ q.sel = i /\ ~q.astray /\ q.state = "playing"
        /\ q.open = file /\ ~q.due /\ ~q.allowed /\ q.heard = p.heard \cup {i} /\ q.clean = p.clean /\ q.random = p.random
    BY <1>1, <1>2, <1>3, <1>4, <2>2 DEF PlayerType
  <2>4. InPlace(q)
    BY <1>1, <1>2, <2>3 DEF InPlace
  <2>5. Played(q) = Played(p)
    BY <2>3 DEF Played
  <2>6. Fair(q)
    BY <1>2, <2>3, <2>5 DEF Fair, Choosing
  <2>7. QED
    BY <2>3, <2>4, <2>6 DEF Players, Fitting, q, x
<1>7. CASE Renders[file] = "unplayable"
  <2> DEFINE y == [x EXCEPT !.sel = i]
  <2>1. q = Music!Command_Remove(y)
    BY <1>4, <1>7 DEF Music!Opened
  <2>2. /\ y \in PlayerType /\ y.cur = i /\ y.list = p.list /\ y.sel = i /\ ~y.astray /\ y.state = "playing"
        /\ y.open = Music!None /\ ~y.due /\ ~y.allowed
    BY <1>1, <1>2, <1>4 DEF PlayerType
  <2> HIDE DEF y
  <2>3. y \in Fitting /\ y.sel # 0
    BY <1>1, <1>2, <2>2 DEF Fitting, InPlace
  <2>4. QED
    BY <2>1, <2>2, <2>3, RemoveFits DEF x
<1>8. CASE Renders[file] = "fails"
  <2>1. q = [x EXCEPT !.heard = @ \cup {i}]
    BY <1>4, <1>8 DEF Music!Opened
  <2> HIDE DEF q
  <2>2. /\ q \in PlayerType /\ q.cur = i /\ q.list = p.list /\ q.sel = p.sel /\ ~q.astray /\ q.state = "playing"
        /\ q.open = Music!None /\ ~q.due /\ ~q.allowed /\ q.heard = p.heard \cup {i} /\ q.clean = p.clean /\ q.random = p.random
    BY <1>1, <1>2, <1>4, <2>1 DEF PlayerType
  <2>3. InPlace(q)
    BY <1>1, <1>2, <2>2 DEF InPlace
  <2>4. Played(q) = Played(p)
    BY <2>2 DEF Played
  <2>5. Fair(q)
    BY <1>2, <2>2, <2>4 DEF Fair, Choosing
  <2>6. QED
    BY <2>2, <2>3, <2>5 DEF Players, Fitting, q, x
<1>9. QED
  BY <1>5, <1>6, <1>7, <1>8

LEMMA FinishFits ==
  ASSUME PlayerAssumption, NEW p, Choosing(p), Music!DecideNextFileToPlay(p) = {}
  PROVE  LET q == Music!PlaybackFinished(p)
         IN q \in Players /\ Len(q.list) = Len(p.list) /\ (q.due => Fresh(q))
<1> DEFINE q == Music!PlaybackFinished(p)
           l == [i \in DOMAIN p.list |-> Music!Entry(p.list[i].file)]
           s == [Music!Command_Stop(p) EXCEPT !.list = [i \in DOMAIN @ |-> Music!Entry(@[i].file)], !.allowed = FALSE,
                                              !.astray = @ \/ (p.clean /\ p.heard # DOMAIN p.list)]
           n == [s EXCEPT !.loop = @ + 1]
<1>1. /\ p \in PlayerType /\ p.list \in Seq(Listed) /\ Len(p.list) \in Nat /\ DOMAIN p.list = 1 .. Len(p.list)
      /\ p.state = "playing" /\ ~p.due /\ ~p.astray
      /\ \A i \in 1 .. Len(p.list) : p.list[i] \in Listed
  BY LenProperties, ElementOfSeq DEF Choosing, Fitting, InPlace, PlayerType
<1>2. p.clean => p.heard = DOMAIN p.list
  <2> SUFFICES ASSUME p.clean PROVE p.heard = DOMAIN p.list
    OBVIOUS
  <2>1. p.random /\ p.heard = Played(p)
    BY DEF Choosing
  <2>2. \A i \in 1 .. Len(p.list) : p.list[i].played
    BY <1>1, <2>1 DEF Music!DecideNextFileToPlay
  <2>3. QED
    BY <1>1, <2>1, <2>2 DEF Played
<1>3. l \in Seq(Listed) /\ Len(l) = Len(p.list) /\ \A i \in 1 .. Len(l) : ~l[i].played
  <2>1. \A i \in 1 .. Len(p.list) : l[i] \in Listed /\ ~l[i].played
    BY <1>1 DEF Listed, Music!Entry
  <2>2. l \in [1 .. Len(p.list) -> Listed]
    BY <1>1, <2>1
  <2> HIDE DEF l
  <2>3. l \in Seq(Listed) /\ Len(l) = Len(p.list)
    BY <1>1, <2>2, LenProperties
  <2>4. QED
    BY <2>1, <2>3
<1>4. s = [p EXCEPT !.state = "stop", !.open = Music!None, !.at = "within", !.cur = 0, !.sel = 0,
                    !.list = l, !.allowed = FALSE, !.astray = FALSE]
  <2> DEFINE c == Music!Command_Stop(p)
             a == c.astray \/ (p.clean /\ p.heard # DOMAIN p.list)
  <2>1. c = [p EXCEPT !.state = "stop", !.open = Music!None, !.at = "within", !.cur = 0, !.sel = 0]
    BY <1>1 DEF Music!Command_Stop
  <2>2. c.list = p.list /\ c.astray = p.astray
    BY <1>1, <2>1 DEF PlayerType
  <2>3. a = FALSE
    BY <1>1, <1>2, <2>2 DEF PlayerType
  <2>4. s = [c EXCEPT !.list = l, !.allowed = FALSE, !.astray = a]
    BY <2>1, <2>2
  <2> HIDE DEF l, a, s, c
  <2>5. QED
    BY <1>1, <2>1, <2>3, <2>4 DEF PlayerType
<1> HIDE DEF l, s
<1>5. /\ s \in PlayerType /\ s.state = "stop" /\ s.open = Music!None /\ s.cur = 0 /\ s.sel = 0 /\ s.list = l /\ ~s.allowed
      /\ ~s.astray /\ ~s.due /\ s.repeat = p.repeat
  BY <1>1, <1>3, <1>4 DEF PlayerType
<1>6. /\ n \in PlayerType /\ n.state = "stop" /\ n.open = Music!None /\ n.cur = 0 /\ n.sel = 0 /\ n.list = l /\ ~n.allowed
      /\ ~n.astray /\ ~n.due /\ n.repeat = p.repeat
  BY <1>5 DEF PlayerType
<1> HIDE DEF n
<1>7. ASSUME NEW x \in {s, n}
      PROVE  /\ x \in Players /\ ~x.due /\ x.list = l /\ x.state = "stop" /\ x.sel = 0 /\ Played(x) = {}
             /\ \A b \in BOOLEAN : [x EXCEPT !.allowed = b] \in Players /\ [x EXCEPT !.allowed = b].list = l
                                   /\ ~[x EXCEPT !.allowed = b].due
  <2>1. /\ x \in PlayerType /\ x.state = "stop" /\ x.open = Music!None /\ x.cur = 0 /\ x.sel = 0 /\ x.list = l /\ ~x.allowed
        /\ ~x.astray /\ ~x.due
    BY <1>5, <1>6
  <2>2. Played(x) = {}
    BY <1>3, <2>1 DEF Played
  <2>3. ASSUME NEW b \in BOOLEAN PROVE [x EXCEPT !.allowed = b] \in Players /\ [x EXCEPT !.allowed = b].list = l
                                      /\ ~[x EXCEPT !.allowed = b].due
    <3> DEFINE y == [x EXCEPT !.allowed = b]
    <3>1. /\ y \in PlayerType /\ y.state = "stop" /\ y.open = Music!None /\ y.cur = 0 /\ y.sel = 0 /\ y.list = l
          /\ ~y.astray /\ ~y.due
      BY <2>1 DEF PlayerType
    <3> HIDE DEF y
    <3>2. Played(y) = {}
      BY <1>3, <3>1 DEF Played
    <3>3. InPlace(y) /\ Fair(y)
      BY <1>1, <1>3, <3>1, <3>2 DEF InPlace, Fair
    <3>4. QED
      BY <3>1, <3>3 DEF Players, Fitting, y
  <2>4. x \in Players
    BY <1>1, <1>3, <2>1, <2>2 DEF Players, Fitting, InPlace, Fair
  <2>5. QED
    BY <2>1, <2>2, <2>3, <2>4
<1>8. p.repeat \in Nat \cup {Music!Off} /\ Music!Off \notin Nat /\ n.loop \in Int
  BY <1>1, <1>6 DEF PlayerType, Music!Off
<1>9. \/ \E x \in {s, n}, b \in BOOLEAN : q = [x EXCEPT !.allowed = b]
      \/ \E b \in BOOLEAN : q = Music!Command_Play(n, b)
  <2> DEFINE bs == Music!ShutdownEnabled(s) /\ s.shutdown
             bn == Music!ShutdownEnabled(n) /\ n.shutdown
  <2>1. bs \in BOOLEAN /\ bn \in BOOLEAN
    OBVIOUS
  <2>2. q = CASE p.repeat = Music!Off -> [s EXCEPT !.allowed = bs]
              [] p.repeat = 0 -> Music!Command_Play(n, FALSE)
              [] p.repeat > 0 /\ n.loop < p.repeat + 1 -> Music!Command_Play(n, TRUE)
              [] p.repeat > 0 /\ n.loop >= p.repeat + 1 -> [n EXCEPT !.allowed = bn]
    BY DEF Music!PlaybackFinished, s, n
  <2> HIDE DEF q, bs, bn
  <2>3. CASE p.repeat = Music!Off
    <3>1. p.repeat # 0 /\ ~(p.repeat > 0)
      BY <2>3 DEF Music!Off
    <3>2. q = [s EXCEPT !.allowed = bs]
      BY <2>2, <2>3, <3>1
    <3>3. QED
      BY <2>1, <3>2
  <2>4. CASE p.repeat \in Nat /\ p.repeat # Music!Off
    <3>1. p.repeat = 0 \/ (p.repeat > 0 /\ n.loop < p.repeat + 1) \/ (p.repeat > 0 /\ n.loop >= p.repeat + 1)
      BY <1>8, <2>4
    <3>2. q \in {Music!Command_Play(n, FALSE), Music!Command_Play(n, TRUE), [n EXCEPT !.allowed = bn]}
      BY <2>2, <2>4, <3>1
    <3>3. QED
      BY <2>1, <3>2
  <2>5. QED
    BY <1>8, <2>3, <2>4
<1>10. CASE \E x \in {s, n}, b \in BOOLEAN : q = [x EXCEPT !.allowed = b]
  BY <1>3, <1>7, <1>10
<1>11. CASE \E b \in BOOLEAN : q = Music!Command_Play(n, b)
  <2>1. PICK b \in BOOLEAN : q = Music!Command_Play(n, b)
    BY <1>11
  <2>2. n \in Players /\ ~n.due /\ n.list = l /\ n.state = "stop" /\ n.sel = 0 /\ Played(n) = {}
    BY <1>7
  <2>3. QED
    BY <1>3, <2>1, <2>2, PlayFits
<1>12. QED
  BY <1>9, <1>10, <1>11

LEMMA NextFits ==
  ASSUME PlayerAssumption, NEW p \in Players, p.due, NEW q \in Music!PlayNextFile(p)
  PROVE  q \in Players /\ Left(q) < Left(p)
<1> DEFINE p1 == [p EXCEPT !.allowed = FALSE, !.due = FALSE]
           x == [p1 EXCEPT !.open = Music!None, !.at = "within"]
           y == Music!Mark(x)
<1>1. /\ p \in PlayerType /\ p.list \in Seq(Listed) /\ Len(p.list) \in Nat /\ ~p.astray
      /\ DOMAIN p.list = 1 .. Len(p.list)
      /\ p.list = <<>> <=> Len(p.list) = 0
  BY LenProperties, EmptySeq DEF Players, Fitting, PlayerType
<1>2. /\ p1 \in PlayerType /\ ~p1.allowed /\ ~p1.due /\ p1.list = p.list /\ p1.cur = p.cur /\ p1.sel = p.sel
      /\ ~p1.astray /\ p1.state = p.state /\ p1.open = p.open /\ p1.random = p.random
      /\ p1.heard = p.heard /\ p1.clean = p.clean
  BY <1>1 DEF PlayerType
<1> HIDE DEF p1
<1>3. Left(p) \in Nat /\ Left(p) > 2 * Len(p.list)
  BY LeftIs
<1>4. CASE p.state # "playing"
  <2>1. q = p1
    BY <1>2, <1>4 DEF Music!PlayNextFile, p1
  <2>2. InPlace(p1) /\ Fair(p1)
    BY <1>2, <1>4 DEF Players, Fitting, InPlace, Fair, Played
  <2>3. p1 \in Players
    BY <1>1, <1>2, <2>2 DEF Players, Fitting
  <2>4. QED
    BY <1>1, <1>2, <1>3, <2>1, <2>3, LeftIs
<1>5. CASE p.state = "playing"
  <2>1. /\ x \in PlayerType /\ ~x.allowed /\ ~x.due /\ x.list = p.list /\ x.cur = p.cur /\ x.sel = p.sel
        /\ ~x.astray /\ x.state = "playing" /\ x.open = Music!None /\ x.random = p.random
        /\ x.heard = p.heard /\ x.clean = p.clean
    BY <1>2, <1>5 DEF PlayerType
  <2> HIDE DEF x
  <2>2. x \in Fitting /\ Fair(x)
    BY <1>5, <2>1 DEF Players, Fitting, InPlace, Fair, Played
  <2>3. /\ y \in Fitting /\ Len(y.list) = Len(x.list)
        /\ y = [x EXCEPT !.list = y.list]
        /\ Played(y) = Played(x) \cup ({x.cur} \ {0})
    BY <2>1, <2>2, MarkFits
  <2> HIDE DEF y
  <2>4. /\ ~y.allowed /\ ~y.due /\ y.cur = p.cur /\ y.state = "playing" /\ y.open = Music!None /\ y.random = p.random
        /\ y.heard = p.heard /\ y.clean = p.clean
    BY <2>1, <2>3 DEF PlayerType
  <2>5. Choosing(y)
    BY <2>1, <2>2, <2>3, <2>4 DEF Choosing, Fair
  <2>6. CASE Music!DecideNextFileToPlay(y) = {}
    <3>1. q = Music!PlaybackFinished(y)
      BY <1>2, <1>5, <2>6 DEF Music!PlayNextFile, y, x, p1
    <3>2. q \in Players /\ Len(q.list) = Len(p.list) /\ (q.due => Fresh(q))
      BY <2>1, <2>3, <2>5, <2>6, <3>1, FinishFits
    <3>3. ~Fresh(p)
      <4> SUFFICES ASSUME Fresh(p) PROVE FALSE
        OBVIOUS
      <4>1. p.cur = 0 /\ Played(p) = {} /\ 1 \in 1 .. Len(p.list)
        BY <1>1 DEF Fresh
      <4>2. Played(y) = {}
        BY <2>1, <2>3, <4>1 DEF Played
      <4>3. y.list \in Seq(Listed) /\ DOMAIN y.list = 1 .. Len(y.list) /\ 1 \in DOMAIN y.list /\ y.cur + 1 = 1
        BY <2>1, <2>3, <2>4, <4>1, LenProperties DEF Fitting, PlayerType
      <4>4. 1 \in Music!DecideNextFileToPlay(y)
        BY <4>2, <4>3 DEF Music!DecideNextFileToPlay, Played
      <4>5. QED
        BY <2>6, <4>4
    <3>4. Left(p) = 2 * Len(p.list) + 2
      BY <3>3, LeftIs
    <3>5. Left(q) = 0 \/ Left(q) = 2 * Len(q.list) + 1
      BY <3>2, LeftIs
    <3>6. QED
      BY <1>1, <3>2, <3>4, <3>5
  <2>7. CASE Music!DecideNextFileToPlay(y) # {}
    <3>1. PICK i \in Music!DecideNextFileToPlay(y) : q = Music!Opened([y EXCEPT !.cur = i])
      BY <1>2, <1>5, <2>7 DEF Music!PlayNextFile, y, x, p1
    <3>2. q \in Players /\ (q.due => Len(q.list) = Len(p.list) - 1)
      BY <2>1, <2>3, <2>5, <3>1, OpenFits
    <3>3. CASE ~q.due
      BY <1>1, <1>3, <3>2, <3>3, LeftIs
    <3>4. CASE q.due
      <4>1. Left(q) \in {2 * Len(q.list) + 1, 2 * Len(q.list) + 2} /\ Len(q.list) = Len(p.list) - 1
        BY <3>2, <3>4, LeftIs
      <4>2. QED
        BY <1>1, <1>3, <3>2, <4>1
    <3>5. QED
      BY <3>3, <3>4
  <2>8. QED
    BY <2>6, <2>7
<1>6. QED
  BY <1>4, <1>5

\* After so many calls no more is due, and the player fits together.
LEMMA CallsEnd ==
  ASSUME PlayerAssumption, NEW p \in Players
  PROVE  Music!Ended(p) \subseteq {r \in Players : ~r.due}
<1> DEFINE A == SUBSET Players
           N == 2 * Len(p.list) + 2
           L == 1 .. N
           q == Music!Calls(p)
           T == [x \in A \X L |-> Music!Further(x[1], x[2])]
           D == DOMAIN q
           Is(f) == f = [s \in SUBSET D |-> IF s = {} THEN {p}
                                            ELSE LET x == Max(s) IN Music!Further(f[s \ {x}], q[x])]
           g == CHOOSE f : Is(f)
<1>1. Music!Ended(p) = g[D]
  BY DEF Music!Ended, Music!FoldLeft, Music!MapThenFoldSet, Music!Max, Max
<1>2. p.list \in Seq(Listed) /\ Len(p.list) \in Nat /\ N \in Nat
  BY LenProperties DEF Players, Fitting, PlayerType
<1>3. \A states \in A, n \in L : Music!Further(states, n) \in A
  BY NextFits DEF Music!Further
<1>4. T \in [A \X L -> A] /\ {p} \in A
  BY <1>3
<1>5. q \in Seq(L) /\ D = 1 .. N /\ Len(q) = N /\ \A j \in 1 .. N : q[j] = j
  BY <1>2 DEF Music!Calls
<1> HIDE DEF T, A, L, q, N
<1>6. (\E f \in [SUBSET D -> A] : FoldsBy(T, {p}, q, D, f)) /\ TopsIn(L, q, D)
  BY <1>4, <1>5, FoldExists
<1>7. ASSUME NEW states \in A, NEW n \in L
      PROVE  T[<<states, n>>] = Music!Further(states, n)
  BY <1>4 DEF T
<1>8. \E f \in [SUBSET D -> A] : Is(f)
  <2>1. PICK f \in [SUBSET D -> A] : FoldsBy(T, {p}, q, D, f)
    BY <1>6
  <2>2. \A s \in SUBSET D : s # {} => f[s \ {Max(s)}] \in A /\ q[Max(s)] \in L
    BY <1>6, <2>1 DEF TopsIn
  <2>3. \A s \in SUBSET D : f[s] = IF s = {} THEN {p} ELSE Music!Further(f[s \ {Max(s)}], q[Max(s)])
    BY <1>7, <2>1, <2>2 DEF FoldsBy
  <2>4. QED
    BY <2>3
<1>9. Is(g)
  BY <1>8
<1> HIDE DEF g
<1>10. PICK a : Climbs(g, a, N)
  BY <1>2, FoldClimbs
<1> DEFINE Bound(j) == a[j] \subseteq {r \in Players : r.due => Left(r) <= N - j}
           P == {j \in 0 .. N : Bound(j)}
<1>11. 0 \in P
  <2>1. a[0] = {p}
    BY <1>9, <1>10 DEF Climbs
  <2>2. p.due => Left(p) <= N - 0
    BY <1>2, LeftIs DEF N
  <2>3. QED
    BY <1>2, <2>1, <2>2
<1>12. ASSUME NEW j \in 1 .. N, j - 1 \in P PROVE j \in P
  <2>1. a[j] = Music!Further(a[j - 1], j)
    <3>1. 1 .. j \in SUBSET D /\ ClimbsTo(j, g, a)
      BY <1>5, <1>10 DEF Climbs
    <3>2. 1 .. j # {} /\ Max(1 .. j) = j /\ (1 .. j) \ {j} = 1 .. j - 1
      BY <3>1 DEF ClimbsTo
    <3>3. g[1 .. j] = Music!Further(g[1 .. j - 1], q[j])
      BY <1>9, <3>1, <3>2
    <3>4. QED
      BY <1>5, <3>1, <3>3 DEF ClimbsTo
  <2>2. ASSUME NEW r \in a[j] PROVE r \in Players /\ (r.due => Left(r) <= N - j)
    <3>1. PICK s \in a[j - 1] : r \in IF s.due THEN Music!PlayNextFile(s) ELSE {s}
      BY <2>1 DEF Music!Further
    <3>2. s \in Players /\ (s.due => Left(s) <= N - (j - 1))
      BY <1>12
    <3>3. CASE ~s.due
      BY <3>1, <3>2, <3>3
    <3>4. CASE s.due
      <4>1. r \in Players /\ Left(r) < Left(s)
        BY <3>1, <3>2, <3>4, NextFits
      <4>2. Left(r) \in Int /\ Left(s) \in Int
        BY <3>2, <4>1, LeftIs
      <4>3. QED
        BY <1>2, <3>2, <3>4, <4>1, <4>2
    <3>5. QED
      BY <3>3, <3>4
  <2>3. QED
    BY <2>2
<1> HIDE DEF P
<1>13. 0 .. N \subseteq P
  BY <1>2, <1>11, <1>12, UpTo
<1>14. Bound(N)
  BY <1>2, <1>13 DEF P
<1>15. a[N] = g[D]
  BY <1>5, <1>10 DEF Climbs
<1>16. ASSUME NEW r \in Music!Ended(p) PROVE r \in Players /\ ~r.due
  <2>1. r \in Players /\ (r.due => Left(r) <= 0)
    BY <1>1, <1>2, <1>14, <1>15, <1>16
  <2>2. r.due => Left(r) > 0
    BY <2>1, LeftIs
  <2>3. QED
    BY <2>1, <2>2, LeftIs
<1>17. QED
  BY <1>16

\* A player that differs in its boxes, in a mark of the pass or in whether it is paused.
Alike(p, q) ==
  /\ q.list = p.list /\ q.cur = p.cur /\ q.open = p.open /\ q.astray = p.astray
  /\ q.sel <= Len(p.list) /\ (q.allowed => p.allowed)
  /\ q.state # p.state => p.state # "stop" /\ q.state # "stop" /\ ~q.allowed
  /\ q.clean => q.clean = p.clean /\ q.heard = p.heard /\ q.random = p.random
Settled == {p \in Players : ~p.due}

LEMMA AlikeFits ==
  ASSUME NEW p \in Settled, NEW q \in PlayerType, Alike(p, q)
  PROVE  q \in Players
<1>1. Played(q) = Played(p)
  BY DEF Played, Alike
<1>2. InPlace(q)
  BY <1>1 DEF Alike, InPlace, Settled, Players, Fitting
<1>3. Fair(q)
  BY <1>1 DEF Alike, Fair, Settled, Players
<1>4. QED
  BY <1>2, <1>3 DEF Alike, Settled, Players, Fitting

\* The call of PlayNextFile that ends a command.
LEMMA DueFits ==
  ASSUME PlayerAssumption, NEW p \in Settled
  PROVE  Music!Ended(Music!Due(p)) \subseteq Settled
<1> DEFINE q == Music!Due(p)
<1>1. /\ p \in PlayerType /\ InPlace(p)
  BY DEF Settled, Players, Fitting
<1>2. q \in PlayerType /\ Alike(p, q)
  <2>1. /\ q \in PlayerType /\ q.list = p.list /\ q.cur = p.cur /\ q.open = p.open /\ q.astray = p.astray /\ q.sel = p.sel
        /\ q.allowed = p.allowed /\ q.state = p.state /\ q.clean = p.clean /\ q.heard = p.heard /\ q.random = p.random
    BY <1>1 DEF PlayerType, Music!Due
  <2> HIDE DEF q
  <2>2. QED
    BY <1>1, <2>1 DEF Alike, InPlace
<1>3. QED
  BY <1>2, AlikeFits, CallsEnd DEF Settled

\* A stopped player.
LEMMA StopFits ==
  ASSUME NEW p \in Settled
  PROVE  LET q == Music!Command_Stop(p)
         IN /\ q \in PlayerType /\ q.list = p.list /\ q.state = "stop" /\ q.open = Music!None /\ q.sel <= Len(p.list)
            /\ q.allowed = p.allowed /\ ~q.due /\ ~q.astray
<1>1. p \in PlayerType /\ InPlace(p) /\ ~p.due /\ ~p.astray /\ Len(p.list) \in Nat
  BY LenProperties DEF Settled, Players, Fitting, PlayerType
<1>2. CASE p.state = "stop"
  BY <1>1, <1>2 DEF Music!Command_Stop, InPlace, PlayerType
<1>3. CASE p.state # "stop"
  <2> DEFINE q == Music!Command_Stop(p)
  <2>1. q = [p EXCEPT !.state = "stop", !.open = Music!None, !.at = "within", !.cur = 0, !.sel = 0]
    BY <1>3 DEF Music!Command_Stop
  <2> HIDE DEF q
  <2>2. /\ q \in PlayerType /\ q.list = p.list /\ q.state = "stop" /\ q.open = Music!None /\ q.sel = 0
        /\ q.allowed = p.allowed /\ ~q.due /\ ~q.astray
    BY <1>1, <2>1 DEF PlayerType
  <2>3. QED
    BY <1>1, <2>2 DEF q
<1>4. QED
  BY <1>2, <1>3

\* What a new process has when SavePlaylist has left a registry.
Saved == [files : Seq(Files), cur : Nat, state : {"stop", "playing", "paused"}, random : BOOLEAN, repeat : BOOLEAN]

LEMMA RestoredFits ==
  ASSUME PlayerAssumption, NEW r \in Saved
  PROVE  Music!Restored(r) \subseteq Settled
<1> DEFINE cur == IF r.cur <= Len(r.files) THEN r.cur ELSE 0
           l == [i \in DOMAIN r.files |-> Music!Entry(r.files[i])]
           repeat == IF r.repeat THEN 0 ELSE Music!Off
           p == [Music!NewPlayer EXCEPT !.list = l, !.cur = cur, !.sel = cur, !.random = r.random, !.repeat = repeat]
<1>1. r.files \in Seq(Files) /\ Len(r.files) \in Nat /\ DOMAIN r.files = 1 .. Len(r.files) /\ r.cur \in Nat
      /\ \A i \in 1 .. Len(r.files) : r.files[i] \in Files
  BY LenProperties, ElementOfSeq DEF Saved
<1>2. l \in Seq(Listed) /\ Len(l) = Len(r.files)
  <2>1. \A i \in 1 .. Len(r.files) : Music!Entry(r.files[i]) \in Listed
    BY <1>1 DEF Listed, Music!Entry
  <2>2. l \in [1 .. Len(r.files) -> Listed]
    BY <1>1, <2>1
  <2> HIDE DEF l
  <2>3. QED
    BY <1>1, <2>2, LenProperties
<1>3. cur \in Nat /\ cur <= Len(l) /\ r.random \in BOOLEAN /\ repeat \in Nat \cup {Music!Off}
  BY <1>1, <1>2 DEF Saved
<1>4. Music!Restored(r) = IF r.state = "playing" THEN Music!Ended(Music!Command_Play(p, FALSE)) ELSE {p}
  BY DEF Music!Restored
<1> HIDE DEF l, cur, repeat
<1>5. /\ p \in PlayerType /\ p.list = l /\ p.cur = cur /\ p.sel = cur /\ p.state = "stop" /\ p.open = Music!None
      /\ ~p.allowed /\ ~p.due /\ ~p.astray
  <2> DEFINE n == Music!NewPlayer
  <2>1. /\ n \in PlayerType /\ n.state = "stop" /\ n.open = Music!None /\ ~n.allowed /\ ~n.due /\ ~n.astray
    BY DEF Music!NewPlayer, Music!Off, PlayerType
  <2>2. p = [n EXCEPT !.list = l, !.cur = cur, !.sel = cur, !.random = r.random, !.repeat = repeat]
    OBVIOUS
  <2> HIDE DEF n, p
  <2>3. QED
    BY <1>2, <1>3, <2>1, <2>2 DEF PlayerType
<1> HIDE DEF p
<1>6. p \in Settled
  BY <1>3, <1>5 DEF Settled, Players, Fitting, InPlace, Fair
<1>7. Music!Command_Play(p, FALSE) \in Players
  BY <1>6, PlayFits DEF Settled
<1>8. QED
  BY <1>4, <1>6, <1>7, CallsEnd DEF Settled

LEMMA SavedFits ==
  ASSUME NEW p \in PlayerType
  PROVE  Music!SavePlaylist(p) \in Saved
<1> DEFINE l == [i \in DOMAIN p.list |-> p.list[i].file]
<1>1. p.list \in Seq(Listed) /\ Len(p.list) \in Nat /\ DOMAIN p.list = 1 .. Len(p.list)
      /\ \A i \in 1 .. Len(p.list) : p.list[i] \in Listed
  BY LenProperties, ElementOfSeq DEF PlayerType
<1>2. l \in [1 .. Len(p.list) -> Files]
  BY <1>1 DEF Listed
<1> HIDE DEF l
<1>3. l \in Seq(Files)
  BY <1>1, <1>2
<1>4. Music!SavePlaylist(p) = [files |-> l, cur |-> p.cur, state |-> p.state, random |-> p.random,
                               repeat |-> p.repeat # Music!Off]
  BY DEF Music!SavePlaylist, l
<1>5. QED
  BY <1>3, <1>4 DEF Saved, PlayerType

\* Between two commands the player is settled.
PlayerInv == player \in Settled /\ registry \in Saved

LEMMA PlayerInit ==
  PlayerAssumption /\ Music!Init => PlayerInv
<1> SUFFICES ASSUME PlayerAssumption, Music!Init PROVE PlayerInv
  OBVIOUS
<1>1. PICK files \in Stored, random \in BOOLEAN, repeat \in BOOLEAN :
        registry = [Music!SavePlaylist(Music!NewPlayer) EXCEPT !.files = files, !.random = random, !.repeat = repeat]
  BY DEF Music!Init
<1>2. Music!NewPlayer \in PlayerType
  BY DEF Music!NewPlayer, Music!Off, PlayerType
<1>3. Music!SavePlaylist(Music!NewPlayer) \in Saved /\ files \in Seq(Files)
  BY <1>2, SavedFits DEF PlayerAssumption
<1>4. registry \in Saved
  BY <1>1, <1>3 DEF Saved
<1>5. QED
  BY <1>4, RestoredFits DEF Music!Init, PlayerInv

\* The commands that are made of calls.
LEMMA PlayStep ==
  ASSUME PlayerAssumption, PlayerInv, Music!Play
  PROVE  PlayerInv'
<1>1. player' \in Music!Ended(Music!Command_Play(player, FALSE)) /\ registry' = registry
  BY DEF Music!Play, Music!After
<1>2. Music!Command_Play(player, FALSE) \in Players
  BY PlayFits DEF PlayerInv, Settled
<1>3. QED
  BY <1>1, <1>2, CallsEnd DEF PlayerInv, Settled

LEMMA NextStep ==
  ASSUME PlayerAssumption, PlayerInv, Music!NextFile
  PROVE  PlayerInv'
<1> DEFINE p == [player EXCEPT !.allowed = FALSE]
<1>1. player' \in Music!Command_Next(player) /\ registry' = registry
  BY DEF Music!NextFile, Music!After
<1>2. p \in PlayerType /\ ~p.due /\ p.state \in {"stop", "playing", "paused"} /\ Alike(player, p)
  <2>1. player \in PlayerType /\ InPlace(player) /\ ~player.due
    BY DEF PlayerInv, Settled, Players, Fitting
  <2>2. /\ p \in PlayerType /\ p.list = player.list /\ p.cur = player.cur /\ p.open = player.open /\ p.astray = player.astray
        /\ p.sel = player.sel /\ ~p.allowed /\ p.state = player.state /\ p.clean = player.clean
        /\ p.heard = player.heard /\ p.random = player.random /\ ~p.due
    BY <2>1 DEF PlayerType
  <2> HIDE DEF p
  <2>3. QED
    BY <2>1, <2>2 DEF Alike, InPlace, PlayerType
<1>3. p \in Settled
  BY <1>2, AlikeFits DEF PlayerInv, Settled
<1>4. Music!Command_Next(player) = CASE p.state = "stop" -> {p}
                                     [] p.state = "playing" -> Music!Ended(Music!Due(p))
                                     [] p.state = "paused" ->
                                          UNION {Music!Ended(Music!Due(q)) : q \in Music!Ended(Music!Command_Play(p, FALSE))}
  BY DEF Music!Command_Next
<1> HIDE DEF p
<1>5. CASE p.state = "stop"
  BY <1>1, <1>3, <1>4, <1>5 DEF PlayerInv
<1>6. CASE p.state = "playing"
  <2>1. player' \in Music!Ended(Music!Due(p))
    BY <1>1, <1>4, <1>6
  <2>2. QED
    BY <1>1, <1>3, <2>1, DueFits DEF PlayerInv
<1>7. CASE p.state = "paused"
  <2>1. PICK q \in Music!Ended(Music!Command_Play(p, FALSE)) : player' \in Music!Ended(Music!Due(q))
    BY <1>1, <1>4, <1>7
  <2>2. Music!Command_Play(p, FALSE) \in Players
    BY <1>3, PlayFits DEF Settled
  <2>3. q \in Settled
    BY <2>1, <2>2, CallsEnd DEF Settled
  <2>4. QED
    BY <1>1, <2>1, <2>3, DueFits DEF PlayerInv
<1>8. QED
  BY <1>2, <1>5, <1>6, <1>7

LEMMA RemoveStep ==
  ASSUME PlayerAssumption, PlayerInv, Music!RemoveFile
  PROVE  PlayerInv'
<1>1. player' \in Music!Ended(Music!Command_Remove(player)) /\ registry' = registry
  BY DEF Music!RemoveFile, Music!After
<1>2. Music!Command_Remove(player) \in Players
  BY RemoveFits DEF PlayerInv, Settled, Players
<1>3. QED
  BY <1>1, <1>2, CallsEnd DEF PlayerInv, Settled

\* EC_COMPLETE, at the end of the file.
LEMMA CompletedStep ==
  ASSUME PlayerAssumption, PlayerInv, Music!Completed
  PROVE  PlayerInv'
<1> DEFINE p == [player EXCEPT !.at = "over"]
<1>1. player' \in Music!Ended(Music!Due(p)) /\ registry' = registry
  BY DEF Music!Completed, Music!Event
<1>2. player \in PlayerType /\ InPlace(player) /\ ~player.due
  BY DEF PlayerInv, Settled, Players, Fitting
<1>3. /\ p \in PlayerType /\ p.list = player.list /\ p.cur = player.cur /\ p.open = player.open /\ p.astray = player.astray
      /\ p.sel = player.sel /\ p.allowed = player.allowed /\ p.state = player.state /\ p.clean = player.clean
      /\ p.heard = player.heard /\ p.random = player.random /\ ~p.due
  BY <1>2 DEF PlayerType
<1> HIDE DEF p
<1>4. Alike(player, p)
  BY <1>2, <1>3 DEF Alike, InPlace
<1>5. p \in Settled
  BY <1>3, <1>4, AlikeFits DEF PlayerInv, Settled
<1>6. QED
  BY <1>1, <1>5, DueFits DEF PlayerInv

\* The commands that stop, or change the list or the boxes.
LEMMA StopStep ==
  ASSUME PlayerInv, Music!Stop \/ Music!Clear
  PROVE  PlayerInv'
<1> DEFINE s == Music!Command_Stop(player)
<1>1. /\ s \in PlayerType /\ s.list = player.list /\ s.state = "stop" /\ s.open = Music!None /\ s.sel <= Len(player.list)
      /\ s.allowed = player.allowed /\ ~s.due /\ ~s.astray
  BY StopFits DEF PlayerInv
<1>2. player \in PlayerType /\ InPlace(player) /\ ~player.due
  BY DEF PlayerInv, Settled, Players, Fitting
<1>3. CASE Music!Stop
  <2> DEFINE q == [s EXCEPT !.clean = FALSE]
  <2>1. player' = q /\ registry' = registry /\ player.state # "stop"
    BY <1>3 DEF Music!Stop, Music!After, Music!Touched
  <2> HIDE DEF s
  <2>2. /\ q \in PlayerType /\ q.list = player.list /\ q.state = "stop" /\ q.open = Music!None /\ q.sel = s.sel
        /\ q.allowed = player.allowed /\ ~q.due /\ ~q.astray
    BY <1>1 DEF PlayerType
  <2> HIDE DEF q
  <2>3. ~q.allowed
    BY <1>2, <2>1, <2>2 DEF InPlace
  <2>4. InPlace(q) /\ Fair(q)
    BY <1>1, <2>2, <2>3 DEF InPlace, Fair
  <2>5. QED
    BY <2>1, <2>2, <2>4 DEF PlayerInv, Settled, Players, Fitting
<1>4. CASE Music!Clear
  <2> DEFINE none == <<>>
             q == [s EXCEPT !.list = none, !.sel = 0, !.clean = FALSE]
  <2>1. player' = Music!Touched([s EXCEPT !.list = <<>>, !.sel = 0]) /\ registry' = registry
    BY <1>4 DEF Music!Clear, Music!After, Music!ClearList
  <2> HIDE DEF s
  <2>2. player' = q
    BY <1>1, <2>1 DEF Music!Touched, PlayerType
  <2>3. none \in Seq(Listed)
    OBVIOUS
  <2> HIDE DEF none
  <2>4. /\ q \in PlayerType /\ q.list = none /\ q.state = "stop" /\ q.open = Music!None /\ q.sel = 0
        /\ ~q.due /\ ~q.astray
    BY <1>1, <2>3 DEF PlayerType
  <2> HIDE DEF q
  <2>5. Len(q.list) = 0 /\ Played(q) = {}
    BY <2>4 DEF Played, none
  <2>6. InPlace(q) /\ Fair(q)
    BY <2>4, <2>5 DEF InPlace, Fair
  <2>7. QED
    BY <2>1, <2>2, <2>4, <2>6 DEF PlayerInv, Settled, Players, Fitting
<1>5. QED
  BY <1>3, <1>4

LEMMA AddStep ==
  ASSUME PlayerInv, NEW file \in Files, Music!Add(file)
  PROVE  PlayerInv'
<1> DEFINE l == Append(player.list, Music!Entry(file))
           q == [player EXCEPT !.list = l]
<1>1. player' = q /\ registry' = registry
  BY DEF Music!Add, Music!After, Music!AddNewFile
<1>2. player \in PlayerType /\ InPlace(player) /\ Fair(player) /\ ~player.due /\ ~player.astray
      /\ player.list \in Seq(Listed) /\ Len(player.list) \in Nat
  BY LenProperties DEF PlayerInv, Settled, Players, Fitting, PlayerType
<1>3. Music!Entry(file) \in Listed /\ ~Music!Entry(file).played
  BY DEF Listed, Music!Entry
<1>4. /\ l \in Seq(Listed) /\ Len(l) = Len(player.list) + 1
      /\ \A i \in 1 .. Len(player.list) : l[i] = player.list[i]
      /\ l[Len(player.list) + 1] = Music!Entry(file)
  BY <1>2, <1>3, AppendProperties
<1> HIDE DEF l
<1>5. /\ q \in PlayerType /\ q.list = l /\ q.cur = player.cur /\ q.open = player.open /\ q.astray = player.astray
      /\ q.sel = player.sel /\ q.allowed = player.allowed /\ q.state = player.state /\ q.clean = player.clean
      /\ q.heard = player.heard /\ q.random = player.random /\ ~q.due
  BY <1>2, <1>4 DEF PlayerType
<1> HIDE DEF q
<1>6. Played(q) = Played(player)
  <2>1. \A i \in 1 .. Len(l) : i \in 1 .. Len(player.list) \/ i = Len(player.list) + 1
    BY <1>2, <1>4
  <2>2. 1 .. Len(player.list) \subseteq 1 .. Len(l)
    BY <1>2, <1>4
  <2>3. \A i : i \in Played(q) <=> i \in Played(player)
    BY <1>3, <1>4, <1>5, <2>1, <2>2 DEF Played
  <2>4. QED
    BY <2>3 DEF Played
<1>7. InPlace(q)
  BY <1>2, <1>4, <1>5, <1>6 DEF InPlace, PlayerType
<1>8. Fair(q)
  BY <1>2, <1>5, <1>6 DEF Fair
<1>9. QED
  BY <1>1, <1>2, <1>5, <1>7, <1>8 DEF PlayerInv, Settled, Players, Fitting

LEMMA BoxStep ==
  ASSUME PlayerAssumption, PlayerInv,
         \/ Music!Pause \/ Music!CheckRandom \/ Music!CheckShutdown \/ Music!FileEnds \/ Music!Seek
         \/ \E i \in 1 .. MaxList : Music!Select(i)
         \/ \E n \in Repeats \cup {Music!Off} : Music!CheckRepeat(n)
  PROVE  PlayerInv'
<1>1. player \in PlayerType /\ InPlace(player) /\ ~player.due /\ player.list \in Seq(Listed)
      /\ Len(player.list) \in Nat /\ DOMAIN player.list = 1 .. Len(player.list)
  BY LenProperties DEF PlayerInv, Settled, Players, Fitting, PlayerType
<1>2. ASSUME NEW q, player' = q, registry' = registry, q \in PlayerType, ~q.due, q.sel = player.sel \/ q.sel <= Len(player.list),
             q.list = player.list, q.cur = player.cur, q.open = player.open, q.astray = player.astray, q.heard = player.heard,
             (~q.clean \/ (q.clean = player.clean /\ q.random = player.random)),
             (q.state = player.state \/ (player.state = "playing" /\ q.state = "paused" /\ ~q.allowed)),
             (q.allowed = player.allowed \/ ~q.allowed)
      PROVE  PlayerInv'
  <2>1. Alike(player, q)
    BY <1>1, <1>2 DEF Alike, InPlace
  <2>2. QED
    BY <1>2, <2>1, AlikeFits DEF PlayerInv, Settled
<1>3. CASE Music!Pause
  <2> DEFINE q == [player EXCEPT !.allowed = FALSE, !.state = "paused"]
  <2>1. player' = q /\ registry' = registry
    BY <1>1, <1>3 DEF Music!Pause, Music!After, Music!Command_Pause
  <2>2. /\ q \in PlayerType /\ ~q.due /\ q.sel = player.sel /\ q.list = player.list /\ q.cur = player.cur
        /\ q.open = player.open /\ q.astray = player.astray /\ q.heard = player.heard
        /\ q.clean = player.clean /\ q.random = player.random
        /\ q.state = "paused" /\ player.state = "playing" /\ ~q.allowed
    BY <1>1, <1>3 DEF PlayerType, Music!Pause
  <2> HIDE DEF q
  <2>3. QED
    BY <1>2, <2>1, <2>2
<1>4. CASE Music!CheckRandom
  <2> DEFINE q == [player EXCEPT !.random = ~@, !.clean = FALSE]
  <2>1. player' = q /\ registry' = registry
    BY <1>1, <1>4 DEF Music!CheckRandom, Music!After, Music!Touched, PlayerType
  <2>2. /\ q \in PlayerType /\ ~q.due /\ q.sel = player.sel /\ q.list = player.list /\ q.cur = player.cur
        /\ q.open = player.open /\ q.astray = player.astray /\ q.heard = player.heard
        /\ ~q.clean
        /\ q.state = player.state /\ q.allowed = player.allowed
    BY <1>1 DEF PlayerType
  <2> HIDE DEF q
  <2>3. QED
    BY <1>2, <2>1, <2>2
<1>5. CASE Music!CheckShutdown
  <2> DEFINE q == [player EXCEPT !.shutdown = ~@]
  <2>1. player' = q /\ registry' = registry
    BY <1>1, <1>5 DEF Music!CheckShutdown, Music!After
  <2>2. /\ q \in PlayerType /\ ~q.due /\ q.sel = player.sel /\ q.list = player.list /\ q.cur = player.cur
        /\ q.open = player.open /\ q.astray = player.astray /\ q.heard = player.heard
        /\ q.clean = player.clean /\ q.random = player.random
        /\ q.state = player.state /\ q.allowed = player.allowed
    BY <1>1 DEF PlayerType
  <2> HIDE DEF q
  <2>3. QED
    BY <1>2, <2>1, <2>2
<1>6. CASE Music!FileEnds
  <2> DEFINE q == [player EXCEPT !.at = "end"]
  <2>1. player' = q /\ registry' = registry
    BY <1>1, <1>6 DEF Music!FileEnds, Music!Event
  <2>2. /\ q \in PlayerType /\ ~q.due /\ q.sel = player.sel /\ q.list = player.list /\ q.cur = player.cur
        /\ q.open = player.open /\ q.astray = player.astray /\ q.heard = player.heard
        /\ q.clean = player.clean /\ q.random = player.random
        /\ q.state = player.state /\ q.allowed = player.allowed
    BY <1>1 DEF PlayerType
  <2> HIDE DEF q
  <2>3. QED
    BY <1>2, <2>1, <2>2
<1>7. CASE Music!Seek
  <2> DEFINE q == [player EXCEPT !.at = "within"]
  <2>1. player' = q /\ registry' = registry
    BY <1>1, <1>7 DEF Music!Seek, Music!After
  <2>2. /\ q \in PlayerType /\ ~q.due /\ q.sel = player.sel /\ q.list = player.list /\ q.cur = player.cur
        /\ q.open = player.open /\ q.astray = player.astray /\ q.heard = player.heard
        /\ q.clean = player.clean /\ q.random = player.random
        /\ q.state = player.state /\ q.allowed = player.allowed
    BY <1>1 DEF PlayerType
  <2> HIDE DEF q
  <2>3. QED
    BY <1>2, <2>1, <2>2
<1>8. CASE \E i \in 1 .. MaxList : Music!Select(i)
  <2>1. PICK i \in 1 .. MaxList : Music!Select(i)
    BY <1>8
  <2> DEFINE q == [player EXCEPT !.sel = i]
  <2>2. player' = q /\ registry' = registry
    BY <2>1 DEF Music!Select, Music!After
  <2>3. i \in Nat /\ i <= Len(player.list)
    BY <1>1, <2>1 DEF Music!Select, PlayerAssumption
  <2>4. /\ q \in PlayerType /\ ~q.due /\ q.sel <= Len(player.list) /\ q.list = player.list /\ q.cur = player.cur
        /\ q.open = player.open /\ q.astray = player.astray /\ q.heard = player.heard /\ q.clean = player.clean
        /\ q.random = player.random /\ q.state = player.state /\ q.allowed = player.allowed
    BY <1>1, <2>3 DEF PlayerType
  <2> HIDE DEF q
  <2>5. QED
    BY <1>2, <2>2, <2>4
<1>9. CASE \E n \in Repeats \cup {Music!Off} : Music!CheckRepeat(n)
  <2>1. PICK n \in Repeats \cup {Music!Off} : Music!CheckRepeat(n)
    BY <1>9
  <2> DEFINE q == [player EXCEPT !.repeat = n]
  <2>2. player' = q /\ registry' = registry
    BY <2>1 DEF Music!CheckRepeat, Music!After
  <2>3. n \in Nat \cup {Music!Off}
    BY <1>1, <2>1 DEF Music!CheckRepeat, PlayerAssumption
  <2>4. /\ q \in PlayerType /\ ~q.due /\ q.sel = player.sel /\ q.list = player.list /\ q.cur = player.cur
        /\ q.open = player.open /\ q.astray = player.astray /\ q.heard = player.heard /\ q.clean = player.clean
        /\ q.random = player.random /\ q.state = player.state /\ q.allowed = player.allowed
    BY <1>1, <2>3 DEF PlayerType
  <2> HIDE DEF q
  <2>5. QED
    BY <1>2, <2>2, <2>4
<1>10. QED
  BY <1>3, <1>4, <1>5, <1>6, <1>7, <1>8, <1>9

\* A process begins with what the last one saved, or with what a crash left of it.
LEMMA StartStep ==
  ASSUME PlayerAssumption, PlayerInv, Music!MenuSave \/ Music!Restart \/ Music!Crash
  PROVE  PlayerInv'
<1>1. Music!SavePlaylist(player) \in Saved
  BY SavedFits DEF PlayerInv, Settled, Players, Fitting
<1>2. CASE Music!MenuSave
  BY <1>1, <1>2 DEF Music!MenuSave, PlayerInv
<1>3. CASE Music!Restart
  BY <1>1, <1>3, RestoredFits DEF Music!Restart, PlayerInv
<1>4. CASE Music!Crash
  <2>1. registry' \in {registry, [registry EXCEPT !.files = <<>>]} /\ player' \in Music!Restored(registry')
    BY <1>4 DEF Music!Crash
  <2>2. registry' \in Saved
    <3>1. registry \in Saved
      BY DEF PlayerInv
    <3>2. CASE registry' = [registry EXCEPT !.files = <<>>]
      <4> DEFINE none == <<>>
      <4>1. none \in Seq(Files) /\ registry' = [registry EXCEPT !.files = none]
        BY <3>2
      <4> HIDE DEF none
      <4>2. QED
        BY <3>1, <4>1 DEF Saved
    <3>3. QED
      BY <2>1, <3>1, <3>2
  <2>3. QED
    BY <2>1, <2>2, RestoredFits DEF PlayerInv
<1>5. QED
  BY <1>2, <1>3, <1>4

\* The player keeps its place in the list, whatever is added, removed, chosen, restored or cannot be
\* played: what plays is the current entry, a shutdown is allowed only at rest after the end of the
\* list, a pass in random mode that the user lets alone plays every entry once, and the calls that
\* the commands make of each other come to an end.
THEOREM PlayerKeepsItsPlace ==
  ASSUME PlayerAssumption
  PROVE  Music!Spec => []KeepsItsPlace
<1>1. Music!Init => PlayerInv
  BY PlayerInit
<1>2. PlayerInv /\ [Music!Next]_playerVars => PlayerInv'
  <2> SUFFICES ASSUME PlayerInv, [Music!Next]_playerVars PROVE PlayerInv'
    OBVIOUS
  <2>1. CASE Music!Play \/ Music!NextFile \/ Music!RemoveFile \/ Music!Completed
    BY <2>1, PlayStep, NextStep, RemoveStep, CompletedStep
  <2>2. CASE Music!Stop \/ Music!Clear
    BY <2>2, StopStep
  <2>3. CASE \E file \in Files : Music!Add(file)
    BY <2>3, AddStep
  <2>4. CASE \/ Music!Pause \/ Music!CheckRandom \/ Music!CheckShutdown \/ Music!FileEnds \/ Music!Seek
             \/ \E i \in 1 .. MaxList : Music!Select(i)
             \/ \E n \in Repeats \cup {Music!Off} : Music!CheckRepeat(n)
    BY <2>4, BoxStep
  <2>5. CASE Music!MenuSave \/ Music!Restart \/ Music!Crash
    BY <2>5, StartStep
  <2>6. CASE UNCHANGED playerVars
    BY <2>6 DEF playerVars, PlayerInv
  <2>7. QED
    BY <2>1, <2>2, <2>3, <2>4, <2>5, <2>6 DEF Music!Next
<1>3. PlayerInv => KeepsItsPlace
  <2> SUFFICES ASSUME PlayerInv PROVE KeepsItsPlace
    OBVIOUS
  <2>1. player \in PlayerType /\ InPlace(player) /\ ~player.astray /\ ~player.due
        /\ DOMAIN player.list = 1 .. Len(player.list)
    BY LenProperties DEF PlayerInv, Settled, Players, Fitting, PlayerType
  <2>2. Music!PlaysCurrent
    BY <2>1 DEF InPlace, Music!PlaysCurrent
  <2>3. Music!AllowedAtEnd
    BY <2>1 DEF InPlace, Music!AllowedAtEnd, Played
  <2>4. QED
    BY <2>1, <2>2, <2>3 DEF KeepsItsPlace, Music!KeepsItsPlace, Music!PassIsFair
<1>4. QED
  BY <1>1, <1>2, <1>3, PTL DEF Music!Spec, Music!playerVars, playerVars

-----------------------------------------------------------------------------
(* Menu.  What is selected in a menu is what the next one was opened for, so   *)
(* the entries selected form a path from the first menu to the choice.         *)

\* The menus have entries, and the screen has room for what KeyboardScroll keeps in sight.
MenuAssumption ==
  /\ \A m \in DOMAIN Items : Items[m] \in Seq(DOMAIN Items \cup {"entry", "disabled", "separator"}) /\ Items[m] # <<>>
  /\ Root \in DOMAIN Items
  /\ TS \in Nat \ {0} /\ Frame \in Nat /\ Width \in Nat /\ ScreenWidth \in Nat /\ ScreenHeight \in Nat
  /\ 3 * TS <= ScreenHeight
  /\ Points \subseteq [x : Int, y : Int]

LevelType == [menu : DOMAIN Items, sel : Nat, off : Int, quoteMouse : BOOLEAN, fsb : BOOLEAN, x : Int, y : Int, h : Int]

\* A menu as it is shown: only one that is too high for the screen is ever scrolled.
Shown == {l \in LevelType :
            /\ Popup!OnScreen(l)
            /\ l.sel <= Popup!u(l.menu)
            /\ l.sel # 0 => Popup!Item(l, l.sel) # "separator" \/ Popup!Border(l)
            /\ IF l.fsb THEN l.h = ScreenHeight ELSE l.off = 0 /\ l.h = Popup!u(l.menu) * TS + Frame}

\* Each menu was opened for the entry selected in the one before.
Linked(open) ==
  \A k \in 1 .. Len(open) - 1 : open[k].sel # 0 /\ open[k + 1].menu = Popup!Item(open[k], open[k].sel)

MenuInv ==
  /\ levels \in Seq(Shown) /\ Linked(levels)
  /\ levels # <<>> => levels[1].menu = Root /\ result.value < 1
  /\ result.value \in Int
  /\ Popup!ToldIsChosen

LEMMA ClipFits ==
  ASSUME NEW want \in Int, NEW size \in Nat, NEW limit \in Nat
  PROVE  LET c == Popup!Clip(want, size, limit) IN c \in Int /\ c >= 0 /\ (size <= limit => c + size <= limit)
<1> DEFINE a == IF want + size > limit THEN limit - size ELSE want
           b == IF a < 0 THEN 0 ELSE a
<1>1. a \in Int /\ a + size <= limit
  OBVIOUS
<1> HIDE DEF a
<1>2. b \in Int /\ b >= 0
  BY <1>1
<1>3. Popup!Clip(want, size, limit) = IF b + size > limit THEN 0 ELSE b
  BY DEF Popup!Clip, a, b
<1> HIDE DEF b
<1>4. QED
  BY <1>2, <1>3

LEMMA HeightFits ==
  ASSUME MenuAssumption, NEW m \in DOMAIN Items
  PROVE  /\ Popup!u(m) \in Nat /\ Popup!u(m) >= 1 /\ DOMAIN Items[m] = 1 .. Popup!u(m)
         /\ Popup!u(m) * TS + Frame \in Nat
<1>1. Items[m] \in Seq(DOMAIN Items \cup {"entry", "disabled", "separator"}) /\ Items[m] # <<>>
  BY DEF MenuAssumption
<1>2. Len(Items[m]) \in Nat /\ DOMAIN Items[m] = 1 .. Len(Items[m]) /\ Len(Items[m]) # 0
  BY <1>1, LenProperties, EmptySeq
<1>3. PICK n \in Nat : n = Popup!u(m)
  BY <1>2 DEF Popup!u
<1>4. n * TS \in Nat /\ n * TS + Frame \in Nat
  BY DEF MenuAssumption
<1>5. QED
  BY <1>2, <1>3, <1>4 DEF Popup!u

\* A menu when it is opened.
LEMMA OpenedFits ==
  ASSUME MenuAssumption, NEW m \in DOMAIN Items, NEW p \in [x : Int, y : Int], NEW rb \in BOOLEAN
  PROVE  LET l == Popup!CalcSizeAlign(m, p, rb) IN l \in Shown /\ l.menu = m
<1> DEFINE h == Popup!u(m) * TS + Frame
           fsb == h > ScreenHeight
           x == IF rb THEN p.x - Width ELSE p.x
           y == IF rb THEN p.y - h ELSE p.y
           cx == Popup!Clip(x, Width, ScreenWidth)
           cy == Popup!Clip(y, h, ScreenHeight)
           l == Popup!CalcSizeAlign(m, p, rb)
<1>1. h \in Nat /\ Popup!u(m) \in Nat
  BY HeightFits
<1>2. l = [menu |-> m, sel |-> 0, off |-> 0, quoteMouse |-> FALSE, fsb |-> fsb, x |-> cx, y |-> IF fsb THEN 0 ELSE cy,
           h |-> IF fsb THEN ScreenHeight ELSE h]
  BY DEF Popup!CalcSizeAlign
<1> HIDE DEF h, l
<1>3. x \in Int /\ y \in Int /\ Width \in Nat /\ ScreenWidth \in Nat /\ ScreenHeight \in Nat
  BY <1>1 DEF MenuAssumption
<1> HIDE DEF x, y
<1>4. cx \in Int /\ cx >= 0 /\ (Width <= ScreenWidth => cx + Width <= ScreenWidth)
  BY <1>3, ClipFits
<1>5. cy \in Int /\ cy >= 0 /\ (h <= ScreenHeight => cy + h <= ScreenHeight)
  BY <1>1, <1>3, ClipFits
<1> HIDE DEF cx, cy
<1>6. /\ l \in LevelType /\ l.menu = m /\ l.sel = 0 /\ l.off = 0 /\ l.fsb = fsb /\ l.x = cx
      /\ l.y = (IF fsb THEN 0 ELSE cy) /\ l.h = IF fsb THEN ScreenHeight ELSE h
  BY <1>1, <1>2, <1>3, <1>4, <1>5 DEF LevelType
<1>7. Popup!OnScreen(l)
  BY <1>1, <1>3, <1>4, <1>5, <1>6 DEF Popup!OnScreen
<1>8. l.sel <= Popup!u(l.menu) /\ h = Popup!u(l.menu) * TS + Frame
  BY <1>1, <1>6 DEF h
<1>9. l \in Shown
  BY <1>6, <1>7, <1>8 DEF Shown
<1>10. QED
  BY <1>6, <1>9 DEF l

\* A menu in which something else is selected, or that is scrolled.
LEMMA ChangedFits ==
  ASSUME MenuAssumption, NEW l \in Shown, NEW k \in LevelType,
         k.menu = l.menu, k.fsb = l.fsb, k.x = l.x, k.y = l.y, k.h = l.h, l.fsb \/ k.off = l.off, k.sel <= Popup!u(l.menu),
         k.sel # 0 => Popup!Item(k, k.sel) # "separator" \/ Popup!Border(k)
  PROVE  k \in Shown
<1>1. Popup!OnScreen(k)
  BY DEF Popup!OnScreen, Shown
<1>2. QED
  BY <1>1 DEF Shown

\* What the keys select.
LEMMA SearchFits ==
  ASSUME MenuAssumption, NEW l \in Shown, NEW i \in {Popup!SearchForward(l), Popup!SearchBackward(l)}
  PROVE  i \in 1 .. Popup!u(l.menu) /\ (Popup!Item(l, i) # "separator" \/ i \in {1, Popup!u(l.menu)})
<1> DEFINE n == Popup!u(l.menu)
           after == {j \in (l.sel + 1) .. n : Popup!Item(l, j) # "separator"}
           before == {j \in 1 .. (l.sel - 1) : Popup!Item(l, j) # "separator"}
<1>1. l.menu \in DOMAIN Items /\ l.sel \in Nat /\ l.sel <= n
  BY DEF Shown, LevelType
<1>2. n \in Nat /\ n >= 1
  BY <1>1, HeightFits
<1> HIDE DEF n
<1>3. CASE i = Popup!SearchForward(l)
  <2>1. i = IF after = {} THEN 1 ELSE Popup!Min(after)
    BY <1>3 DEF Popup!SearchForward, n
  <2>2. after # {} => Min(after) \in after
    BY <1>1, <1>2, LeastPlace
  <2>3. Popup!Min(after) = Min(after)
    BY DEF Popup!Min, Min
  <2>4. QED
    BY <1>1, <1>2, <2>1, <2>2, <2>3 DEF n
<1>4. CASE i = Popup!SearchBackward(l)
  <2>1. i = IF before = {} THEN n ELSE Popup!Max(before)
    BY <1>4 DEF Popup!SearchBackward, n
  <2>2. before # {} => Max(before) \in before
    <3>1. before \in SUBSET (1 .. n)
      BY <1>1, <1>2
    <3> HIDE DEF before
    <3>2. QED
      BY <1>2, <3>1, GreatestPlace
  <2>3. Popup!Max(before) = Max(before)
    BY DEF Popup!Max, Max
  <2>4. QED
    BY <1>1, <1>2, <2>1, <2>2, <2>3 DEF n
<1>5. QED
  BY <1>3, <1>4

LEMMA TopFits ==
  ASSUME MenuInv, Popup!Open
  PROVE  /\ Len(levels) \in Nat /\ Len(levels) >= 1 /\ DOMAIN levels = 1 .. Len(levels)
         /\ levels[1] \in Shown /\ Popup!Top = levels[Len(levels)] /\ Popup!Top \in Shown
         /\ \A k \in 1 .. Len(levels) : levels[k] \in Shown
<1>1. levels \in Seq(Shown) /\ levels # <<>>
  BY DEF MenuInv, Popup!Open
<1>2. Len(levels) \in Nat /\ DOMAIN levels = 1 .. Len(levels) /\ Len(levels) # 0
  BY <1>1, LenProperties, EmptySeq
<1>3. \A k \in 1 .. Len(levels) : levels[k] \in Shown
  BY <1>1, ElementOfSeq
<1>4. QED
  BY <1>2, <1>3 DEF Popup!Top

\* The menu that takes input changes what it shows.
LEMMA SetTopStep ==
  ASSUME MenuAssumption, MenuInv, Popup!Open, NEW l \in Shown, l.menu = Popup!Top.menu, Popup!SetTop(l)
  PROVE  MenuInv'
<1> DEFINE n == Len(levels)
<1>1. /\ levels' = [levels EXCEPT ![n] = l]
      /\ result' = result /\ menu_quit' = menu_quit /\ chosen' = chosen
  BY DEF Popup!SetTop
<1>2. /\ n \in Nat /\ n >= 1 /\ DOMAIN levels = 1 .. n /\ levels[n] = Popup!Top
      /\ \A k \in 1 .. n : levels[k] \in Shown
  BY TopFits
<1>3. levels' \in Seq(Shown) /\ Len(levels') = n /\ levels'[n] = l /\ \A k \in 1 .. n : k # n => levels'[k] = levels[k]
  <2>1. levels \in [1 .. n -> Shown]
    BY <1>2, LenProperties DEF MenuInv
  <2> HIDE DEF n
  <2>2. levels' \in [1 .. n -> Shown] /\ levels'[n] = l /\ \A k \in 1 .. n : k # n => levels'[k] = levels[k]
    BY <1>1, <1>2, <2>1
  <2>3. QED
    BY <1>2, <2>2
<1> HIDE DEF n
<1>4. \A k \in 1 .. n : levels'[k].menu = levels[k].menu
  BY <1>2, <1>3
<1>5. Linked(levels')
  <2> SUFFICES ASSUME NEW k \in 1 .. n - 1
               PROVE  levels'[k].sel # 0 /\ levels'[k + 1].menu = Popup!Item(levels'[k], levels'[k].sel)
    BY <1>2, <1>3 DEF Linked
  <2>1. k \in 1 .. n /\ k # n /\ k + 1 \in 1 .. n
    BY <1>2
  <2>2. levels'[k] = levels[k] /\ levels'[k + 1].menu = levels[k + 1].menu
    BY <1>3, <1>4, <2>1
  <2>3. QED
    BY <2>2 DEF MenuInv, Linked, n
<1>6. levels # <<>> /\ levels'[1].menu = levels[1].menu
  BY <1>2, <1>4 DEF Popup!Open
<1>7. Popup!ToldIsChosen'
  BY <1>1 DEF MenuInv, Popup!ToldIsChosen
<1>8. QED
  BY <1>1, <1>3, <1>5, <1>6, <1>7 DEF MenuInv

\* What is selected in the last menu is below what is selected in any before it.
LEMMA PathBelow ==
  ASSUME MenuAssumption, MenuInv, Popup!Open, Popup!Top.sel # 0
  PROVE  /\ <<Popup!Top.menu, Popup!Top.sel>> \in Popup!Below(Root, levels[1].sel)
         /\ levels[1].sel # 0
<1> DEFINE n == Len(levels)
           c(k) == <<levels[k].menu, levels[k].sel>>
<1>1. /\ n \in Nat /\ n >= 1 /\ levels[n] = Popup!Top
      /\ \A k \in 1 .. n : levels[k] \in Shown
  BY TopFits
<1>2. \A k \in 1 .. n : levels[k].sel # 0
  BY <1>1 DEF MenuInv, Linked
<1>3. ASSUME NEW k \in 1 .. n
      PROVE  /\ levels[k].menu \in DOMAIN Items /\ levels[k].sel \in 1 .. Popup!u(levels[k].menu)
             /\ c(k) \in Popup!Rows
  <2>1. levels[k].menu \in DOMAIN Items /\ levels[k].sel \in Nat /\ levels[k].sel <= Popup!u(levels[k].menu)
        /\ levels[k].sel # 0
    BY <1>1, <1>2 DEF Shown, LevelType
  <2>2. Popup!u(levels[k].menu) \in Nat
    BY <2>1, HeightFits
  <2>3. QED
    BY <2>1, <2>2 DEF Popup!Rows
<1>4. ASSUME NEW S \in SUBSET Popup!Rows, <<Root, levels[1].sel>> \in S, Popup!HasSubmenus(S)
      PROVE  c(n) \in S
  <2> DEFINE P == {j \in 0 .. n - 1 : c(j + 1) \in S}
  <2>1. 0 \in P
    BY <1>1, <1>4 DEF MenuInv, Popup!Open
  <2>2. ASSUME NEW j \in 1 .. n - 1, j - 1 \in P PROVE j \in P
    <3>1. c(j) \in S /\ j \in 1 .. n /\ j + 1 \in 1 .. n
      BY <1>1, <2>2
    <3>2. levels[j + 1].menu = Items[levels[j].menu][levels[j].sel]
      BY <1>1 DEF MenuInv, Linked, Popup!Item
    <3>3. levels[j + 1].menu \in DOMAIN Items /\ levels[j + 1].sel \in 1 .. Popup!u(levels[j + 1].menu)
      BY <1>3, <3>1
    <3>4. {Items[c(j)[1]][c(j)[2]]} \X (1 .. Popup!u(Items[c(j)[1]][c(j)[2]])) \subseteq S
      BY <1>4, <3>1, <3>2, <3>3 DEF Popup!HasSubmenus
    <3>5. c(j + 1) \in S
      BY <3>2, <3>3, <3>4
    <3>6. QED
      BY <1>1, <3>5
  <2> HIDE DEF P
  <2>3. 0 .. n - 1 \subseteq P
    <3>1. n - 1 \in Nat
      BY <1>1
    <3>2. \A j \in 1 .. n - 1 : j - 1 \in P => j \in P
      BY <2>2
    <3> HIDE DEF n
    <3>3. QED
      BY <2>1, <3>1, <3>2, UpTo
  <2>4. n - 1 \in P
    BY <1>1, <2>3
  <2>5. n - 1 + 1 = n
    BY <1>1
  <2>6. QED
    BY <2>4, <2>5 DEF P
<1>5. c(n) \in Popup!Rows
  BY <1>1, <1>3
<1>6. QED
  BY <1>1, <1>2, <1>4, <1>5 DEF Popup!Below

\* The last menu ends: the menus before keep what they show, or are gone and have told their program.
LEMMA EndsStep ==
  ASSUME MenuAssumption, MenuInv, Popup!Open, NEW res \in Int, NEW jumpto \in Nat, Popup!Ends(res, jumpto),
         \/ res < 1 /\ (res \in {Popup!MPM_ESC, Popup!MPM_PREV} \/ menu_quit')
         \/ /\ res = Popup!Top.sel /\ res # 0 /\ chosen' = [menu |-> Popup!Top.menu, value |-> Popup!Top.sel]
            /\ Popup!Item(Popup!Top, Popup!Top.sel) \notin DOMAIN Items \cup {"disabled"}
  PROVE  MenuInv'
<1> DEFINE n == Len(levels)
           s == SubSeq(levels, 1, jumpto)
           l == [s[jumpto] EXCEPT !.quoteMouse = TRUE]
<1>1. /\ n \in Nat /\ n >= 1 /\ levels[1] \in Shown /\ Popup!Top = levels[n] /\ Popup!Top \in Shown
      /\ \A k \in 1 .. n : levels[k] \in Shown
      /\ levels \in Seq(Shown)
  BY TopFits DEF MenuInv
<1>2. Popup!Top.sel \in Nat /\ levels[1].sel \in Nat
  BY <1>1 DEF Shown, LevelType
<1>3. CASE res = Popup!MPM_PREV /\ jumpto \in 1 .. n - 1
  <2>1. levels' = [s EXCEPT ![jumpto].quoteMouse = TRUE] /\ result' = IF levels' = <<>> THEN result' ELSE [menu |-> Popup!Top.menu, value |-> res]
    BY <1>3 DEF Popup!Ends, Popup!Closed
  <2>2. s \in Seq(Shown) /\ Len(s) = jumpto /\ \A k \in 1 .. jumpto : s[k] = levels[k]
    BY <1>1, <1>3, SubSeqProperties
  <2> HIDE DEF n, s
  <2>3. s[jumpto] \in Shown /\ jumpto \in 1 .. jumpto
    BY <1>1, <1>3, <2>2
  <2>4. /\ l \in LevelType /\ l.menu = s[jumpto].menu /\ l.sel = s[jumpto].sel /\ l.fsb = s[jumpto].fsb /\ l.x = s[jumpto].x
        /\ l.y = s[jumpto].y /\ l.h = s[jumpto].h /\ l.off = s[jumpto].off
    BY <2>3 DEF Shown, LevelType
  <2>5. levels' = [s EXCEPT ![jumpto] = l]
    BY <2>1
  <2> HIDE DEF l
  <2>6. l.sel <= Popup!u(l.menu) /\ (l.sel # 0 => Popup!Item(l, l.sel) # "separator" \/ Popup!Border(l))
    BY <2>3, <2>4 DEF Shown, Popup!Item, Popup!Border
  <2>7. l \in Shown
    BY <2>3, <2>4, <2>6, ChangedFits
  <2>8. s \in [1 .. jumpto -> Shown]
    BY <2>2, LenProperties
  <2>9. levels' \in [1 .. jumpto -> Shown] /\ levels'[jumpto] = l /\ \A k \in 1 .. jumpto : k # jumpto => levels'[k] = s[k]
    BY <2>3, <2>5, <2>7, <2>8
  <2>10. levels' \in Seq(Shown) /\ Len(levels') = jumpto
    BY <2>9, LenProperties
  <2>11. levels' # <<>> /\ levels # <<>>
    BY <1>1, <1>3, <2>10 DEF Popup!Open
  <2>12. \A k \in 1 .. jumpto : levels'[k].menu = levels[k].menu /\ levels'[k].sel = levels[k].sel
    BY <2>2, <2>4, <2>9
  <2>13. Linked(levels')
    <3> SUFFICES ASSUME NEW k \in 1 .. jumpto - 1
                 PROVE  levels'[k].sel # 0 /\ levels'[k + 1].menu = Popup!Item(levels'[k], levels'[k].sel)
      BY <2>10 DEF Linked
    <3>1. k \in 1 .. jumpto /\ k + 1 \in 1 .. jumpto /\ k \in 1 .. n - 1
      BY <1>1, <1>3
    <3>2. levels[k].sel # 0 /\ levels[k + 1].menu = Popup!Item(levels[k], levels[k].sel)
      BY <3>1 DEF MenuInv, Linked, n
    <3>3. QED
      BY <2>12, <3>1, <3>2 DEF Popup!Item
  <2>14. levels'[1].menu = Root
    BY <1>1, <1>3, <2>11, <2>12 DEF MenuInv
  <2>15. result'.value = res /\ res < 1
    BY <1>3, <2>1, <2>11 DEF Popup!MPM_PREV
  <2>16. Popup!ToldIsChosen'
    BY <2>15 DEF Popup!ToldIsChosen
  <2>17. QED
    BY <2>10, <2>13, <2>14, <2>15, <2>16 DEF MenuInv
<1>4. CASE ~(res = Popup!MPM_PREV /\ jumpto \in 1 .. n - 1)
  <2> DEFINE v == IF res \in {Popup!MPM_PREV, Popup!MPM_ESC} \/ n = 1 THEN res ELSE levels[1].sel
  <2>1. levels' = <<>> /\ result' = [menu |-> Root, value |-> v]
    BY <1>4 DEF Popup!Ends, Popup!Closed
  <2>2. v \in Int
    BY <1>2
  <2>3. ASSUME v >= 1, ~menu_quit'
        PROVE  /\ <<chosen'.menu, chosen'.value>> \in Popup!Below(Root, v)
               /\ Items[chosen'.menu][chosen'.value] \notin DOMAIN Items \cup {"disabled"}
    <3>1. res = Popup!Top.sel /\ res # 0 /\ chosen' = [menu |-> Popup!Top.menu, value |-> Popup!Top.sel]
          /\ Popup!Item(Popup!Top, Popup!Top.sel) \notin DOMAIN Items \cup {"disabled"}
      BY <2>3
    <3>2. v = levels[1].sel
      <4>1. res \notin {Popup!MPM_PREV, Popup!MPM_ESC}
        BY <1>2, <3>1 DEF Popup!MPM_PREV, Popup!MPM_ESC
      <4>2. n = 1 => res = levels[1].sel
        BY <1>1, <3>1
      <4>3. QED
        BY <4>1, <4>2
    <3>3. <<Popup!Top.menu, Popup!Top.sel>> \in Popup!Below(Root, levels[1].sel)
      BY <3>1, PathBelow
    <3>4. QED
      BY <3>1, <3>2, <3>3 DEF Popup!Item
  <2> HIDE DEF v
  <2>4. Popup!ToldIsChosen'
    BY <2>1, <2>3 DEF Popup!ToldIsChosen
  <2>5. Linked(levels') /\ levels' \in Seq(Shown)
    BY <2>1 DEF Linked
  <2>6. QED
    BY <2>1, <2>2, <2>4, <2>5 DEF MenuInv
<1>5. QED
  BY <1>3, <1>4

LEMMA ShowStep ==
  ASSUME MenuAssumption, MenuInv, NEW p \in Points, NEW rb \in BOOLEAN, Popup!Show(p, rb)
  PROVE  MenuInv'
<1> DEFINE l == Popup!CalcSizeAlign(Root, p, rb)
<1>1. l \in Shown /\ l.menu = Root
  BY OpenedFits DEF MenuAssumption
<1>2. levels' = <<l>> /\ result'.value = 0
  BY DEF Popup!Show, Popup!Nothing
<1> HIDE DEF l
<1>3. levels' \in Seq(Shown) /\ Len(levels') = 1 /\ levels'[1] = l
  BY <1>1, <1>2
<1>4. Linked(levels')
  BY <1>3 DEF Linked
<1>5. Popup!ToldIsChosen'
  BY <1>2 DEF Popup!ToldIsChosen
<1>6. QED
  BY <1>1, <1>2, <1>3, <1>4, <1>5 DEF MenuInv

LEMMA ReturnStep ==
  ASSUME MenuAssumption, MenuInv, Popup!Return
  PROVE  MenuInv'
<1> DEFINE t == Popup!Top
           item == Popup!Item(t, t.sel)
           corner == [x |-> t.x + Width - 5, y |-> t.y + Popup!Y(t, t.sel)]
           l == Popup!CalcSizeAlign(item, corner, FALSE)
           n == Len(levels)
<1>1. Popup!Open /\ t.sel # 0 /\ item # "disabled" /\ chosen' = [menu |-> t.menu, value |-> t.sel]
  BY DEF Popup!Return
<1>2. \/ item \in DOMAIN Items /\ levels' = Append(levels, l) /\ result' = result
      \/ Popup!Ends(Popup!MPM_ESC, 0)
      \/ item \notin DOMAIN Items /\ Popup!Ends(t.sel, 0)
  BY DEF Popup!Return
<1>3. /\ n \in Nat /\ n >= 1 /\ t = levels[n] /\ t \in Shown /\ levels \in Seq(Shown) /\ levels # <<>>
      /\ \A k \in 1 .. n : levels[k] \in Shown
  BY <1>1, TopFits DEF MenuInv, Popup!Open
<1> HIDE DEF n
<1>4. CASE item \in DOMAIN Items /\ levels' = Append(levels, l) /\ result' = result
  <2>1. corner \in [x : Int, y : Int]
    <3>1. t.x \in Int /\ t.y \in Int /\ t.off \in Int /\ t.sel \in Nat /\ TS \in Nat /\ Width \in Nat
      BY <1>3 DEF Shown, LevelType, MenuAssumption
    <3>2. (t.sel - 1) * TS \in Int
      BY <3>1
    <3>3. QED
      BY <3>1, <3>2 DEF Popup!Y
  <2>2. l \in Shown /\ l.menu = item
    BY <1>4, <2>1, OpenedFits
  <2> HIDE DEF l
  <2>3. /\ levels' \in Seq(Shown) /\ Len(levels') = n + 1 /\ levels'[n + 1] = l
        /\ \A k \in 1 .. n : levels'[k] = levels[k]
    BY <1>3, <1>4, <2>2, AppendProperties DEF n
  <2>4. Linked(levels')
    <3> SUFFICES ASSUME NEW k \in 1 .. n
                 PROVE  levels'[k].sel # 0 /\ levels'[k + 1].menu = Popup!Item(levels'[k], levels'[k].sel)
      BY <1>3, <2>3 DEF Linked
    <3>1. CASE k = n
      BY <1>1, <1>3, <2>2, <2>3, <3>1
    <3>2. CASE k # n
      <4>1. k \in 1 .. n - 1 /\ k + 1 \in 1 .. n
        BY <1>3, <3>2
      <4>2. QED
        BY <2>3, <4>1 DEF MenuInv, Linked, n
    <3>3. QED
      BY <3>1, <3>2
  <2>5. levels'[1].menu = Root /\ result.value < 1 /\ result.value \in Int
    BY <1>3, <2>3 DEF MenuInv
  <2>6. Popup!ToldIsChosen'
    BY <1>4, <2>5 DEF Popup!ToldIsChosen
  <2>7. QED
    BY <1>4, <2>3, <2>4, <2>5, <2>6 DEF MenuInv
<1>5. CASE Popup!Ends(Popup!MPM_ESC, 0)
  <2>1. Popup!MPM_ESC \in Int /\ Popup!MPM_ESC < 1
    BY DEF Popup!MPM_ESC
  <2>2. QED
    BY <1>1, <1>5, <2>1, EndsStep
<1>6. CASE item \notin DOMAIN Items /\ Popup!Ends(t.sel, 0)
  <2>1. t.sel \in Int
    BY <1>3 DEF Shown, LevelType
  <2>2. QED
    BY <1>1, <1>6, <2>1, EndsStep
<1>7. QED
  BY <1>2, <1>4, <1>5, <1>6

LEMMA EscStep ==
  ASSUME MenuAssumption, MenuInv, Popup!Esc \/ Popup!LeftKey \/ Popup!KillFocus \/ Popup!Quit
  PROVE  MenuInv'
<1>1. Popup!Open
  BY DEF Popup!Esc, Popup!LeftKey, Popup!KillFocus, Popup!Quit
<1>2. Len(levels) \in Nat /\ Len(levels) >= 1
  BY <1>1, TopFits
<1>3. \/ \E res \in {Popup!MPM_ESC, Popup!MPM_PREV}, jumpto \in Nat : Popup!Ends(res, jumpto)
      \/ Popup!Ends(Popup!MPM_THREADWAIT, 0) /\ menu_quit'
  <2>1. CASE Popup!Esc
    BY <2>1 DEF Popup!Esc
  <2>2. CASE Popup!LeftKey
    <3>1. Popup!Ends(Popup!MPM_PREV, Len(levels) - 1) /\ Len(levels) - 1 \in Nat
      BY <1>2, <2>2 DEF Popup!LeftKey
    <3>2. QED
      BY <3>1
  <2>3. CASE Popup!KillFocus
    BY <1>2, <2>3 DEF Popup!KillFocus
  <2>4. CASE Popup!Quit
    BY <2>4 DEF Popup!Quit
  <2>5. QED
    BY <2>1, <2>2, <2>3, <2>4
<1>4. CASE \E res \in {Popup!MPM_ESC, Popup!MPM_PREV}, jumpto \in Nat : Popup!Ends(res, jumpto)
  <2>1. PICK res \in {Popup!MPM_ESC, Popup!MPM_PREV}, jumpto \in Nat : Popup!Ends(res, jumpto)
    BY <1>4
  <2>2. res \in Int /\ res < 1
    BY DEF Popup!MPM_ESC, Popup!MPM_PREV
  <2>3. QED
    BY <1>1, <2>1, <2>2, EndsStep
<1>5. CASE Popup!Ends(Popup!MPM_THREADWAIT, 0) /\ menu_quit'
  <2>1. Popup!MPM_THREADWAIT \in Int /\ Popup!MPM_THREADWAIT < 1
    BY DEF Popup!MPM_THREADWAIT
  <2>2. QED
    BY <1>1, <1>5, <2>1, EndsStep
<1>6. QED
  BY <1>3, <1>4, <1>5

\* An entry lies within the menu when nothing is scrolled.
LEMMA RowFits ==
  ASSUME NEW i \in Nat, NEW n \in Nat, NEW t \in Nat, i >= 1, i <= n
  PROVE  (i - 1) * t \in Nat /\ n * t \in Nat /\ (i - 1) * t + t <= n * t
<1>1. PICK d \in Nat : n = (i - 1) + 1 + d
  <2>1. n - i \in Nat /\ n = (i - 1) + 1 + (n - i)
    OBVIOUS
  <2>2. QED
    BY <2>1
<1>2. PICK j \in Nat : j = i - 1
  <2>1. i - 1 \in Nat
    OBVIOUS
  <2>2. QED
    BY <2>1
<1>3. j * t \in Nat /\ d * t \in Nat /\ (j + 1 + d) * t = j * t + t + d * t
  OBVIOUS
<1>4. n * t = j * t + t + d * t
  BY <1>1, <1>2, <1>3
<1>5. QED
  BY <1>2, <1>3, <1>4

\* What a key selects is in sight.
LEMMA KeyFits ==
  ASSUME MenuAssumption, NEW l \in Shown, NEW i \in {Popup!SearchForward(l), Popup!SearchBackward(l)}
  PROVE  LET k == Popup!KeyboardScroll([l EXCEPT !.sel = i])
         IN k \in Shown /\ k.menu = l.menu /\ k.sel = i /\ Popup!Y(k, k.sel) >= 0 /\ Popup!Y(k, k.sel) + TS <= k.h
<1> DEFINE n == Popup!u(l.menu)
           s == [l EXCEPT !.sel = i]
           k == Popup!KeyboardScroll(s)
<1>1. i \in 1 .. n /\ (Popup!Item(l, i) # "separator" \/ i \in {1, n})
  BY SearchFits
<1>2. n \in Nat /\ n >= 1 /\ l \in LevelType /\ TS \in Nat /\ Frame \in Nat /\ ScreenHeight \in Nat /\ 3 * TS <= ScreenHeight
  BY HeightFits DEF Shown, LevelType, MenuAssumption
<1>3. PICK a : a = (i - 1) * TS
  OBVIOUS
<1>4. a \in Nat /\ n * TS \in Nat /\ a + TS <= n * TS
  BY <1>1, <1>2, <1>3, RowFits
<1>5. /\ s \in LevelType /\ s.menu = l.menu /\ s.sel = i /\ s.fsb = l.fsb /\ s.x = l.x /\ s.y = l.y /\ s.h = l.h /\ s.off = l.off
  BY <1>1, <1>2 DEF LevelType
<1> HIDE DEF s
<1>6. \A x : x.sel = i => Popup!Y(x, x.sel) = a + x.off
  BY <1>3 DEF Popup!Y
<1>7. ASSUME NEW x \in LevelType, x.menu = l.menu, x.sel = i, x.fsb = l.fsb, x.x = l.x, x.y = l.y, x.h = l.h, l.fsb \/ x.off = l.off
      PROVE  x \in Shown
  <2>1. x.sel # 0 => Popup!Item(x, x.sel) # "separator" \/ Popup!Border(x)
    BY <1>1, <1>7 DEF Popup!Item, Popup!Border
  <2>2. x.sel <= Popup!u(x.menu)
    BY <1>1, <1>2, <1>7
  <2>3. QED
    BY <1>7, <2>1, <2>2, ChangedFits
<1>8. CASE ~l.fsb
  <2>1. k = s
    BY <1>5, <1>8 DEF Popup!KeyboardScroll
  <2>2. l.off = 0 /\ l.h = n * TS + Frame
    BY <1>8 DEF Shown
  <2>3. s \in Shown
    BY <1>5, <1>7
  <2>4. Popup!Y(s, s.sel) = a
    BY <1>4, <1>5, <1>6, <2>2
  <2>5. PICK m \in Nat : m = n * TS
    BY <1>4
  <2>6. Popup!Y(s, s.sel) >= 0 /\ Popup!Y(s, s.sel) + TS <= s.h
    BY <1>2, <1>4, <1>5, <2>2, <2>4, <2>5
  <2> HIDE DEF k
  <2>7. QED
    BY <1>5, <2>1, <2>3, <2>6 DEF k, s
<1>9. CASE l.fsb
  <2>1. l.h = ScreenHeight /\ l.off \in Int
    BY <1>2, <1>9 DEF Shown, LevelType
  <2>2. Popup!Y(s, s.sel) = a + l.off
    BY <1>5, <1>6
  <2>3. /\ a + l.off <= 2 * TS => k = [s EXCEPT !.off = 2 * TS - a]
        /\ ~(a + l.off <= 2 * TS) /\ a + l.off >= l.h - 2 * TS => k = [s EXCEPT !.off = l.h - 2 * TS - a]
        /\ ~(a + l.off <= 2 * TS) /\ ~(a + l.off >= l.h - 2 * TS) => k = s
    BY <1>3, <1>5, <1>9, <2>2 DEF Popup!KeyboardScroll
  <2> HIDE DEF k, n
  <2>4. \E off \in Int : /\ k = [s EXCEPT !.off = off] /\ a + off >= 0 /\ a + off + TS <= ScreenHeight
    <3>1. CASE a + l.off <= 2 * TS
      <4> DEFINE off == 2 * TS - a
      <4>1. k = [s EXCEPT !.off = off] /\ off \in Int /\ a + off = 2 * TS
        BY <1>2, <1>4, <2>3, <3>1
      <4>2. a + off >= 0 /\ a + off + TS <= ScreenHeight
        BY <1>2, <4>1
      <4>3. QED
        BY <4>1, <4>2
    <3>2. CASE ~(a + l.off <= 2 * TS) /\ a + l.off >= l.h - 2 * TS
      <4> DEFINE off == l.h - 2 * TS - a
      <4>1. k = [s EXCEPT !.off = off] /\ off \in Int /\ a + off = ScreenHeight - 2 * TS
        BY <1>2, <1>4, <2>1, <2>3, <3>2
      <4>2. a + off >= 0 /\ a + off + TS <= ScreenHeight
        BY <1>2, <4>1
      <4>3. QED
        BY <4>1, <4>2
    <3>3. CASE ~(a + l.off <= 2 * TS) /\ ~(a + l.off >= l.h - 2 * TS)
      <4>1. k = [s EXCEPT !.off = l.off]
        BY <1>5, <2>3, <3>3 DEF LevelType
      <4>2. a + l.off >= 0 /\ a + l.off + TS <= ScreenHeight
        BY <1>2, <1>4, <2>1, <3>3
      <4>3. QED
        BY <2>1, <4>1, <4>2
    <3>4. QED
      BY <3>1, <3>2, <3>3
  <2>5. PICK off \in Int : k = [s EXCEPT !.off = off] /\ a + off >= 0 /\ a + off + TS <= ScreenHeight
    BY <2>4
  <2>6. /\ k \in LevelType /\ k.menu = l.menu /\ k.sel = i /\ k.fsb = l.fsb /\ k.x = l.x /\ k.y = l.y /\ k.h = l.h /\ k.off = off
    BY <1>5, <2>5 DEF LevelType
  <2>7. k \in Shown
    BY <1>7, <1>9, <2>6
  <2>8. Popup!Y(k, k.sel) = a + off
    BY <1>6, <2>6
  <2>9. QED
    BY <2>1, <2>5, <2>6, <2>7, <2>8 DEF k, s
<1>10. QED
  BY <1>8, <1>9

LEMMA KeyStep ==
  ASSUME MenuAssumption, MenuInv, Popup!UpKey \/ Popup!DownKey
  PROVE  MenuInv' /\ Popup!SeenAfterKey
<1> DEFINE t == Popup!Top
           n == Len(levels)
           seen(k) == k \in Shown /\ k.menu = t.menu /\ Popup!Y(k, k.sel) >= 0 /\ Popup!Y(k, k.sel) + TS <= k.h
<1>1. Popup!Open
  BY DEF Popup!UpKey, Popup!DownKey
<1>2. /\ n \in Nat /\ n >= 1 /\ DOMAIN levels = 1 .. n /\ t \in Shown /\ levels \in Seq(Shown)
  BY <1>1, TopFits DEF MenuInv
<1>3. PICK i \in {Popup!SearchForward(t), Popup!SearchBackward(t)} :
        Popup!SetTop(Popup!KeyboardScroll([t EXCEPT !.sel = i]))
  BY DEF Popup!UpKey, Popup!DownKey
<1>4. PICK k : k = Popup!KeyboardScroll([t EXCEPT !.sel = i])
  OBVIOUS
<1>5. seen(k) /\ Popup!SetTop(k)
  BY <1>2, <1>3, <1>4, KeyFits
<1>6. MenuInv'
  BY <1>1, <1>5, SetTopStep
<1>7. levels' = [levels EXCEPT ![n] = k]
  BY <1>5 DEF Popup!SetTop
<1>8. levels'[n] = k /\ Len(levels') = n
  <2>1. levels \in [1 .. n -> Shown]
    BY <1>2, LenProperties
  <2> HIDE DEF n
  <2>2. levels' \in [1 .. n -> Shown] /\ levels'[n] = k
    BY <1>2, <1>5, <1>7, <2>1
  <2>3. QED
    BY <1>2, <2>2, LenProperties
<1>9. Popup!SeenAfterKey
  BY <1>5, <1>8 DEF Popup!SeenAfterKey
<1>10. QED
  BY <1>6, <1>9

\* The mouse selects what it points to, and scrolls a menu that is too high.
LEMMA MouseStep ==
  ASSUME MenuAssumption, MenuInv, NEW y \in Int, Popup!MouseMove(y)
  PROVE  MenuInv'
<1> DEFINE t == Popup!Top
<1>1. Popup!Open /\ t \in Shown
  BY TopFits DEF Popup!MouseMove
<1>2. t \in LevelType /\ t.menu \in DOMAIN Items /\ Popup!u(t.menu) \in Nat /\ TS \in Nat /\ t.off \in Int
  BY <1>1, HeightFits DEF Shown, LevelType, MenuAssumption
<1>3. PICK off : /\ Popup!SetTop([t EXCEPT !.off = off, !.sel = Popup!Pointed([t EXCEPT !.off = off], y)])
                 /\ off \in Int /\ (t.fsb \/ off = t.off)
  <2> DEFINE quarter == (Popup!u(t.menu) + 2) \div 4
             rate == IF quarter = 0 THEN 10 ELSE quarter
             bottom == t.h - 5 - Popup!u(t.menu) * TS
             Far(way) == rate * ((way + rate - 1) \div rate)
             scrolled == IF t.fsb /\ y <= 10 /\ t.off < 0 THEN {t.off, t.off + rate, t.off + Far(-t.off)}
                         ELSE IF t.fsb /\ y >= t.h - 15 /\ t.off > bottom
                         THEN {t.off, t.off - rate, t.off - Far(t.off - bottom)}
                         ELSE {t.off}
  <2>1. PICK off \in scrolled : Popup!SetTop([t EXCEPT !.off = off, !.sel = Popup!Pointed([t EXCEPT !.off = off], y)])
    BY DEF Popup!MouseMove
  <2>2. rate \in Int /\ rate > 0
    BY <1>2
  <2>3. bottom \in Int
    <3>1. PICK m \in Nat : m = Popup!u(t.menu)
      BY <1>2
    <3>2. m * TS \in Int /\ t.h \in Int
      BY <1>2 DEF LevelType
    <3>3. QED
      BY <3>1, <3>2
  <2> HIDE DEF rate, bottom
  <2>4. \A way \in Int : Far(way) \in Int
    <3> TAKE way \in Int
    <3>1. PICK d \in Int : d = (way + rate - 1) \div rate
      BY <2>2
    <3>2. rate * d \in Int
      BY <2>2
    <3>3. QED
      BY <3>1, <3>2
  <2> HIDE DEF Far
  <2>5. off \in Int /\ (t.fsb \/ off = t.off)
    BY <1>2, <2>1, <2>2, <2>3, <2>4
  <2>6. QED
    BY <2>1, <2>5
<1> DEFINE s == [t EXCEPT !.off = off]
           i == Popup!Pointed(s, y)
           k == [t EXCEPT !.off = off, !.sel = i]
           hit == {j \in 1 .. Popup!u(s.menu) : Popup!Y(s, j) <= y /\ y <= Popup!Y(s, j) + TS}
<1>4. s.menu = t.menu
  BY <1>2 DEF LevelType
<1>5. i = 0 \/ (i \in 1 .. Popup!u(t.menu) /\ Popup!Item(t, i) # "separator")
  <2>1. i = IF hit = {} \/ Popup!Item(s, Popup!Min(hit)) = "separator" THEN 0 ELSE Popup!Min(hit)
    BY DEF Popup!Pointed
  <2>2. hit # {} => Min(hit) \in hit
    <3>1. hit \in SUBSET Nat
      BY <1>2, <1>4
    <3> HIDE DEF hit
    <3>2. QED
      BY <3>1, LeastPlace
  <2>3. Popup!Min(hit) = Min(hit)
    BY DEF Popup!Min, Min
  <2>4. \A j : Popup!Item(s, j) = Popup!Item(t, j)
    BY <1>4 DEF Popup!Item
  <2>5. hit \subseteq 1 .. Popup!u(t.menu)
    BY <1>4
  <2> HIDE DEF hit, i, s
  <2>6. QED
    BY <2>1, <2>2, <2>3, <2>4, <2>5
<1>6. Popup!SetTop(k)
  BY <1>3
<1> HIDE DEF i, s
<1>7. i \in Nat /\ i <= Popup!u(t.menu)
  BY <1>2, <1>5
<1>8. /\ k \in LevelType /\ k.menu = t.menu /\ k.fsb = t.fsb /\ k.x = t.x /\ k.y = t.y /\ k.h = t.h /\ k.sel = i /\ k.off = off
  BY <1>2, <1>3, <1>7 DEF LevelType
<1> HIDE DEF k
<1>9. k.sel # 0 => Popup!Item(k, k.sel) # "separator" \/ Popup!Border(k)
  BY <1>5, <1>8 DEF Popup!Item
<1>10. k \in Shown
  BY <1>1, <1>3, <1>7, <1>8, <1>9, ChangedFits
<1>11. QED
  BY <1>1, <1>6, <1>8, <1>10, SetTopStep

LEMMA MouseUpStep ==
  ASSUME MenuAssumption, MenuInv, Popup!MouseUp
  PROVE  MenuInv'
<1> DEFINE t == Popup!Top
           k == [t EXCEPT !.quoteMouse = FALSE]
<1>1. Popup!Open /\ t \in Shown
  BY TopFits DEF Popup!MouseUp
<1>2. CASE Popup!SetTop(k)
  <2>1. /\ k \in LevelType /\ k.menu = t.menu /\ k.fsb = t.fsb /\ k.x = t.x /\ k.y = t.y /\ k.h = t.h /\ k.sel = t.sel
        /\ k.off = t.off
    BY <1>1 DEF Shown, LevelType
  <2> HIDE DEF k
  <2>2. k.sel <= Popup!u(k.menu) /\ (k.sel # 0 => Popup!Item(k, k.sel) # "separator" \/ Popup!Border(k))
    BY <1>1, <2>1 DEF Shown, Popup!Item, Popup!Border
  <2>3. k \in Shown
    BY <1>1, <2>1, <2>2, ChangedFits
  <2>4. QED
    BY <1>1, <1>2, <2>1, <2>3, SetTopStep
<1>3. CASE Popup!Return
  BY <1>3, ReturnStep
<1>4. QED
  BY <1>2, <1>3 DEF Popup!MouseUp

\* A menu lies on the screen, shows what the keys select, and tells its program what the user has
\* chosen, through any number of submenus, for any entries, sizes and places (MegaPopup::Show,
\* CalcSizeAlign, KeyDown, KeyboardScroll).
THEOREM MenusTellChoice ==
  ASSUME MenuAssumption
  PROVE  Popup!Spec => MenuTellsChoice
<1>1. Popup!Init => MenuInv
  <2> SUFFICES ASSUME Popup!Init PROVE MenuInv
    OBVIOUS
  <2>1. levels = <<>> /\ result.value = 0
    BY DEF Popup!Init, Popup!Nothing
  <2>2. levels \in Seq(Shown) /\ Linked(levels)
    BY <2>1 DEF Linked
  <2>3. Popup!ToldIsChosen
    BY <2>1 DEF Popup!ToldIsChosen
  <2>4. QED
    BY <2>1, <2>2, <2>3 DEF MenuInv
<1>2. MenuInv /\ [Popup!Next]_menuVars => MenuInv'
  <2> SUFFICES ASSUME MenuInv, [Popup!Next]_menuVars PROVE MenuInv'
    OBVIOUS
  <2>1. CASE \E p \in Points, rb \in BOOLEAN : Popup!Show(p, rb)
    BY <2>1, ShowStep
  <2>2. CASE Popup!Esc \/ Popup!LeftKey \/ Popup!KillFocus \/ Popup!Quit
    BY <2>2, EscStep
  <2>3. CASE Popup!Return \/ Popup!MouseUp
    BY <2>3, ReturnStep, MouseUpStep
  <2>4. CASE Popup!UpKey \/ Popup!DownKey
    BY <2>4, KeyStep
  <2>5. CASE \E y \in {k * TS + TS \div 2 : k \in 0 .. (ScreenHeight \div TS)} : Popup!MouseMove(y)
    <3>1. PICK k \in 0 .. (ScreenHeight \div TS) : Popup!MouseMove(k * TS + TS \div 2)
      BY <2>5
    <3>2. TS \in Nat \ {0} /\ ScreenHeight \in Nat
      BY DEF MenuAssumption
    <3>3. k \in Int /\ TS \div 2 \in Int
      BY <3>2
    <3>4. k * TS + TS \div 2 \in Int
      BY <3>2, <3>3
    <3>5. QED
      BY <3>1, <3>4, MouseStep
  <2>6. CASE UNCHANGED menuVars
    BY <2>6 DEF menuVars, MenuInv, Popup!ToldIsChosen
  <2>7. QED
    BY <2>1, <2>2, <2>3, <2>4, <2>5, <2>6 DEF Popup!Next
<1>3. MenuInv => Popup!MenusAreSound /\ Popup!ToldIsChosen
  <2> SUFFICES ASSUME MenuInv PROVE Popup!MenusAreSound
    BY DEF MenuInv
  <2>1. Len(levels) \in Nat /\ DOMAIN levels = 1 .. Len(levels) /\ \A k \in 1 .. Len(levels) : levels[k] \in Shown
    BY LenProperties, ElementOfSeq DEF MenuInv
  <2>2. ASSUME NEW k \in DOMAIN levels
        PROVE  LET l == levels[k]
               IN /\ Popup!OnScreen(l)
                  /\ l.sel # 0 => Popup!Item(l, l.sel) # "separator" \/ Popup!Border(l)
                  /\ k < Len(levels) => levels[k + 1].menu = Popup!Item(l, l.sel)
    <3>1. levels[k] \in Shown
      BY <2>1
    <3>2. k < Len(levels) => k \in 1 .. Len(levels) - 1
      BY <2>1
    <3>3. QED
      BY <3>1, <3>2 DEF Shown, MenuInv, Linked
  <2>3. QED
    BY <2>2 DEF Popup!MenusAreSound
<1>4. MenuInv /\ [Popup!Next]_menuVars => [Popup!SeenAfterKey]_menuVars
  <2> SUFFICES ASSUME MenuInv PROVE Popup!SeenAfterKey
    OBVIOUS
  <2>1. CASE Popup!UpKey \/ Popup!DownKey
    BY <2>1, KeyStep
  <2>2. CASE ~(Popup!UpKey \/ Popup!DownKey)
    BY <2>2 DEF Popup!SeenAfterKey
  <2>3. QED
    BY <2>1, <2>2
<1>5. QED
  BY <1>1, <1>2, <1>3, <1>4, PTL DEF Popup!Spec, MenuTellsChoice, Popup!MenuTellsChoice, Popup!menuVars, menuVars
=============================================================================
