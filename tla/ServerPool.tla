----------------------------- MODULE ServerPool -----------------------------
(***************************************************************************)
(* The accept loop and the workers that the three servers of the service   *)
(* share (Main and Server_Worker of src/Winsuite_Server.cpp; the same code *)
(* stands in Syslog_Server.cpp and NetMsg_Server.cpp), with the            *)
(* ThreadManager (src/Modules/Process.cpp) that keeps their threads.       *)
(*                                                                         *)
(* For each client the main thread accepts, it appends the new socket to   *)
(* netclients and starts a worker, which is not told its socket: it takes  *)
(* the last entry of netclients.  The main thread sleeps 500 ms to give it *)
(* the time.  A worker that ends removes its entry, closes its socket and  *)
(* leaves the thread manager.  At shutdown the main thread closes every    *)
(* socket in netclients, to wake the workers, and awaits them.             *)
(*                                                                         *)
(* A SOCKET is a number the operating system gives out again once it is    *)
(* closed, also to the other servers in the process.  What a worker does   *)
(* with the messages it receives is left out here.                         *)
(***************************************************************************)
EXTENDS Integers, Sequences, FiniteSets, SequencesExt

CONSTANTS
  Clients,        \* connection attempts; a worker is named for the one it was started for
  Handles,        \* the values a SOCKET can have
  Free,           \* holder of a value that denotes no open socket
  Elsewhere,      \* holder of a socket of another server in the process
  NoSocket,       \* the 0 of an unallocated csocket
  MaxThreadFails  \* bound: failures of CreateThread

ASSUME PoolAssumption ==
  /\ IsFiniteSet(Clients)
  /\ Free \notin Clients /\ Elsewhere \notin Clients /\ Free # Elsewhere
  /\ NoSocket \notin Handles
  /\ MaxThreadFails \in Nat

VARIABLES
  request,    \* what has become of each connection attempt
  hungup,     \* the clients whose end of the connection is closed
  holder,     \* which socket each SOCKET value denotes
  netclients, \* the sockets of the connected clients
  main,       \* where the server's main thread is
  newclient,  \* the client accepted last
  closing,    \* the loop counter of the shutdown
  signal_server_shutdown,
  quit,       \* WM_QUIT waits for the main thread
  tmc,        \* the workers the thread manager holds
  lost,       \* entries of the thread manager for threads that never came to be
  worker,     \* where each worker is
  idx,        \* netclients.Ubound() as the worker has read it
  client      \* the SOCKET in the worker's csocket

network == <<request, hungup, holder>>
mainVars == <<main, newclient, closing, signal_server_shutdown>>
threads == <<tmc, lost>>
workerVars == <<worker, idx, client>>
vars == <<network, netclients, mainVars, quit, threads, workerVars>>

MainStates   == {"loop", "start", "register", "nap", "quitting", "closing", "await", "done", "dead"}
WorkerStates == {"none", "ubound", "index", "loop", "recv", "remove", "close", "unmanage", "gone"}

TypeOK ==
  /\ request \in [Clients -> {"none", "waiting", "accepted", "refused"}]
  /\ hungup \in SUBSET Clients
  /\ holder \in [Handles -> Clients \cup {Free, Elsewhere}]
  /\ netclients \in Seq(Handles)
  /\ main \in MainStates
  /\ newclient \in Clients \cup {Free}
  /\ closing \in Nat
  /\ signal_server_shutdown \in BOOLEAN
  /\ quit \in BOOLEAN
  /\ tmc \in SUBSET Clients
  /\ lost \in 0 .. MaxThreadFails
  /\ worker \in [Clients -> WorkerStates]
  /\ idx \in [Clients -> Nat]
  /\ client \in [Clients -> Handles \cup {NoSocket}]

Init ==
  /\ request = [c \in Clients |-> "none"]
  /\ hungup = {}
  /\ holder = [h \in Handles |-> Free]
  /\ netclients = <<>>
  /\ main = "loop" /\ newclient = Free /\ closing = 1
  /\ signal_server_shutdown = FALSE /\ quit = FALSE
  /\ tmc = {} /\ lost = 0
  /\ worker = [c \in Clients |-> "none"]
  /\ idx = [c \in Clients |-> 0]
  /\ client = [c \in Clients |-> NoSocket]

-----------------------------------------------------------------------------
(* The main thread of the server.  A definition with a suffix is a faulty variant of the *)
(* one after it.                                                                         *)

\* accept gives a SOCKET value that is free; the entry is appended under cs.
Accept(c, h) ==
  /\ main = "loop" /\ request[c] = "waiting" /\ holder[h] = Free
  /\ request' = [request EXCEPT ![c] = "accepted"]
  /\ holder' = [holder EXCEPT ![h] = c]
  /\ netclients' = Append(netclients, h)
  /\ newclient' = c
  /\ main' = "start"
  /\ UNCHANGED <<hungup, closing, signal_server_shutdown, quit, threads, workerVars>>

\* NewThread enters the thread manager's critical section and creates the thread.
CreateThread ==
  /\ main = "start"
  /\ main' = "register"
  /\ worker' = [worker EXCEPT ![newclient] = "ubound"]
  /\ UNCHANGED <<network, netclients, newclient, closing, signal_server_shutdown, quit, threads, idx, client>>

CreateThreadFails ==
  /\ main = "start" /\ lost < MaxThreadFails
  /\ main' = "register"
  /\ UNCHANGED <<network, netclients, newclient, closing, signal_server_shutdown, quit, threads, workerVars>>

\* NewThread enters the thread id, even if there is no thread, and leaves.
NewThread ==
  /\ main = "register"
  /\ main' = "nap"
  /\ IF worker[newclient] # "none"
       THEN tmc' = tmc \cup {newclient} /\ UNCHANGED lost
       ELSE lost' = lost + 1 /\ UNCHANGED tmc
  /\ UNCHANGED <<network, netclients, newclient, closing, signal_server_shutdown, quit, workerVars>>

NapEnds_TooShort ==
  /\ main = "nap"
  /\ main' = "loop"
  /\ UNCHANGED <<network, netclients, newclient, closing, signal_server_shutdown, quit, threads, workerVars>>

\* Sleep (500), which the workers' comment takes to be long enough to take the socket.
NapEnds ==
  /\ main = "nap"
  /\ worker[newclient] \notin {"ubound", "index"}
  /\ main' = "loop"
  /\ UNCHANGED <<network, netclients, newclient, closing, signal_server_shutdown, quit, threads, workerVars>>

\* WM_QUIT: workers are told first, then the listening socket is closed.
Quit ==
  /\ main = "loop" /\ quit
  /\ main' = "quitting"
  /\ signal_server_shutdown' = TRUE
  /\ request' = [c \in Clients |-> IF request[c] = "waiting" THEN "refused" ELSE request[c]]
  /\ UNCHANGED <<hungup, holder, netclients, newclient, closing, quit, threads, workerVars>>

\* closesocket on a SOCKET value: it has no effect if the value is not in use.
Closed(h) == [holder EXCEPT ![h] = Free]

\* cs is held from here on.
EnterShutdown ==
  /\ main = "quitting"
  /\ main' = "closing"
  /\ UNCHANGED <<network, netclients, newclient, closing, signal_server_shutdown, quit, threads, workerVars>>

CloseNext_SkipsLast ==
  /\ main = "closing"
  /\ IF closing < Len(netclients)
       THEN /\ holder' = Closed(netclients[closing])
            /\ closing' = closing + 1
            /\ UNCHANGED main
       ELSE main' = "await" /\ UNCHANGED <<holder, closing>>
  /\ UNCHANGED <<request, hungup, netclients, newclient, signal_server_shutdown, quit, threads, workerVars>>

\* A pseudo csocket takes the next client's socket and closes it.
CloseNext ==
  /\ main = "closing"
  /\ IF closing <= Len(netclients)
       THEN /\ holder' = Closed(netclients[closing])
            /\ closing' = closing + 1
            /\ UNCHANGED main
       ELSE main' = "await" /\ UNCHANGED <<holder, closing>>
  /\ UNCHANGED <<request, hungup, netclients, newclient, signal_server_shutdown, quit, threads, workerVars>>

tmc_count == Cardinality(tmc) + lost

AwaitShutdown_NoWait ==
  /\ main = "await"
  /\ main' = "done"
  /\ UNCHANGED <<network, netclients, newclient, closing, signal_server_shutdown, quit, threads, workerVars>>

AwaitShutdown ==
  /\ main = "await" /\ tmc_count = 0
  /\ main' = "done"
  /\ UNCHANGED <<network, netclients, newclient, closing, signal_server_shutdown, quit, threads, workerVars>>

-----------------------------------------------------------------------------
(* A worker. *)

\* netclients[netclients.Ubound()] is two calls, and cs is not held between them.
ReadUbound(c) ==
  /\ worker[c] = "ubound"
  /\ worker' = [worker EXCEPT ![c] = "index"]
  /\ idx' = [idx EXCEPT ![c] = Len(netclients)]
  /\ UNCHANGED <<network, netclients, mainVars, quit, threads, client>>

Take(c) ==
  /\ worker[c] = "index" /\ idx[c] \in 1 .. Len(netclients)
  /\ worker' = [worker EXCEPT ![c] = "loop"]
  /\ client' = [client EXCEPT ![c] = netclients[idx[c]]]
  /\ UNCHANGED <<network, netclients, mainVars, quit, threads, idx>>

\* The index is out of range by now: FatalAppExit ("... Access Violation") ends the process.
TakeFails(c) ==
  /\ worker[c] = "index" /\ idx[c] > Len(netclients)
  /\ main' = "dead"
  /\ worker' = [d \in Clients |-> "gone"]
  /\ client' = [d \in Clients |-> NoSocket]
  /\ holder' = [h \in Handles |-> Free]
  /\ netclients' = <<>>
  /\ tmc' = {} /\ lost' = 0
  /\ UNCHANGED <<request, hungup, newclient, closing, signal_server_shutdown, quit, idx>>

\* while (!signal_server_shutdown)
LoopCondition(c) ==
  /\ worker[c] = "loop"
  /\ worker' = [worker EXCEPT ![c] = IF signal_server_shutdown THEN "remove" ELSE "recv"]
  /\ UNCHANGED <<network, netclients, mainVars, quit, threads, idx, client>>

\* EnterReceiveLoop blocks on whatever the SOCKET value denotes.
Source(c) == holder[client[c]]

ClientClosed_Missed(c) ==
  /\ worker[c] = "recv" /\ Source(c) \in hungup
  /\ worker' = [worker EXCEPT ![c] = "loop"]
  /\ UNCHANGED <<network, netclients, mainVars, quit, threads, idx, client>>

\* It reports that the client has closed the connection.
ClientClosed(c) ==
  /\ worker[c] = "recv" /\ Source(c) \in hungup
  /\ worker' = [worker EXCEPT ![c] = "remove"]
  /\ UNCHANGED <<network, netclients, mainVars, quit, threads, idx, client>>

\* The socket has been closed by the main thread: an error, the loop goes on.
RecvFails(c) ==
  /\ worker[c] = "recv" /\ Source(c) = Free
  /\ worker' = [worker EXCEPT ![c] = "loop"]
  /\ UNCHANGED <<network, netclients, mainVars, quit, threads, idx, client>>

\* A message comes; a wrong AUTH ends the worker.
MessageArrives(c) ==
  /\ worker[c] = "recv" /\ Source(c) \notin hungup \cup {Free}
  /\ worker' \in {[worker EXCEPT ![c] = "loop"], [worker EXCEPT ![c] = "remove"]}
  /\ UNCHANGED <<network, netclients, mainVars, quit, threads, idx, client>>

RemoveEntry_AfterClose(c) ==
  /\ worker[c] = "remove" /\ main # "closing"
  /\ worker' = [worker EXCEPT ![c] = "unmanage"]
  /\ holder' = Closed(client[c])
  /\ client' = [client EXCEPT ![c] = NoSocket]
  /\ UNCHANGED <<request, hungup, netclients, mainVars, quit, threads, idx>>

\* Where the loop over netclients finds this worker's SOCKET value.
IsFirstEntry(i, c) ==
  /\ netclients[i] = client[c]
  /\ \A j \in 1 .. i - 1 : netclients[j] # client[c]

\* That entry goes; cs must be free.
RemoveEntry(c) ==
  /\ worker[c] = "remove" /\ main # "closing"
  /\ worker' = [worker EXCEPT ![c] = "close"]
  /\ IF \E i \in 1 .. Len(netclients) : IsFirstEntry(i, c)
       THEN \E i \in 1 .. Len(netclients) :
              IsFirstEntry(i, c) /\ netclients' = RemoveAt(netclients, i)
       ELSE UNCHANGED netclients
  /\ UNCHANGED <<network, mainVars, quit, threads, idx, client>>

\* client.Close: the SOCKET value is closed, whatever it denotes by now.
Close(c) ==
  /\ worker[c] = "close"
  /\ worker' = [worker EXCEPT ![c] = "unmanage"]
  /\ holder' = Closed(client[c])
  /\ client' = [client EXCEPT ![c] = NoSocket]
  /\ UNCHANGED <<request, hungup, netclients, mainVars, quit, threads, idx>>

RemoveThread_NoWait(c) ==
  /\ worker[c] = "unmanage"
  /\ worker' = [worker EXCEPT ![c] = "gone"]
  /\ tmc' = tmc \ {c}
  /\ UNCHANGED <<network, netclients, mainVars, quit, lost, idx, client>>

\* Waits for the thread manager's critical section, which NewThread holds meanwhile.
RemoveThread(c) ==
  /\ worker[c] = "unmanage" /\ main # "register"
  /\ worker' = [worker EXCEPT ![c] = "gone"]
  /\ tmc' = tmc \ {c}
  /\ UNCHANGED <<network, netclients, mainVars, quit, lost, idx, client>>

-----------------------------------------------------------------------------
(* The clients, the other servers of the process and the service. *)

Connect(c) ==
  /\ request[c] = "none" /\ ~signal_server_shutdown
  /\ request' = [request EXCEPT ![c] = "waiting"]
  /\ UNCHANGED <<hungup, holder, netclients, mainVars, quit, threads, workerVars>>

\* The end of the connection reaches the server, after all that was sent on it.
HangUp(c) ==
  /\ request[c] \in {"waiting", "accepted"} /\ c \notin hungup
  /\ hungup' = hungup \cup {c}
  /\ UNCHANGED <<request, holder, netclients, mainVars, quit, threads, workerVars>>

OpenElsewhere(h) ==
  /\ main # "dead" /\ holder[h] = Free
  /\ holder' = [holder EXCEPT ![h] = Elsewhere]
  /\ UNCHANGED <<request, hungup, netclients, mainVars, quit, threads, workerVars>>

CloseElsewhere(h) ==
  /\ holder[h] = Elsewhere
  /\ holder' = Closed(h)
  /\ UNCHANGED <<request, hungup, netclients, mainVars, quit, threads, workerVars>>

\* ntsvc_ServiceMain posts WM_QUIT.
PostQuit ==
  /\ ~quit
  /\ quit' = TRUE
  /\ UNCHANGED <<network, netclients, mainVars, threads, workerVars>>

-----------------------------------------------------------------------------
Main == \/ \E c \in Clients, h \in Handles : Accept(c, h)
        \/ CreateThread \/ CreateThreadFails \/ NewThread \/ NapEnds
        \/ Quit \/ EnterShutdown \/ CloseNext \/ AwaitShutdown

Server_Worker(c) == \/ ReadUbound(c) \/ Take(c) \/ TakeFails(c) \/ LoopCondition(c)
                    \/ ClientClosed(c) \/ RecvFails(c)
                    \/ RemoveEntry(c) \/ Close(c) \/ RemoveThread(c)

Environment == \/ \E c \in Clients : Connect(c) \/ HangUp(c) \/ MessageArrives(c)
               \/ \E h \in Handles : OpenElsewhere(h) \/ CloseElsewhere(h)
               \/ PostQuit

Next == Main \/ (\E c \in Clients : Server_Worker(c)) \/ Environment

\* The threads run; clients need not say anything.
Fairness == WF_vars(Main) /\ \A c \in Clients : WF_vars(Server_Worker(c))

Spec == Init /\ [][Next]_vars
FairSpec == Spec /\ Fairness

-----------------------------------------------------------------------------
(* What the servers rely on. *)

HasSocket(c) == worker[c] \in {"loop", "recv", "remove", "close"}

\* Until the shutdown each worker serves the connection it was started for, although it
\* was not told which, and closes no socket but that (Take, RemoveEntry, Close).
ServesItsOwn ==
  main \notin {"closing", "await", "done", "dead"} =>
    \A c \in Clients : HasSocket(c) => Source(c) = c

\* The servers send to every socket in netclients: each entry is a connection whose worker
\* has not removed it yet, and no two entries are the same (RemoveEntry before Close).
EntriesAreConnected ==
  main \notin {"closing", "await", "done", "dead"} =>
    \A i \in 1 .. Len(netclients) :
      /\ holder[netclients[i]] \in Clients
      /\ worker[holder[netclients[i]]] \notin {"close", "unmanage", "gone"}
      /\ \A j \in 1 .. Len(netclients) : netclients[i] = netclients[j] => i = j

\* The thread manager holds exactly the workers that are to be awaited (NewThread holds
\* its critical section until the new thread is entered).
ManagerKnowsWorkers ==
  main # "register" => tmc = {c \in Clients : worker[c] \notin {"none", "gone"}}

\* When Main returns no worker is left, no socket of a client is open and nobody waits to be
\* accepted: the object can be deleted (AwaitShutdown; entries removed but not yet closed).
StopIsComplete ==
  main = "done" =>
    /\ \A c \in Clients : worker[c] \in {"none", "gone"} /\ request[c] # "waiting"
    /\ \A h \in Handles : holder[h] \notin Clients

\* A worker of this server waits for data on a socket of another one: its own was closed
\* and the value given out again between LoopCondition and recv.
BlockedElsewhere == \E c \in Clients : worker[c] = "recv" /\ Source(c) = Elsewhere

\* The shutdown comes to an end if every worker could be created, unless a worker dies in
\* Take or waits on a socket that is not its own.
ShutdownFinishes ==
  signal_server_shutdown /\ lost = 0 ~> (main \in {"done", "dead"} \/ BlockedElsewhere)

\* The socket of a client that has hung up is closed.
HangUpFreesSocket ==
  \A c \in Clients :
    (worker[c] = "recv" /\ Source(c) = c /\ c \in hungup) ~>
      (\A h \in Handles : holder[h] # c)

\* The comment in Server_Worker: the socket is obtained before it becomes invalid.
TakeInTime == \A c \in Clients : worker[c] = "index" => idx[c] <= Len(netclients)
=============================================================================
