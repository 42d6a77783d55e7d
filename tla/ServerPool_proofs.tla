-------------------------- MODULE ServerPool_proofs --------------------------
(***************************************************************************)
(* For every number of clients and of SOCKET values, in every interleaving *)
(* of the main thread, the workers, the clients and the other servers of   *)
(* the process: a worker serves the connection it was started for, and     *)
(* when Main returns no worker and no client's socket is left.             *)
(*                                                                         *)
(* The inductive invariant follows a connection's SOCKET value from accept *)
(* to closesocket: the entry appended last belongs to the worker that is   *)
(* taking its socket (Taking, Entries), a value in a csocket denotes that  *)
(* worker's connection (Sockets), and each open socket of a client will be *)
(* closed, by its worker or by the main thread (Covered).                  *)
(***************************************************************************)
EXTENDS ServerPool, FiniteSetTheorems, SequenceLemmas, TLAPS

\* The server still runs as usual: the loop that closes the sockets has not begun.
Early    == main \in {"loop", "start", "register", "nap", "quitting"}
Starting == main \in {"start", "register", "nap"}

Phases ==
  /\ signal_server_shutdown <=> main \in {"quitting", "closing", "await", "done"}
  /\ signal_server_shutdown => \A c \in Clients : request[c] # "waiting"
  /\ Starting => newclient \in Clients /\ request[newclient] = "accepted"
  /\ main = "start" => worker[newclient] = "none"
  /\ main = "register" => /\ worker[newclient] # "gone"
                          /\ worker[newclient] = "none" => lost < MaxThreadFails
  /\ main = "dead" => \A c \in Clients : worker[c] = "gone"
  /\ main = "done" => tmc = {}
  /\ closing >= 1 /\ (Early => closing = 1)

\* Only the newest worker can be without its socket, and the entry it looks for is last.
Taking ==
  \A c \in Clients : worker[c] \in {"ubound", "index"} =>
    /\ c = newclient /\ main \in {"register", "nap"}
    /\ worker[c] = "index" => idx[c] >= Len(netclients)

Sockets ==
  /\ \A c \in Clients : IF HasSocket(c) THEN client[c] \in Handles ELSE client[c] = NoSocket
  /\ \A g, h \in Handles : holder[g] \in Clients /\ holder[g] = holder[h] => g = h
  /\ \A h \in Handles : holder[h] \in Clients => request[holder[h]] = "accepted"
  /\ \A c \in Clients : worker[c] # "none" /\ main # "dead" => request[c] = "accepted"
  /\ Early => \A c \in Clients : HasSocket(c) => Source(c) = c

Entries ==
  /\ Early => \A i \in 1 .. Len(netclients) :
                /\ holder[netclients[i]] \in Clients
                /\ worker[holder[netclients[i]]] \notin {"close", "unmanage", "gone"}
  /\ \A i, j \in 1 .. Len(netclients) : netclients[i] = netclients[j] => i = j
  /\ Starting /\ worker[newclient] \in {"none", "ubound", "index"} =>
       Len(netclients) # 0 /\ holder[netclients[Len(netclients)]] = newclient

\* Who will close each open socket of a client.
Covered ==
  \A h \in Handles : holder[h] \in Clients =>
    \/ worker[holder[h]] = "close" /\ client[holder[h]] = h
    \/ main \notin {"await", "done", "dead"} /\ \E i \in closing .. Len(netclients) : netclients[i] = h

Managed ==
  tmc = {c \in Clients : worker[c] \notin {"none", "gone"} /\ (main = "register" => c # newclient)}

Inv == TypeOK /\ Phases /\ Taking /\ Sockets /\ Entries /\ Covered /\ Managed

-----------------------------------------------------------------------------
(* The steps of the main thread. *)

\* Steps that leave the sockets, the entries and the workers alone.
LEMMA MainMoves ==
  ASSUME Inv, UNCHANGED <<holder, netclients, tmc, workerVars>>,
         Phases', TypeOK', Taking', UNCHANGED <<newclient, closing>>,
         \A c \in Clients : request[c] = "accepted" => request'[c] = "accepted",
         Early' => Early, Starting' => Starting,
         main \notin {"await", "done", "dead"} => main' \notin {"await", "done", "dead"},
         main' = "register" <=> main = "register", main' = "dead" <=> main = "dead"
  PROVE  Inv'
<1> USE DEF workerVars
<1>1. Sockets'
  BY DEF Inv, TypeOK, Sockets, Source, HasSocket
<1>2. Entries'
  BY DEF Inv, Entries
<1>3. Covered'
  BY DEF Inv, Covered
<1>4. Managed'
  BY DEF Inv, Managed
<1>5. QED
  BY <1>1, <1>2, <1>3, <1>4 DEF Inv

\* The entry appended last is the accepted client's, and no other entry is the same: a
\* value that was free is in no entry.
LEMMA AcceptKeeps ==
  ASSUME Inv, NEW c \in Clients, NEW h \in Handles, Accept(c, h) PROVE Inv'
<1> USE DEF workerVars, threads
<1>0. PoolAssumption
  BY PoolAssumption
<1>1. /\ netclients \in Seq(Handles) /\ Len(netclients) \in Nat
      /\ \A i \in 1 .. Len(netclients) : netclients[i] \in Handles
  BY LenProperties, ElementOfSeq DEF Inv, TypeOK
<1>2. /\ netclients' \in Seq(Handles)
      /\ Len(netclients') = Len(netclients) + 1
      /\ \A i \in 1 .. Len(netclients) : netclients'[i] = netclients[i]
      /\ netclients'[Len(netclients) + 1] = h
  BY <1>1, AppendProperties DEF Accept
<1>3. /\ holder[h] = Free /\ holder'[h] = c
      /\ \A g \in Handles : g # h => holder'[g] = holder[g]
  BY DEF Inv, TypeOK, Accept
<1>4. /\ request[c] = "waiting" /\ request'[c] = "accepted"
      /\ \A d \in Clients : d # c => request'[d] = request[d]
  BY DEF Inv, TypeOK, Accept
<1>5. worker[c] = "none" /\ main = "loop" /\ main' = "start" /\ newclient' = c
  BY <1>4 DEF Inv, Sockets, Accept
<1>6. TypeOK'
  BY <1>2 DEF Inv, TypeOK, Accept, MainStates
<1>7. Phases'
  BY <1>4, <1>5 DEF Inv, Phases, Early, Starting, Accept
<1>8. Taking'
  BY DEF Inv, Taking, Accept
<1>9. \A i \in 1 .. Len(netclients) : netclients[i] # h
  BY <1>0, <1>1, <1>3, <1>5 DEF Inv, Entries, Early
<1>10. Sockets'
  BY <1>0, <1>3, <1>4, <1>5 DEF Inv, TypeOK, Sockets, HasSocket, Source, Early, Accept
<1>11. Entries'
  <2>1. \A i \in 1 .. Len(netclients') :
          /\ holder'[netclients'[i]] \in Clients
          /\ worker'[holder'[netclients'[i]]] \notin {"close", "unmanage", "gone"}
    <3> TAKE i \in 1 .. Len(netclients')
    <3>1. CASE i = Len(netclients) + 1
      BY <1>2, <1>3, <1>5, <3>1 DEF Accept
    <3>2. CASE i \in 1 .. Len(netclients)
      BY <1>1, <1>2, <1>3, <1>5, <1>9, <3>2 DEF Inv, Entries, Early, Accept
    <3>3. QED
      BY <1>1, <1>2, <3>1, <3>2
  <2>2. \A i, j \in 1 .. Len(netclients') : netclients'[i] = netclients'[j] => i = j
    BY <1>1, <1>2, <1>9 DEF Inv, Entries
  <2>3. QED
    BY <1>1, <1>2, <1>3, <1>5, <2>1, <2>2 DEF Entries
<1>12. Covered'
  <2> SUFFICES ASSUME NEW g \in Handles, holder'[g] \in Clients
               PROVE  \/ worker'[holder'[g]] = "close" /\ client'[holder'[g]] = g
                      \/ \E i \in 1 .. Len(netclients') : netclients'[i] = g
    BY <1>5 DEF Covered, Inv, Phases, Early, Accept
  <2>1. CASE g = h
    BY <1>1, <1>2, <2>1
  <2>2. CASE g # h
    BY <1>1, <1>2, <1>3, <1>5, <2>2 DEF Inv, Covered, Phases, Early, Accept
  <2>3. QED
    BY <2>1, <2>2
<1>13. Managed'
  BY <1>5 DEF Inv, Managed, Accept
<1>14. QED
  BY <1>6, <1>7, <1>8, <1>10, <1>11, <1>12, <1>13 DEF Inv

\* The new thread, if there is one, is not yet known to the thread manager.
LEMMA CreateThreadKeeps ==
  ASSUME Inv, CreateThread \/ CreateThreadFails PROVE Inv'
<1> USE DEF network, workerVars, threads
<1>1. /\ main = "start" /\ main' = "register" /\ newclient \in Clients
      /\ request[newclient] = "accepted" /\ worker[newclient] = "none"
      /\ UNCHANGED <<network, netclients, newclient, closing, signal_server_shutdown, quit, tmc, lost, idx, client>>
      /\ worker' = worker \/ worker' = [worker EXCEPT ![newclient] = "ubound"]
  BY DEF Inv, Phases, Starting, CreateThread, CreateThreadFails
<1>2. /\ worker' \in [Clients -> WorkerStates]
      /\ worker'[newclient] \in {"none", "ubound"}
      /\ \A c \in Clients : c # newclient => worker'[c] = worker[c]
  BY <1>1 DEF Inv, TypeOK, WorkerStates
<1>3. TypeOK'
  BY <1>1, <1>2 DEF Inv, TypeOK, MainStates
<1>4. Phases'
  BY <1>1, <1>2 DEF Inv, Phases, Early, Starting, CreateThread, CreateThreadFails
<1>5. Taking'
  BY <1>1, <1>2 DEF Inv, Taking
<1>6. Sockets'
  BY <1>1, <1>2 DEF Inv, Sockets, HasSocket, Source, Early
<1>7. Entries'
  BY <1>1, <1>2 DEF Inv, Entries, Early, Starting
<1>8. Covered'
  BY <1>1, <1>2 DEF Inv, Covered
<1>9. Managed'
  BY <1>1, <1>2 DEF Inv, Managed
<1>10. QED
  BY <1>3, <1>4, <1>5, <1>6, <1>7, <1>8, <1>9 DEF Inv

\* NewThread enters the thread it has created.
LEMMA NewThreadKeeps ==
  ASSUME Inv, NewThread PROVE Inv'
<1> USE DEF network, workerVars
<1>0. MaxThreadFails \in Nat
  BY PoolAssumption
<1>1. /\ main = "register" /\ main' = "nap" /\ newclient \in Clients
      /\ worker[newclient] # "gone" /\ (worker[newclient] = "none" => lost < MaxThreadFails)
  BY DEF Inv, Phases, Starting, NewThread
<1>2. TypeOK'
  BY <1>0, <1>1 DEF Inv, TypeOK, NewThread, MainStates
<1>3. Phases'
  BY <1>1 DEF Inv, Phases, Early, Starting, NewThread
<1>4. Taking'
  BY <1>1 DEF Inv, Taking, NewThread
<1>5. Sockets'
  BY <1>1 DEF Inv, Sockets, HasSocket, Source, Early, NewThread
<1>6. Entries'
  BY <1>1 DEF Inv, Entries, Early, Starting, NewThread
<1>7. Covered'
  BY <1>1 DEF Inv, Covered, NewThread
<1>8. Managed'
  <2>1. CASE worker[newclient] = "none"
    BY <1>1, <2>1 DEF Inv, Managed, NewThread
  <2>2. CASE worker[newclient] # "none"
    BY <1>1, <2>2 DEF Inv, Managed, NewThread
  <2>3. QED
    BY <2>1, <2>2
<1>9. QED
  BY <1>2, <1>3, <1>4, <1>5, <1>6, <1>7, <1>8 DEF Inv

\* After the nap the newest worker has its socket.
LEMMA NapEndsKeeps == ASSUME Inv, NapEnds PROVE Inv'
<1> USE DEF network, workerVars, threads
<1>1. TypeOK' /\ Phases' /\ Taking'
  BY DEF Inv, TypeOK, MainStates, Phases, Early, Starting, Taking, NapEnds
<1>2. QED
  BY <1>1, MainMoves DEF NapEnds, Early, Starting

\* Closing the listening socket refuses those that wait.
LEMMA QuitKeeps == ASSUME Inv, Quit PROVE Inv'
<1> USE DEF workerVars, threads
<1>1. TypeOK'
  BY DEF Inv, TypeOK, MainStates, Quit
<1>2. Phases' /\ Taking'
  BY DEF Inv, TypeOK, Phases, Early, Starting, Taking, Quit
<1>3. \A c \in Clients : request[c] = "accepted" => request'[c] = "accepted"
  BY DEF Quit
<1>4. QED
  BY <1>1, <1>2, <1>3, MainMoves DEF Quit, Early, Starting

\* Nothing but the phase changes when the shutdown enters cs.
LEMMA EnterShutdownKeeps == ASSUME Inv, EnterShutdown PROVE Inv'
<1> USE DEF network, workerVars, threads
<1>1. TypeOK' /\ Phases' /\ Taking'
  BY DEF Inv, TypeOK, MainStates, Phases, Early, Starting, Taking, EnterShutdown
<1>2. QED
  BY <1>1, MainMoves DEF EnterShutdown, Early, Starting

\* A count of 0 means that no worker is left.
LEMMA AwaitShutdownKeeps == ASSUME Inv, AwaitShutdown PROVE Inv'
<1> USE DEF network, workerVars, threads
<1>1. tmc = {}
  <2>1. tmc \in SUBSET Clients /\ IsFiniteSet(Clients) /\ lost \in Nat
    BY PoolAssumption DEF Inv, TypeOK
  <2>2. IsFiniteSet(tmc)
    BY <2>1, FS_Subset
  <2>3. Cardinality(tmc) \in Nat
    BY <2>2, FS_CardinalityType
  <2>4. Cardinality(tmc) = 0
    BY <2>1, <2>3 DEF AwaitShutdown, tmc_count
  <2>5. QED
    BY <2>2, <2>4, FS_EmptySet
<1>2. TypeOK' /\ Phases' /\ Taking'
  BY <1>1 DEF Inv, TypeOK, MainStates, Phases, Early, Starting, Taking, AwaitShutdown
<1>3. QED
  BY <1>2, MainMoves DEF AwaitShutdown, Early, Starting

\* The loop of the shutdown frees the socket of the entry it moves past.
LEMMA CloseNextKeeps == ASSUME Inv, CloseNext PROVE Inv'
<1> USE DEF workerVars, threads
<1>0. PoolAssumption
  BY PoolAssumption
<1>1. /\ main = "closing" /\ main' \in {"closing", "await"}
      /\ UNCHANGED <<request, netclients, newclient, tmc, worker, client>>
  BY DEF CloseNext
<1>2. /\ Len(netclients) \in Nat /\ closing \in Nat /\ closing >= 1
      /\ \A i \in 1 .. Len(netclients) : netclients[i] \in Handles
  BY LenProperties, ElementOfSeq DEF Inv, TypeOK, Phases
<1>3. \A h \in Handles : holder'[h] = holder[h] \/ holder'[h] = Free
  BY <1>2 DEF Inv, TypeOK, CloseNext, Closed
<1>4. TypeOK'
  <2>1. holder' \in [Handles -> Clients \cup {Free, Elsewhere}] /\ closing' \in Nat
    <3>1. CASE closing <= Len(netclients)
      <4>1. netclients[closing] \in Handles
        BY <1>2, <3>1
      <4>2. holder' = [holder EXCEPT ![netclients[closing]] = Free] /\ closing' = closing + 1
        BY <3>1 DEF CloseNext, Closed
      <4>3. QED
        BY <1>2, <4>1, <4>2 DEF Inv, TypeOK
    <3>2. CASE ~(closing <= Len(netclients))
      BY <3>2 DEF Inv, TypeOK, CloseNext
    <3>3. QED
      BY <3>1, <3>2
  <2>2. QED
    BY <1>1, <2>1 DEF Inv, TypeOK, MainStates, CloseNext
<1>5. Phases' /\ Taking'
  BY <1>2 DEF Inv, Phases, Taking, Early, Starting, CloseNext
<1>6. Sockets'
  BY <1>0, <1>1, <1>3 DEF Inv, Sockets, HasSocket, Source, Early
<1>7. Entries'
  BY <1>1 DEF Inv, Entries, Early, Starting
<1>8. Covered'
  <2> SUFFICES ASSUME NEW h \in Handles, holder'[h] \in Clients
               PROVE  \/ worker[holder[h]] = "close" /\ client[holder[h]] = h
                      \/ main' = "closing" /\ \E i \in closing' .. Len(netclients) : netclients[i] = h
    BY <1>0, <1>1, <1>3 DEF Covered
  <2>1. holder[h] \in Clients /\ holder'[h] = holder[h]
    BY <1>0, <1>3
  <2>2. \/ worker[holder[h]] = "close" /\ client[holder[h]] = h
        \/ \E i \in closing .. Len(netclients) : netclients[i] = h
    BY <2>1 DEF Inv, Covered
  <2>3. ASSUME NEW i \in closing .. Len(netclients), netclients[i] = h
        PROVE  main' = "closing" /\ i \in closing' .. Len(netclients)
    <3>1. closing <= Len(netclients)
      BY <1>2
    <3>2. main' = "closing" /\ closing' = closing + 1 /\ holder'[netclients[closing]] = Free
      BY <1>1, <1>2, <3>1 DEF CloseNext, Closed, Inv, TypeOK
    <3>3. i # closing
      BY <1>0, <2>1, <2>3, <3>2
    <3>4. QED
      BY <1>2, <3>2, <3>3
  <2>4. QED
    BY <2>2, <2>3
<1>9. Managed'
  BY <1>1 DEF Inv, Managed
<1>10. QED
  BY <1>4, <1>5, <1>6, <1>7, <1>8, <1>9 DEF Inv

-----------------------------------------------------------------------------
(* The steps of a worker. *)

\* Ubound gives the index of the last entry.
LEMMA ReadUboundKeeps == ASSUME Inv, NEW c \in Clients, ReadUbound(c) PROVE Inv'
<1> USE DEF network, mainVars, threads
<1>1. /\ worker[c] = "ubound" /\ worker'[c] = "index"
      /\ \A d \in Clients : d # c => worker'[d] = worker[d] /\ idx'[d] = idx[d]
      /\ idx'[c] = Len(netclients)
  BY DEF Inv, TypeOK, ReadUbound
<1>2. Len(netclients) \in Nat
  BY LenProperties DEF Inv, TypeOK
<1>3. TypeOK'
  BY <1>2 DEF Inv, TypeOK, WorkerStates, ReadUbound
<1>4. Phases' /\ Taking'
  BY <1>1, <1>2 DEF Inv, Phases, Early, Starting, Taking, ReadUbound
<1>5. Sockets'
  BY <1>1 DEF Inv, Sockets, HasSocket, Source, Early, ReadUbound
<1>6. Entries'
  BY <1>1 DEF Inv, Entries, Early, Starting, ReadUbound
<1>7. Covered' /\ Managed'
  BY <1>1 DEF Inv, Covered, Managed, ReadUbound
<1>8. QED
  BY <1>3, <1>4, <1>5, <1>6, <1>7 DEF Inv

\* If the index is still in range it is the last, and the worker takes its own socket.
LEMMA TakeKeeps == ASSUME Inv, NEW c \in Clients, Take(c) PROVE Inv'
<1> USE DEF network, mainVars, threads
<1>1. /\ worker[c] = "index" /\ worker'[c] = "loop"
      /\ \A d \in Clients : d # c => worker'[d] = worker[d] /\ client'[d] = client[d]
      /\ client'[c] = netclients[idx[c]]
  BY DEF Inv, TypeOK, Take
<1>2. /\ Len(netclients) \in Nat /\ idx[c] \in Nat
      /\ \A i \in 1 .. Len(netclients) : netclients[i] \in Handles
  BY LenProperties, ElementOfSeq DEF Inv, TypeOK
<1>3. c = newclient /\ main \in {"register", "nap"} /\ idx[c] = Len(netclients)
  BY <1>1, <1>2 DEF Inv, Taking, Take
<1>4. holder[client'[c]] = c /\ client'[c] \in Handles
  BY <1>1, <1>2, <1>3 DEF Inv, Entries, Starting, Take
<1>5. TypeOK'
  BY <1>1, <1>4 DEF Inv, TypeOK, WorkerStates, Take
<1>6. Phases' /\ Taking'
  BY <1>1 DEF Inv, Phases, Early, Starting, Taking, Take
<1>7. Sockets'
  BY <1>1, <1>4 DEF Inv, Sockets, HasSocket, Source, Early, Take
<1>8. Entries'
  BY <1>1, <1>3 DEF Inv, Entries, Early, Starting, Take
<1>9. Covered'
  BY <1>1 DEF Inv, Covered, Take
<1>10. Managed'
  BY <1>1 DEF Inv, Managed, Take
<1>11. QED
  BY <1>5, <1>6, <1>7, <1>8, <1>9, <1>10 DEF Inv

\* When the process has ended there is nothing left to be right about.
LEMMA TakeFailsKeeps == ASSUME Inv, NEW c \in Clients, TakeFails(c) PROVE Inv'
<1>0. PoolAssumption
  BY PoolAssumption
<1>1. /\ main \in {"register", "nap"} /\ main' = "dead" /\ netclients' = <<>>
      /\ worker' = [d \in Clients |-> "gone"] /\ holder' = [h \in Handles |-> Free]
      /\ client' = [d \in Clients |-> NoSocket] /\ tmc' = {} /\ lost' = 0
      /\ UNCHANGED <<request, hungup, newclient, closing, signal_server_shutdown, quit, idx>>
  BY DEF Inv, Taking, TakeFails
<1>2. Len(netclients') = 0 /\ netclients' \in Seq(Handles)
  BY <1>1, EmptySeq
<1>3. TypeOK'
  BY <1>0, <1>1, <1>2 DEF Inv, TypeOK, MainStates, WorkerStates
<1>4. Phases' /\ Taking'
  BY <1>1 DEF Inv, Phases, Early, Starting, Taking
<1>5. Sockets' /\ Covered'
  BY <1>0, <1>1 DEF Sockets, HasSocket, Source, Early, Covered
<1>6. Entries'
  BY <1>1, <1>2 DEF Entries, Early, Starting
<1>7. Managed'
  BY <1>1 DEF Managed
<1>8. QED
  BY <1>3, <1>4, <1>5, <1>6, <1>7 DEF Inv

\* Inside its loop a worker touches neither sockets nor entries.
LEMMA LoopKeeps ==
  ASSUME Inv, NEW c \in Clients, worker[c] \in {"loop", "recv"},
         NEW w \in {"loop", "recv", "remove"}, worker' = [worker EXCEPT ![c] = w],
         UNCHANGED <<network, netclients, mainVars, quit, threads, idx, client>>
  PROVE  Inv'
<1> USE DEF network, mainVars, threads
<1>1. /\ worker'[c] = w /\ \A d \in Clients : d # c => worker'[d] = worker[d]
  BY DEF Inv, TypeOK
<1>2. main # "dead"
  BY DEF Inv, Phases
<1>3. TypeOK'
  BY DEF Inv, TypeOK, WorkerStates
<1>4. Phases' /\ Taking'
  BY <1>1, <1>2 DEF Inv, Phases, Early, Starting, Taking
<1>5. Sockets'
  BY <1>1 DEF Inv, Sockets, HasSocket, Source, Early
<1>6. Entries'
  BY <1>1 DEF Inv, Entries, Early, Starting
<1>7. Covered' /\ Managed'
  BY <1>1 DEF Inv, Covered, Managed
<1>8. QED
  BY <1>3, <1>4, <1>5, <1>6, <1>7 DEF Inv

\* A worker removes its own entry and leaves those of the others in order.
LEMMA RemoveEntryKeeps == ASSUME Inv, NEW c \in Clients, RemoveEntry(c) PROVE Inv'
<1> USE DEF network, mainVars, threads
<1>1. /\ worker[c] = "remove" /\ worker'[c] = "close" /\ main # "closing" /\ main # "dead"
      /\ \A d \in Clients : d # c => worker'[d] = worker[d]
      /\ worker' \in [Clients -> WorkerStates]
      /\ UNCHANGED <<network, mainVars, quit, threads, idx, client>>
  BY DEF Inv, TypeOK, Phases, WorkerStates, RemoveEntry
<1>2. /\ netclients \in Seq(Handles) /\ Len(netclients) \in Nat
      /\ \A i \in 1 .. Len(netclients) : netclients[i] \in Handles
  BY LenProperties, ElementOfSeq DEF Inv, TypeOK
<1>3. client[c] \in Handles /\ (Early => holder[client[c]] = c)
  BY <1>1 DEF Inv, Sockets, HasSocket, Source
<1>4. Sockets'
  BY <1>1 DEF Inv, Sockets, HasSocket, Source, Early
<1>5. Managed'
  BY <1>1 DEF Inv, Managed
<1>6. Phases'
  BY <1>1 DEF Inv, Phases, Early, Starting
<1>7. CASE ~ \E i \in 1 .. Len(netclients) : IsFirstEntry(i, c)
  <2>1. netclients' = netclients
    BY <1>7 DEF RemoveEntry
  <2>2. \A i \in 1 .. Len(netclients) : netclients[i] # client[c]
    <3> SUFFICES ASSUME NEW i \in 1 .. Len(netclients), netclients[i] = client[c] PROVE FALSE
      OBVIOUS
    <3>1. \A j \in 1 .. i - 1 : netclients[j] # client[c]
      BY <1>2 DEF Inv, Entries
    <3>2. QED
      BY <1>7, <3>1 DEF IsFirstEntry
  <2>3. TypeOK' /\ Taking'
    BY <1>1, <2>1 DEF Inv, TypeOK, Taking
  <2>4. Entries'
    <3>1. Early => \A i \in 1 .. Len(netclients) : holder[netclients[i]] # c
      BY <1>2, <1>3, <2>2 DEF Inv, Sockets
    <3>2. Starting => newclient \in Clients /\ Early
      BY DEF Inv, Phases, Starting, Early
    <3>3. QED
      BY <1>1, <2>1, <3>1, <3>2 DEF Inv, Entries, Early, Starting
  <2>5. Covered'
    BY <1>1, <1>3, <2>1 DEF Inv, Covered
  <2>6. QED
    BY <1>4, <1>5, <1>6, <2>3, <2>4, <2>5 DEF Inv
<1>8. ASSUME NEW k \in 1 .. Len(netclients), IsFirstEntry(k, c), netclients' = RemoveAt(netclients, k)
      PROVE  Inv'
  <2>1. /\ netclients' \in Seq(Handles)
        /\ Len(netclients') = Len(netclients) - 1
        /\ \A i \in 1 .. Len(netclients) - 1 : netclients'[i] = netclients[IF i < k THEN i ELSE i + 1]
    BY <1>2, <1>8, Removed
  <2>2. \A i \in 1 .. Len(netclients') : \E j \in 1 .. Len(netclients) :
          netclients'[i] = netclients[j] /\ j # k /\ j = IF i < k THEN i ELSE i + 1
    BY <1>2, <2>1
  <2>3. netclients[k] = client[c]
    BY <1>8 DEF IsFirstEntry
  <2>4. TypeOK'
    BY <1>1, <2>1 DEF Inv, TypeOK
  <2>5. Taking'
    BY <1>1, <1>2, <2>1 DEF Inv, TypeOK, Taking
  <2>6. \A i, j \in 1 .. Len(netclients') : netclients'[i] = netclients'[j] => i = j
    <3> SUFFICES ASSUME NEW i \in 1 .. Len(netclients'), NEW j \in 1 .. Len(netclients'),
                        netclients'[i] = netclients'[j]
                 PROVE  i = j
      OBVIOUS
    <3> DEFINE Old(m) == IF m < k THEN m ELSE m + 1
    <3>1. /\ netclients'[i] = netclients[Old(i)] /\ Old(i) \in 1 .. Len(netclients)
          /\ netclients'[j] = netclients[Old(j)] /\ Old(j) \in 1 .. Len(netclients)
      BY <1>2, <2>1
    <3> HIDE DEF Old
    <3>2. Old(i) = Old(j)
      BY <3>1 DEF Inv, Entries
    <3>3. QED
      BY <1>2, <2>1, <3>2 DEF Old
  <2>7. Early => \A i \in 1 .. Len(netclients') :
                   /\ holder[netclients'[i]] \in Clients
                   /\ worker'[holder[netclients'[i]]] \notin {"close", "unmanage", "gone"}
    <3> SUFFICES ASSUME Early, NEW i \in 1 .. Len(netclients')
                 PROVE  /\ holder[netclients'[i]] \in Clients
                        /\ worker'[holder[netclients'[i]]] \notin {"close", "unmanage", "gone"}
      OBVIOUS
    <3>1. PICK j \in 1 .. Len(netclients) : netclients'[i] = netclients[j] /\ j # k
      BY <2>2
    <3>2. netclients[j] # client[c] /\ netclients[j] \in Handles
      BY <1>2, <2>3, <3>1 DEF Inv, Entries
    <3>3. holder[netclients[j]] # c
      BY <1>3, <3>2 DEF Inv, Sockets
    <3>4. QED
      BY <1>1, <3>1, <3>3 DEF Inv, Entries
  <2>8. Starting /\ worker'[newclient] \in {"none", "ubound", "index"} =>
          Len(netclients') # 0 /\ holder[netclients'[Len(netclients')]] = newclient
    <3> SUFFICES ASSUME Starting, worker'[newclient] \in {"none", "ubound", "index"}
                 PROVE  Len(netclients') # 0 /\ holder[netclients'[Len(netclients')]] = newclient
      OBVIOUS
    <3>1. newclient # c /\ newclient \in Clients /\ worker[newclient] \in {"none", "ubound", "index"}
      BY <1>1 DEF Inv, Phases
    <3>2. holder[netclients[Len(netclients)]] = newclient
      BY <3>1 DEF Inv, Entries
    <3>3. k # Len(netclients)
      BY <1>3, <2>3, <3>1, <3>2 DEF Starting, Early
    <3>4. k < Len(netclients)
      BY <1>2, <3>3
    <3>5. Len(netclients) - 1 \in 1 .. Len(netclients) - 1 /\ ~(Len(netclients) - 1 < k)
      BY <1>2, <3>4
    <3>6. netclients'[Len(netclients) - 1] = netclients[Len(netclients) - 1 + 1]
      BY <2>1, <3>5
    <3>7. Len(netclients) - 1 + 1 = Len(netclients)
      BY <1>2
    <3>8. QED
      BY <1>2, <2>1, <3>2, <3>5, <3>6, <3>7
  <2>9. Entries'
    BY <1>1, <2>6, <2>7, <2>8 DEF Entries, Early, Starting
  <2>10. Covered'
    <3> SUFFICES ASSUME NEW h \in Handles, holder[h] \in Clients
                 PROVE  \/ worker'[holder[h]] = "close" /\ client[holder[h]] = h
                        \/ /\ main \notin {"await", "done", "dead"}
                           /\ \E i \in closing .. Len(netclients') : netclients'[i] = h
      BY <1>1 DEF Covered
    <3>1. CASE worker[holder[h]] = "close" /\ client[holder[h]] = h
      BY <1>1, <3>1
    <3>2. CASE main \notin {"await", "done", "dead"} /\ \E i \in closing .. Len(netclients) : netclients[i] = h
      <4>1. Early /\ closing = 1
        BY <1>1, <3>2 DEF Inv, TypeOK, MainStates, Phases, Early
      <4>2. CASE h = client[c]
        BY <1>1, <1>3, <4>1, <4>2
      <4>3. CASE h # client[c]
        <5>1. PICK i \in 1 .. Len(netclients) : netclients[i] = h
          BY <3>2, <4>1
        <5>2. i # k
          BY <2>3, <4>3, <5>1
        <5>3. CASE i < k
          <6>1. i \in 1 .. Len(netclients) - 1
            BY <1>2, <5>3
          <6>2. netclients'[i] = h
            BY <2>1, <5>1, <5>3, <6>1
          <6>3. QED
            BY <2>1, <3>2, <4>1, <6>1, <6>2
        <5>4. CASE i > k
          <6>1. i - 1 \in 1 .. Len(netclients) - 1 /\ ~(i - 1 < k) /\ i - 1 + 1 = i
            BY <1>2, <5>4
          <6>2. netclients'[i - 1] = h
            BY <2>1, <5>1, <6>1
          <6>3. QED
            BY <2>1, <3>2, <4>1, <6>1, <6>2
        <5>5. QED
          BY <1>2, <5>2, <5>3, <5>4
      <4>4. QED
        BY <4>2, <4>3
    <3>3. QED
      BY <3>1, <3>2 DEF Inv, Covered
  <2>11. QED
    BY <1>4, <1>5, <1>6, <2>4, <2>5, <2>9, <2>10 DEF Inv
<1>9. QED
  BY <1>7, <1>8 DEF RemoveEntry

\* Until the shutdown a worker closes its own connection.
LEMMA CloseKeeps == ASSUME Inv, NEW c \in Clients, Close(c) PROVE Inv'
<1> USE DEF mainVars, threads
<1>0. PoolAssumption
  BY PoolAssumption
<1>1. /\ worker[c] = "close" /\ worker'[c] = "unmanage" /\ client'[c] = NoSocket
      /\ \A d \in Clients : d # c => worker'[d] = worker[d] /\ client'[d] = client[d]
      /\ main # "dead"
  BY DEF Inv, TypeOK, Phases, Close
<1>2. client[c] \in Handles /\ (Early => holder[client[c]] = c)
  BY <1>1 DEF Inv, Sockets, HasSocket, Source
<1>3. /\ holder'[client[c]] = Free
      /\ \A h \in Handles : h # client[c] => holder'[h] = holder[h]
      /\ \A h \in Handles : holder'[h] \in Clients => holder'[h] = holder[h] /\ h # client[c]
  BY <1>0, <1>2 DEF Inv, TypeOK, Close, Closed
<1>4. TypeOK'
  BY DEF Inv, TypeOK, WorkerStates, Close, Closed
<1>5. Phases' /\ Taking'
  BY <1>1 DEF Inv, Phases, Early, Starting, Taking, Close
<1>6. \A i \in 1 .. Len(netclients) : netclients[i] \in Handles
  BY ElementOfSeq DEF Inv, TypeOK
<1>7. Early => \A i \in 1 .. Len(netclients) : netclients[i] # client[c]
  BY <1>1, <1>2 DEF Inv, Entries
<1>8. Sockets'
  <2>1. Early => \A d \in Clients : HasSocket(d)' => holder'[client'[d]] = d
    <3> SUFFICES ASSUME Early, NEW d \in Clients, HasSocket(d)' PROVE holder'[client'[d]] = d
      OBVIOUS
    <3>1. d # c /\ HasSocket(d) /\ client'[d] = client[d]
      BY <1>1 DEF HasSocket
    <3>2. holder[client[d]] = d /\ client[d] \in Handles
      BY <3>1 DEF Inv, Sockets, Source
    <3>3. client[d] # client[c]
      BY <1>2, <3>1, <3>2
    <3>4. QED
      BY <1>3, <3>1, <3>2, <3>3
  <2>2. \A d \in Clients : IF HasSocket(d)' THEN client'[d] \in Handles ELSE client'[d] = NoSocket
    BY <1>1 DEF Inv, Sockets, HasSocket
  <2>3. \A g, h \in Handles : holder'[g] \in Clients /\ holder'[g] = holder'[h] => g = h
    BY <1>3 DEF Inv, Sockets
  <2>4. \A h \in Handles : holder'[h] \in Clients => request'[holder'[h]] = "accepted"
    BY <1>3 DEF Inv, Sockets, Close
  <2>5. QED
    BY <1>1, <2>1, <2>2, <2>3, <2>4 DEF Inv, Sockets, Source, Early, Close
<1>9. Entries'
  <2>1. Early => \A i \in 1 .. Len(netclients) : holder'[netclients[i]] = holder[netclients[i]]
    BY <1>3, <1>6, <1>7
  <2>2. Starting => newclient \in Clients /\ Early
    BY DEF Inv, Phases, Starting, Early
  <2>3. Len(netclients) \in Nat
    BY LenProperties DEF Inv, TypeOK
  <2>4. Len(netclients) # 0 => Len(netclients) \in 1 .. Len(netclients)
    BY <2>3
  <2>5. Early => \A i \in 1 .. Len(netclients) : holder[netclients[i]] # c
    BY <1>1 DEF Inv, Entries
  <2>6. QED
    BY <1>1, <2>1, <2>2, <2>4, <2>5 DEF Inv, Entries, Early, Starting, Close
<1>10. Covered'
  <2> SUFFICES ASSUME NEW h \in Handles, holder'[h] \in Clients
               PROVE  \/ worker'[holder[h]] = "close" /\ client'[holder[h]] = h
                      \/ /\ main \notin {"await", "done", "dead"}
                         /\ \E i \in closing .. Len(netclients) : netclients[i] = h
    BY <1>3 DEF Covered, Close
  <2>1. holder'[h] = holder[h] /\ h # client[c]
    BY <1>3
  <2>2. CASE worker[holder[h]] = "close" /\ client[holder[h]] = h
    BY <1>1, <2>1, <2>2
  <2>3. QED
    BY <2>1, <2>2 DEF Inv, Covered
<1>11. Managed'
  BY <1>1 DEF Inv, Managed, Close
<1>12. QED
  BY <1>4, <1>5, <1>8, <1>9, <1>10, <1>11 DEF Inv

\* A worker that has left the thread manager holds nothing.
LEMMA RemoveThreadKeeps == ASSUME Inv, NEW c \in Clients, RemoveThread(c) PROVE Inv'
<1> USE DEF network, mainVars
<1>1. /\ worker[c] = "unmanage" /\ worker'[c] = "gone" /\ main # "register" /\ main # "dead"
      /\ \A d \in Clients : d # c => worker'[d] = worker[d]
      /\ tmc' = tmc \ {c}
  BY DEF Inv, TypeOK, Phases, RemoveThread
<1>2. TypeOK'
  BY DEF Inv, TypeOK, WorkerStates, RemoveThread
<1>3. Phases' /\ Taking'
  BY <1>1 DEF Inv, Phases, Early, Starting, Taking, RemoveThread
<1>4. Sockets'
  BY <1>1 DEF Inv, Sockets, HasSocket, Source, Early, RemoveThread
<1>5. Entries'
  BY <1>1 DEF Inv, Entries, Phases, Early, Starting, RemoveThread
<1>6. Covered'
  BY <1>1 DEF Inv, Covered, RemoveThread
<1>7. Managed'
  BY <1>1 DEF Inv, Managed, RemoveThread
<1>8. QED
  BY <1>2, <1>3, <1>4, <1>5, <1>6, <1>7 DEF Inv

-----------------------------------------------------------------------------
(* The other steps. *)

\* What the other servers open and close is never a socket of a client.
LEMMA ElsewhereKeeps ==
  ASSUME Inv, NEW h \in Handles, OpenElsewhere(h) \/ CloseElsewhere(h) PROVE Inv'
<1> USE DEF mainVars, threads, workerVars
<1>0. PoolAssumption
  BY PoolAssumption
<1>1. /\ holder[h] \notin Clients /\ holder'[h] \in {Free, Elsewhere}
      /\ \A g \in Handles : g # h => holder'[g] = holder[g]
      /\ holder' \in [Handles -> Clients \cup {Free, Elsewhere}]
      /\ UNCHANGED <<request, hungup, netclients, mainVars, quit, threads, workerVars>>
  BY <1>0 DEF Inv, TypeOK, OpenElsewhere, CloseElsewhere, Closed
<1>2. \A g \in Handles : /\ holder[g] \in Clients => holder'[g] = holder[g]
                         /\ holder'[g] \in Clients => holder'[g] = holder[g]
  BY <1>0, <1>1
<1>3. /\ Len(netclients) \in Nat
      /\ \A i \in 1 .. Len(netclients) : netclients[i] \in Handles
  BY LenProperties, ElementOfSeq DEF Inv, TypeOK
<1>4. TypeOK' /\ Phases' /\ Taking' /\ Managed'
  BY <1>1 DEF Inv, TypeOK, Phases, Early, Starting, Taking, Managed
<1>5. Sockets'
  <2>1. Early => \A c \in Clients : HasSocket(c) => holder'[client[c]] = c
    BY <1>2 DEF Inv, Sockets, Source
  <2>2. \A f, g \in Handles : holder'[f] \in Clients /\ holder'[f] = holder'[g] => f = g
    BY <1>2 DEF Inv, Sockets
  <2>3. QED
    BY <1>1, <1>2, <2>1, <2>2 DEF Inv, Sockets, Source, HasSocket, Early
<1>6. Entries'
  <2>1. Early => \A i \in 1 .. Len(netclients) : holder'[netclients[i]] = holder[netclients[i]]
    BY <1>2, <1>3 DEF Inv, Entries
  <2>2. Starting => Early
    BY DEF Starting, Early
  <2>3. Len(netclients) # 0 => Len(netclients) \in 1 .. Len(netclients)
    BY <1>3
  <2>4. QED
    BY <1>1, <2>1, <2>2, <2>3 DEF Inv, Entries, Starting, Early
<1>7. Covered'
  BY <1>1, <1>2 DEF Inv, Covered
<1>8. QED
  BY <1>4, <1>5, <1>6, <1>7 DEF Inv

\* Clients come and hang up, and the service asks the server to stop.
LEMMA RequestsKeep ==
  ASSUME Inv, PostQuit \/ \E c \in Clients : Connect(c) \/ HangUp(c) PROVE Inv'
<1> USE DEF network, mainVars, threads, workerVars
<1>1. CASE PostQuit
  <2>1. TypeOK' /\ Phases' /\ Taking'
    BY <1>1 DEF Inv, TypeOK, Phases, Early, Starting, Taking, PostQuit
  <2>2. QED
    BY <1>1, <2>1, MainMoves DEF PostQuit, Early, Starting
<1>2. ASSUME NEW c \in Clients, Connect(c) PROVE Inv'
  <2>1. /\ request[c] = "none" /\ request'[c] = "waiting" /\ ~signal_server_shutdown
        /\ \A d \in Clients : d # c => request'[d] = request[d]
    BY <1>2 DEF Inv, TypeOK, Connect
  <2>2. TypeOK'
    BY <1>2 DEF Inv, TypeOK, Connect
  <2>3. Phases' /\ Taking'
    BY <1>2, <2>1 DEF Inv, Phases, Early, Starting, Taking, Connect
  <2>4. QED
    BY <1>2, <2>1, <2>2, <2>3, MainMoves DEF Connect, Early, Starting
<1>3. ASSUME NEW c \in Clients, HangUp(c) PROVE Inv'
  <2>1. TypeOK' /\ Phases' /\ Taking'
    BY <1>3 DEF Inv, TypeOK, Phases, Early, Starting, Taking, HangUp
  <2>2. QED
    BY <1>3, <2>1, MainMoves DEF HangUp, Early, Starting
<1>4. QED
  BY <1>1, <1>2, <1>3

-----------------------------------------------------------------------------
(* The theorems. *)

\* The invariant holds in every state of the servers' accept loop and workers.
THEOREM InvHolds == Spec => []Inv
<1>1. Init => Inv
  <2> SUFFICES ASSUME Init PROVE Inv
    OBVIOUS
  <2>0. PoolAssumption
    BY PoolAssumption
  <2>1. netclients \in Seq(Handles) /\ Len(netclients) = 0
    BY EmptySeq DEF Init
  <2>2. TypeOK
    <3>1. /\ request \in [Clients -> {"none", "waiting", "accepted", "refused"}]
          /\ worker \in [Clients -> WorkerStates]
          /\ idx \in [Clients -> Nat]
      BY DEF Init, WorkerStates
    <3>2. /\ holder \in [Handles -> Clients \cup {Free, Elsewhere}]
          /\ client \in [Clients -> Handles \cup {NoSocket}]
      BY DEF Init
    <3>3. /\ main \in MainStates /\ newclient \in Clients \cup {Free} /\ closing \in Nat
          /\ hungup \in SUBSET Clients /\ tmc \in SUBSET Clients /\ lost \in 0 .. MaxThreadFails
          /\ signal_server_shutdown \in BOOLEAN /\ quit \in BOOLEAN
      <4>1. MaxThreadFails \in Nat
        BY PoolAssumption
      <4>2. lost = 0 /\ closing = 1
        BY DEF Init
      <4>3. lost \in 0 .. MaxThreadFails /\ closing \in Nat
        BY <4>1, <4>2
      <4>4. QED
        BY <4>3 DEF Init, MainStates
    <3>4. QED
      BY <2>1, <3>1, <3>2, <3>3 DEF TypeOK
  <2>3. Phases /\ Taking /\ Managed
    BY DEF Init, Phases, Early, Starting, Taking, Managed
  <2>4. Sockets /\ Covered
    BY <2>0 DEF Init, Sockets, HasSocket, Covered
  <2>5. Entries
    BY <2>1 DEF Init, Entries, Starting
  <2>6. QED
    BY <2>2, <2>3, <2>4, <2>5 DEF Inv
<1>2. Inv /\ [Next]_vars => Inv'
  <2> SUFFICES ASSUME Inv, [Next]_vars PROVE Inv'
    OBVIOUS
  <2>1. CASE Main
    BY <2>1, AcceptKeeps, CreateThreadKeeps, NewThreadKeeps, NapEndsKeeps, QuitKeeps,
       EnterShutdownKeeps, CloseNextKeeps, AwaitShutdownKeeps DEF Main
  <2>2. ASSUME NEW c \in Clients, Server_Worker(c) PROVE Inv'
    <3>1. CASE LoopCondition(c) \/ ClientClosed(c) \/ RecvFails(c)
      BY <3>1, LoopKeeps DEF LoopCondition, ClientClosed, RecvFails
    <3>2. QED
      BY <2>2, <3>1, ReadUboundKeeps, TakeKeeps, TakeFailsKeeps, RemoveEntryKeeps,
         CloseKeeps, RemoveThreadKeeps DEF Server_Worker
  <2>3. CASE Environment
    <3>1. ASSUME NEW c \in Clients, MessageArrives(c) PROVE Inv'
      BY <3>1, LoopKeeps DEF MessageArrives
    <3>2. QED
      BY <2>3, <3>1, RequestsKeep, ElsewhereKeeps DEF Environment
  <2>4. CASE UNCHANGED vars
    <3> USE DEF vars, network, mainVars, threads, workerVars
    <3>1. TypeOK' /\ Phases' /\ Taking'
      BY <2>4 DEF Inv, TypeOK, Phases, Early, Starting, Taking
    <3>2. QED
      BY <2>4, <3>1, MainMoves DEF Early, Starting
  <2>5. QED
    BY <2>1, <2>2, <2>3, <2>4 DEF Next
<1>3. QED
  BY <1>1, <1>2, PTL DEF Spec

\* Type correctness (TypeOK).
THEOREM TypeCorrect == Spec => []TypeOK
<1>1. Inv => TypeOK
  BY DEF Inv
<1>2. QED
  BY <1>1, InvHolds, PTL

\* Until the shutdown each worker has the socket it was started for, although it had to
\* find it as the last entry of netclients, and closes no other (Server_Worker).
THEOREM OwnConnection == Spec => []ServesItsOwn
<1>1. Inv => ServesItsOwn
  BY DEF Inv, TypeOK, MainStates, Sockets, Early, ServesItsOwn
<1>2. QED
  BY <1>1, InvHolds, PTL

\* Until the shutdown netclients lists open connections only, each once: what a server
\* broadcasts goes to its own clients although SOCKET values are given out again.
THEOREM EntriesHold == Spec => []EntriesAreConnected
<1>1. Inv => EntriesAreConnected
  BY DEF Inv, TypeOK, MainStates, Entries, Early, EntriesAreConnected
<1>2. QED
  BY <1>1, InvHolds, PTL

\* The thread manager's list is right whenever its critical section is free.
THEOREM ManagerCorrect == Spec => []ManagerKnowsWorkers
<1>1. Inv => ManagerKnowsWorkers
  BY DEF Inv, Managed, ManagerKnowsWorkers
<1>2. QED
  BY <1>1, InvHolds, PTL

\* When Main returns every worker is gone and every client's socket is closed: the object
\* the workers use may be deleted (AwaitShutdown at the end of Main).
THEOREM StopComplete == Spec => []StopIsComplete
<1>1. Inv => StopIsComplete
  <2> SUFFICES ASSUME Inv, main = "done" PROVE StopIsComplete
    BY DEF StopIsComplete
  <2>1. tmc = {} /\ \A c \in Clients : request[c] # "waiting"
    BY DEF Inv, Phases
  <2>2. \A c \in Clients : worker[c] \in {"none", "gone"}
    BY <2>1 DEF Inv, Managed
  <2>3. \A h \in Handles : holder[h] \notin Clients
    BY <2>2 DEF Inv, Covered
  <2>4. QED
    BY <2>1, <2>2, <2>3 DEF StopIsComplete
<1>2. QED
  BY <1>1, InvHolds, PTL
=============================================================================
