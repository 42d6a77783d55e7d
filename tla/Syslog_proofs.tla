---------------------------- MODULE Syslog_proofs ----------------------------
(***************************************************************************)
(* For every number of clients and connections, in every interleaving of   *)
(* the threads of the server and of the clients, with clients killed and   *)
(* the service stopped and started again at any moment.                    *)
(*                                                                         *)
(* The inductive invariant Inv: what threads, entries and connections have *)
(* to do with one another (Phases, Sockets); which message is the first on *)
(* a connection (AuthFirst, LogonFirst); what the last mark of the log is  *)
(* while a switch is under way (Marks); where a LOGOFF is (Logoffs); and   *)
(* that the last settings under way to a client, or still to be sent to it *)
(* by the thread that holds cs, are the server's (Copies).                 *)
(***************************************************************************)
EXTENDS Syslog, SequenceLemmas, TLAPS

\* Some message of a queue has this id.
Has(q, id) == \E i \in 1 .. Len(q) : q[i].id = id

\* LOGON comes before every entry about a window.
Announced(q) == \A i \in 1 .. Len(q) : q[i].id = "LOGTHIS" => \E j \in 1 .. i - 1 : q[j].id = "LOGON"

\* Where a worker still receives, or will after its answer or its broadcast.
Serving == {"recv", "reply", "write", "set", "enter", "spawn", "info", "logdata"}
Alive(c) == worker[c].pc \notin {"none", "gone"}

\* The main thread, the holder of cs, and what has not begun or is over.
Phases ==
  /\ main = "run" <=> ~signal_server_shutdown
  /\ main = "gone" => \A c \in Conns : ~Alive(c)
  /\ \A c \in Conns : worker[c].pc = "spawn" <=> cs = c
  /\ \A c \in Conns :
       /\ worker[c].pc = "none" <=> c[2] > client[c[1]].last
       /\ worker[c].pc \in {"none", "backlog"} => ~worker[c].auth
       /\ worker[c].pc = "none" =>
            /\ link[c].up = <<>> /\ link[c].serverEnd = "none" /\ ~link[c].reset
            /\ \A i \in 1 .. Len(netclients) : netclients[i] # c
       /\ worker[c].pc \in {"log", "gone"} => link[c].serverEnd = "closed"
       /\ worker[c].pc \in Serving \cup {"remove"} => \E i \in 1 .. Len(netclients) : netclients[i] = c

\* The socket of a client is the open end of its last connection.
Sockets ==
  /\ \A p \in Clients :
       /\ client[p].last <= MaxConns[p]
       /\ client[p].sock = "connected" =>
            client[p].last >= 1 /\ client[p].cworker \in {"auth", "logon", "recv", "close", "gone"}
       /\ client[p].cworker \in {"top", "create"} => client[p].sock = "none"
  /\ \A c \in Conns :
       link[c].clientEnd = "open" <=> client[c[1]].sock = "connected" /\ c[2] = client[c[1]].last

\* AUTH is the first message, unless another thread was early.
AuthFirst ==
  \A c \in Conns :
    c \notin history.early /\ ~worker[c].auth /\ link[c].serverEnd = "open" =>
      IF link[c].up = <<>> THEN link[c].clientEnd = "open" => client[c[1]].cworker = "auth"
                           ELSE link[c].up[1].id = "AUTH"

\* On a first connection LOGON comes before the entries about windows.
LogonFirst ==
  /\ \A p \in Clients :
       /\ client[p].flag_sent_username_once => client[p].last >= 1
       /\ client[p].cworker = "logon" => ~client[p].flag_sent_username_once
       /\ client[p].cworker = "recv" \/ client[p].copy.general \/ client[p].timer = "wait" =>
            client[p].flag_sent_username_once
  /\ \A c \in Conns :
       c[2] = 1 /\ worker[c].pc \in Serving \cup {"none", "backlog"} /\ ~worker[c].named =>
         /\ Announced(link[c].up)
         /\ client[c[1]].last = 1 /\ client[c[1]].flag_sent_username_once /\ link[c].serverEnd = "open" =>
              Has(link[c].up, "LOGON")

\* Who has written the last entry about the switch, and what it will assign.
Marks ==
  ~history.overlap =>
    /\ \A x, y \in Conns : worker[x].pc = "set" /\ worker[y].pc = "set" => x = y
    /\ \A x \in Conns : worker[x].pc = "set" => main # "set" /\ mark = worker[x].val
    /\ main = "set" => ~mark
    /\ main # "set" /\ (\A x \in Conns : worker[x].pc # "set") => mark = log_general

\* What holds of a worker when nothing excuses that LOGOFF is not heard.
Hears(c) ==
  /\ main = "run"
  /\ worker[c].pc # "log" => link[c].serverEnd = "open" /\ ~link[c].reset
  /\ c \notin history.early =>
       /\ worker[c].pc # "log"
       /\ worker[c].pc \in {"remove", "close"} => worker[c].bye
       /\ link[c].clientEnd # "open" \/ client[c[1]].ui \notin {"run", "menu", "logoff"} =>
            worker[c].bye \/ Has(link[c].up, "LOGOFF")

Logoffs == \A c \in Conns : Alive(c) /\ c \notin history.excused => Hears(c)

\* What a client will believe when it has received all that is under way to it.
Learns(down, copy, v) ==
  \/ ~Has(down, "SPAWN_SETTINGS") /\ copy = v
  \/ \E i \in 1 .. Len(down) : /\ down[i].id = "SPAWN_SETTINGS" /\ down[i].set = v
                               /\ \A j \in i + 1 .. Len(down) : down[j].id # "SPAWN_SETTINGS"

\* A broadcast will still come to connection c.
Pending(c) ==
  \/ \E w \in Conns : worker[w].pc = "enter"
  \/ \E w \in Conns : worker[w].pc = "spawn" /\ \E i \in worker[w].next .. Len(netclients) : netclients[i] = c

Served(c) ==
  /\ main = "run" /\ worker[c].auth /\ worker[c].pc \in Serving /\ c \notin history.overtaken
  /\ link[c].serverEnd = "open" /\ link[c].clientEnd = "open"

Copies ==
  \A c \in Conns : Served(c) =>
    \/ Pending(c)
    \/ IF worker[c].pc = "reply" THEN worker[c].read = Current
       ELSE Learns(link[c].down, client[c[1]].copy, Current)

Inv == TypeOK /\ Phases /\ Sockets /\ AuthFirst /\ LogonFirst /\ Marks /\ Logoffs /\ Copies

\* What a connection is.
LEMMA ConnsAre ==
  /\ \A c \in Conns : c[1] \in Clients /\ c[2] \in 1 .. MaxConns[c[1]] /\ c = <<c[1], c[2]>>
  /\ \A p \in Clients, n \in Nat : n >= 1 /\ n <= MaxConns[p] => <<p, n>> \in Conns
  /\ \A p \in Clients : MaxConns[p] \in Nat
  BY SyslogAssumption DEF Conns

\* The connection of a connected client.
LEMMA LastConnIs ==
  ASSUME Inv, NEW p \in Clients, client[p].sock = "connected"
  PROVE  /\ LastConn(p) \in Conns /\ LastConn(p)[1] = p /\ LastConn(p)[2] = client[p].last
         /\ worker[LastConn(p)].pc # "none" /\ link[LastConn(p)].clientEnd = "open"
         /\ \A c \in Conns : c[1] = p /\ link[c].clientEnd = "open" => c = LastConn(p)
<1>1. client[p].last \in Nat /\ client[p].last >= 1 /\ client[p].last <= MaxConns[p]
  BY DEF Inv, TypeOK, Client, Sockets
<1>2. LastConn(p) \in Conns /\ LastConn(p)[1] = p /\ LastConn(p)[2] = client[p].last
  BY <1>1, ConnsAre DEF LastConn
<1>3. worker[LastConn(p)].pc # "none" /\ link[LastConn(p)].clientEnd = "open"
  BY <1>1, <1>2 DEF Inv, Phases, Sockets
<1>4. ASSUME NEW c \in Conns, c[1] = p, link[c].clientEnd = "open" PROVE c = LastConn(p)
  <2>1. c[2] = client[p].last /\ c = <<c[1], c[2]>>
    BY <1>4, ConnsAre DEF Inv, Sockets
  <2>2. QED
    BY <1>4, <2>1 DEF LastConn
<1>5. QED
  BY <1>2, <1>3, <1>4

LEMMA InitHolds == Init => Inv
<1> SUFFICES ASSUME Init PROVE Inv
  OBVIOUS
<1>1. /\ worker \in [Conns -> Worker] /\ link \in [Conns -> Link] /\ client \in [Clients -> Client]
      /\ netclients \in Seq(Conns) /\ cs = NoOne /\ NoOne \notin Conns
  BY SyslogAssumption, EmptySeq DEF Init, NewWorker, Worker, Link, Client, Settings, Off
<1>2. log_general \in BOOLEAN /\ log_capchanges \in BOOLEAN /\ mark = log_general
  BY SyslogAssumption DEF Init, Settings
<1>3. TypeOK
  <2>1. used \in [uses : 0 .. MaxUses, quits : 0 .. MaxQuits, accidents : 0 .. MaxAccidents, stops : 0 .. MaxStops]
    BY SyslogAssumption DEF Init
  <2>2. QED
    BY <1>1, <1>2, <2>1 DEF Init, TypeOK
<1>4. Phases
  BY <1>1, ConnsAre DEF Init, Phases, NewWorker, Alive, Serving
<1>5. Sockets
  BY <1>1, ConnsAre DEF Init, Sockets
<1>6. AuthFirst /\ LogonFirst
  BY <1>1, ConnsAre DEF Init, AuthFirst, LogonFirst, Announced, Off
<1>7. \A c \in Conns : ~worker[c].auth /\ worker[c].pc = "none"
  BY DEF Init, NewWorker
<1>8. Marks /\ Logoffs /\ Copies
  BY <1>2, <1>7 DEF Init, Marks, Logoffs, Hears, Copies, Served, Alive
<1>9. QED
  BY <1>3, <1>4, <1>5, <1>6, <1>8 DEF Inv

-----------------------------------------------------------------------------
(* The threads of a client. *)

\* A step of a client that uses no connection and learns nothing.
Harmless(p) ==
  /\ client'[p].last = client[p].last /\ client'[p].copy = client[p].copy
  /\ client'[p].flag_sent_username_once = client[p].flag_sent_username_once
  /\ \/ client'[p].sock = client[p].sock
     \/ client[p].sock = "none" /\ client'[p].sock = "created" /\ client'[p].cworker = "connect"
  /\ \/ client'[p].cworker = client[p].cworker
     \/ /\ client[p].cworker \notin {"auth", "logon"}
        /\ client'[p].cworker \notin {"auth", "logon", "recv"}
  /\ client'[p].cworker \in {"top", "create"} => client'[p].sock = "none"
  /\ client'[p].cworker = "connect" => client'[p].sock # "connected"
  /\ client'[p].timer = "wait" => client[p].timer = "wait" \/ client[p].copy.general
  /\ client'[p].ui \notin {"run", "menu", "logoff"} =>
       client[p].ui \notin {"run", "menu", "logoff"} \/ client[p].sock # "connected"

Moved(p) ==
  /\ client' \in [Clients -> Client] /\ \A q \in Clients \ {p} : client'[q] = client[q]
  /\ UNCHANGED <<server, settings, mark, worker, link, history>>
  /\ Harmless(p)

LEMMA ClientMoves ==
  ASSUME Inv, NEW p \in Clients, TypeOK', Moved(p)
  PROVE  Inv'
<1> USE DEF server, settings, Moved, Harmless
<1>1. Phases'
  BY ConnsAre DEF Inv, Phases, Alive
<1>2. Sockets'
  <2>1. \A q \in Clients :
          /\ client'[q].last <= MaxConns[q]
          /\ client'[q].sock = "connected" =>
               client'[q].last >= 1 /\ client'[q].cworker \in {"auth", "logon", "recv", "close", "gone"}
          /\ client'[q].cworker \in {"top", "create"} => client'[q].sock = "none"
    BY DEF Inv, Client, Sockets
  <2>2. \A c \in Conns :
          client'[c[1]].last = client[c[1]].last
            /\ (client'[c[1]].sock = "connected" <=> client[c[1]].sock = "connected")
    BY ConnsAre
  <2>3. QED
    BY <2>1, <2>2 DEF Inv, Sockets
<1>3. AuthFirst'
  BY ConnsAre DEF Inv, AuthFirst
<1>4. LogonFirst'
  BY ConnsAre DEF Inv, LogonFirst, Announced, Has
<1>5. Marks'
  BY DEF Inv, Marks
<1>6. Logoffs'
  BY ConnsAre DEF Inv, Logoffs, Hears, Alive, Has, Sockets
<1>7. Copies'
  <2>1. \A c \in Conns : /\ Served(c)' <=> Served(c)
                         /\ Pending(c)' <=> Pending(c)
                         /\ client'[c[1]].copy = client[c[1]].copy
    BY ConnsAre DEF Served, Pending
  <2>2. QED
    BY <2>1 DEF Inv, Copies, Learns, Has, Current
<1>8. QED
  BY <1>1, <1>2, <1>3, <1>4, <1>5, <1>6, <1>7 DEF Inv

\* The bounded events.
Used == [uses : 0 .. MaxUses, quits : 0 .. MaxQuits, accidents : 0 .. MaxAccidents, stops : 0 .. MaxStops]

Bounded ==
  \/ used' = used
  \/ used.uses < MaxUses /\ used' = [used EXCEPT !.uses = @ + 1]
  \/ used.quits < MaxQuits /\ used' = [used EXCEPT !.quits = @ + 1]
  \/ used.accidents < MaxAccidents /\ used' = [used EXCEPT !.accidents = @ + 1]
  \/ used.stops < MaxStops /\ used' = [used EXCEPT !.stops = @ + 1]

LEMMA BoundsHold == TypeOK /\ Bounded => used' \in Used
<1> SUFFICES ASSUME TypeOK, Bounded PROVE used' \in Used
  OBVIOUS
<1>1. used \in Used /\ {MaxUses, MaxQuits, MaxAccidents, MaxStops} \subseteq Nat
  BY SyslogAssumption DEF TypeOK, Used
<1>2. QED
  BY <1>1 DEF Bounded, Used

LEMMA QuietSteps ==
  ASSUME Inv, NEW p \in Clients,
         \/ TestShutdown(p) \/ Create(p) \/ CreateFails(p) \/ ConnectFails(p) \/ Disconnected(p)
         \/ WindowChanged(p) \/ TimerEnds(p) \/ ShowSystrayMenu(p) \/ QuitInMenu(p) \/ Quit(p)
         \/ AwaitShutdown(p) \/ CloseViewer(p)
         \/ (NotifyLogoff(p) /\ client[p].sock # "connected")
  PROVE  Inv'
<1> SUFFICES TypeOK' /\ Moved(p)
  BY ClientMoves
<1>1. client \in [Clients -> Client]
  BY DEF Inv, TypeOK
<1>2. /\ client' = [client EXCEPT ![p] = client'[p]]
      /\ UNCHANGED <<server, settings, mark, worker, link, history>>
  BY <1>1 DEF TestShutdown, Create, CreateFails, ConnectFails, Disconnected, WindowChanged,
     TimerEnds, ShowSystrayMenu, QuitInMenu, Quit, AwaitShutdown, CloseViewer, NotifyLogoff
<1>3. used' \in Used
  <2>1. Bounded
    BY DEF TestShutdown, Create, CreateFails, ConnectFails, Disconnected,
      WindowChanged, TimerEnds, ShowSystrayMenu, QuitInMenu, Quit, AwaitShutdown, CloseViewer,
      NotifyLogoff, Bounded
  <2>2. QED
    BY <2>1, BoundsHold DEF Inv
<1>4. client'[p] \in Client /\ Harmless(p)
  <2>1. /\ client[p].sock = "connected" =>
             client[p].cworker \in {"auth", "logon", "recv", "close", "gone"}
        /\ client[p].cworker \in {"top", "create"} => client[p].sock = "none"
    BY DEF Inv, Sockets
  <2>2. CASE TestShutdown(p)
    BY <1>1, <2>1, <2>2 DEF TestShutdown, Client, Harmless
  <2>3. CASE Create(p)
    BY <1>1, <2>1, <2>3 DEF Create, Client, Harmless
  <2>4. CASE CreateFails(p)
    BY <1>1, <2>1, <2>4 DEF CreateFails, Client, Harmless
  <2>5. CASE ConnectFails(p)
    BY <1>1, <2>1, <2>5 DEF ConnectFails, Client, Harmless
  <2>6. CASE Disconnected(p)
    BY <1>1, <2>1, <2>6 DEF Disconnected, Client, Harmless
  <2>7. CASE WindowChanged(p)
    BY <1>1, <2>1, <2>7 DEF WindowChanged, Client, Harmless
  <2>8. CASE TimerEnds(p)
    BY <1>1, <2>1, <2>8 DEF TimerEnds, Client, Harmless
  <2>9. CASE ShowSystrayMenu(p)
    BY <1>1, <2>1, <2>9, ZenonT(60) DEF ShowSystrayMenu, Client, Settings, Harmless
  <2>10. CASE QuitInMenu(p)
    BY <1>1, <2>1, <2>10, ZenonT(60) DEF QuitInMenu, Client, Harmless
  <2>11. CASE Quit(p)
    BY <1>1, <2>1, <2>11, ZenonT(60) DEF Quit, Client, Harmless
  <2>12. CASE AwaitShutdown(p)
    BY <1>1, <2>1, <2>12 DEF AwaitShutdown, Client, Harmless
  <2>13. CASE CloseViewer(p)
    BY <1>1, <2>1, <2>13 DEF CloseViewer, Client, Harmless
  <2>14. CASE NotifyLogoff(p) /\ client[p].sock # "connected"
    BY <1>1, <2>1, <2>14 DEF NotifyLogoff, Client, Harmless
  <2>15. QED
    BY <2>2, <2>3, <2>4, <2>5, <2>6, <2>7, <2>8, <2>9, <2>10, <2>11, <2>12, <2>13,
     <2>14
<1>5. client' \in [Clients -> Client] /\ \A q \in Clients \ {p} : client'[q] = client[q]
  BY <1>1, <1>2, <1>4
<1>6. TypeOK'
  BY <1>2, <1>3, <1>5 DEF Inv, TypeOK, Used, server, settings
<1>7. QED
  BY <1>2, <1>4, <1>5, <1>6 DEF Moved

LEMMA AppendedQueue ==
  ASSUME NEW S, NEW q \in Seq(S), NEW m \in S
  PROVE  /\ \A id : Has(Append(q, m), id) <=> Has(q, id) \/ m.id = id
         /\ Announced(q) /\ (m.id = "LOGTHIS" => Has(q, "LOGON")) => Announced(Append(q, m))
<1> DEFINE r == Append(q, m)
<1>1. /\ Len(r) = Len(q) + 1 /\ Len(q) \in Nat /\ r[Len(q) + 1] = m
      /\ \A i \in 1 .. Len(q) : r[i] = q[i]
  BY Appended
<1> HIDE DEF r
<1>2. ASSUME NEW id PROVE Has(r, id) <=> Has(q, id) \/ m.id = id
  <2>1. ASSUME NEW i \in 1 .. Len(r), r[i].id = id PROVE Has(q, id) \/ m.id = id
    <3>1. i \in 1 .. Len(q) \/ i = Len(q) + 1
      BY <1>1
    <3>2. QED
      BY <1>1, <2>1, <3>1 DEF Has
  <2>2. ASSUME NEW i \in 1 .. Len(q), q[i].id = id PROVE Has(r, id)
    <3>1. i \in 1 .. Len(r) /\ r[i] = q[i]
      BY <1>1
    <3>2. QED
      BY <2>2, <3>1 DEF Has
  <2>3. m.id = id => Has(r, id)
    BY <1>1 DEF Has
  <2>4. QED
    BY <2>1, <2>2, <2>3 DEF Has
<1>3. ASSUME Announced(q), m.id = "LOGTHIS" => Has(q, "LOGON") PROVE Announced(r)
  <2> SUFFICES ASSUME NEW i \in 1 .. Len(r), r[i].id = "LOGTHIS"
               PROVE  \E j \in 1 .. i - 1 : r[j].id = "LOGON"
    BY DEF Announced
  <2>1. CASE i \in 1 .. Len(q)
    <3>1. PICK j \in 1 .. i - 1 : q[j].id = "LOGON"
      BY <1>1, <1>3, <2>1 DEF Announced
    <3>2. r[j] = q[j]
      BY <1>1, <2>1
    <3>3. QED
      BY <3>1, <3>2
  <2>2. CASE i = Len(q) + 1
    <3>1. PICK j \in 1 .. Len(q) : q[j].id = "LOGON"
      BY <1>1, <1>3, <2>2 DEF Has
    <3>2. r[j] = q[j] /\ j \in 1 .. i - 1
      BY <1>1, <2>2
    <3>3. QED
      BY <3>1, <3>2
  <2>3. QED
    BY <1>1, <2>1, <2>2
<1>4. QED
  BY <1>2, <1>3 DEF r

\* What a send of client p changes, by its outcome.
LEMMA SendIs ==
  ASSUME Inv, NEW p \in Clients, NEW m \in ToServer, NEW ok \in BOOLEAN, ClientSends(p, m, ok)
  PROVE  /\ link' \in [Conns -> Link]
         /\ \A c \in Conns : /\ link'[c].down = link[c].down /\ link'[c].serverEnd = link[c].serverEnd
                             /\ link'[c].clientEnd = link[c].clientEnd
                             /\ link'[c] = link[c] \/ (client[p].sock = "connected" /\ ok /\ c = LastConn(p))
         /\ ok => client[p].sock = "connected"
         /\ client[p].sock = "connected" =>
              \/ /\ link[LastConn(p)].serverEnd = "closed"
                 /\ link'[LastConn(p)].up = link[LastConn(p)].up
              \/ /\ ok /\ link[LastConn(p)].serverEnd = "open"
                 /\ link'[LastConn(p)].reset = link[LastConn(p)].reset
                 /\ link'[LastConn(p)].up = Append(link[LastConn(p)].up, m)
<1>1. link \in [Conns -> Link]
  BY DEF Inv, TypeOK
<1>2. CASE ok /\ client[p].sock = "connected" /\ link[LastConn(p)].serverEnd = "open"
           /\ link' = [link EXCEPT ![LastConn(p)].up = Append(@, m)]
  <2>1. link[LastConn(p)].up \in Seq(ToServer) /\ LastConn(p) \in Conns
    BY <1>1, <1>2, LastConnIs DEF Link
  <2>2. Append(link[LastConn(p)].up, m) \in Seq(ToServer)
    BY <2>1, Appended
  <2>3. link'[LastConn(p)] \in Link
    BY <1>1, <1>2, <2>1, <2>2 DEF Link
  <2>4. QED
    BY <1>1, <1>2, <2>1, <2>3
<1>3. CASE ok /\ client[p].sock = "connected" /\ link[LastConn(p)].serverEnd = "closed"
           /\ link' = [link EXCEPT ![LastConn(p)].reset = TRUE]
  <2>1. LastConn(p) \in Conns
    BY <1>3, LastConnIs
  <2>2. link'[LastConn(p)] \in Link
    BY <1>1, <1>3, <2>1 DEF Link
  <2>3. QED
    BY <1>1, <1>3, <2>1, <2>2
<1>4. CASE ~ok /\ (client[p].sock = "connected" => link[LastConn(p)].serverEnd = "closed") /\ link' = link
  BY <1>1, <1>4
<1>5. QED
  BY <1>2, <1>3, <1>4 DEF ClientSends

\* A step of a client that sends message m.
Speaks(p, m, ok) ==
  /\ client' \in [Clients -> Client] /\ \A q \in Clients \ {p} : client'[q] = client[q]
  /\ UNCHANGED <<server, settings, mark, worker, used>>
  /\ client'[p].last = client[p].last /\ client'[p].copy = client[p].copy /\ client'[p].sock = client[p].sock
  /\ \/ /\ client'[p].cworker = client[p].cworker /\ SentEarly(p, ok)
        /\ client'[p].flag_sent_username_once = client[p].flag_sent_username_once
     \/ /\ client[p].cworker \in {"auth", "logon"} /\ client'[p].cworker \in {"logon", "recv", "close", "gone"}
        /\ client[p].cworker = "auth" => m.id = "AUTH"
        /\ client[p].cworker = "logon" => m.id = "LOGON"
        /\ client'[p].flag_sent_username_once =
             IF client[p].cworker = "logon" THEN ok ELSE client[p].flag_sent_username_once
        /\ client'[p].cworker = "recv" => client'[p].flag_sent_username_once
        /\ client'[p].cworker = "logon" => ~client'[p].flag_sent_username_once
        /\ UNCHANGED history
  /\ client'[p].timer = "wait" => client[p].timer = "wait"
  /\ m.id = "LOGTHIS" => client[p].timer = "wait"
  /\ client'[p].ui \notin {"run", "menu", "logoff"} =>
       \/ client[p].ui \notin {"run", "menu", "logoff"}
       \/ client[p].sock = "connected" /\ m.id = "LOGOFF"

LEMMA ClientSpeaks ==
  ASSUME Inv, NEW p \in Clients, NEW m \in ToServer, NEW ok \in BOOLEAN,
         ClientSends(p, m, ok), Speaks(p, m, ok)
  PROVE  Inv'
<1> DEFINE L == LastConn(p)
<1>1. /\ \A c \in Conns : /\ link'[c].down = link[c].down /\ link'[c].serverEnd = link[c].serverEnd
                          /\ link'[c].clientEnd = link[c].clientEnd
                          /\ link'[c] = link[c] \/ (client[p].sock = "connected" /\ ok /\ c = L)
      /\ ok => client[p].sock = "connected"
  BY SendIs
<1>2. ASSUME client[p].sock = "connected"
      PROVE  /\ L \in Conns /\ L[1] = p /\ L[2] = client[p].last /\ link[L].clientEnd = "open"
             /\ worker[L].pc # "none" /\ link[L].up \in Seq(ToServer)
             /\ \A c \in Conns : c[1] = p /\ link[c].clientEnd = "open" => c = L
  BY <1>2, LastConnIs DEF Inv, TypeOK, Link
<1>3. ASSUME client[p].sock = "connected"
      PROVE  \/ link[L].serverEnd = "closed" /\ link'[L].up = link[L].up
             \/ /\ ok /\ link[L].serverEnd = "open" /\ link'[L].reset = link[L].reset
                /\ link'[L].up = Append(link[L].up, m)
  BY <1>3, SendIs
<1> HIDE DEF L
<1>4. /\ \A q \in Clients : /\ client'[q].last = client[q].last /\ client'[q].sock = client[q].sock
                            /\ client'[q].copy = client[q].copy
                            /\ q # p => client'[q] = client[q]
      /\ UNCHANGED <<server, settings, mark, worker>>
      /\ history'.excused = history.excused /\ history'.overtaken = history.overtaken
      /\ history'.overlap = history.overlap /\ \A c \in history.early : c \in history'.early
  BY DEF Inv, TypeOK, Speaks, SentEarly
<1> USE DEF server, settings
<1>5. Phases'
  BY <1>1, <1>2, <1>4, ConnsAre DEF Inv, Phases, Alive
<1>6. Sockets'
  BY <1>1, <1>4, ConnsAre DEF Inv, Sockets, Speaks
<1>7. Marks'
  BY <1>4 DEF Inv, Marks
<1>8. Copies'
  <2>1. \A c \in Conns : (Served(c)' <=> Served(c)) /\ (Pending(c)' <=> Pending(c))
    BY <1>1, <1>4 DEF Served, Pending
  <2>2. QED
    BY <1>1, <1>4, <2>1, ConnsAre DEF Inv, Copies, Current
<1>9. ASSUME client[p].sock = "connected", link[L].serverEnd = "open"
      PROVE  /\ link'[L].reset = link[L].reset /\ ok
             /\ \A id : Has(link'[L].up, id) <=> Has(link[L].up, id) \/ m.id = id
             /\ Announced(link[L].up) /\ (m.id = "LOGTHIS" => Has(link[L].up, "LOGON")) => Announced(link'[L].up)
             /\ link'[L].up # <<>> /\ link'[L].up[1] = IF link[L].up = <<>> THEN m ELSE link[L].up[1]
  <2>1. ok /\ link'[L].reset = link[L].reset /\ link'[L].up = Append(link[L].up, m) /\ link[L].up \in Seq(ToServer)
    BY <1>2, <1>3, <1>9
  <2>2. /\ \A id : Has(link'[L].up, id) <=> Has(link[L].up, id) \/ m.id = id
        /\ Announced(link[L].up) /\ (m.id = "LOGTHIS" => Has(link[L].up, "LOGON")) => Announced(link'[L].up)
    BY <2>1, AppendedQueue
  <2>3. link'[L].up # <<>> /\ link'[L].up[1] = IF link[L].up = <<>> THEN m ELSE link[L].up[1]
    BY <2>1, Appended
  <2>4. QED
    BY <2>1, <2>2, <2>3
<1>10. AuthFirst'
  <2> SUFFICES ASSUME NEW c \in Conns, c \notin history'.early, ~worker'[c].auth, link'[c].serverEnd = "open"
               PROVE  IF link'[c].up = <<>> THEN link'[c].clientEnd = "open" => client'[c[1]].cworker = "auth"
                                            ELSE link'[c].up[1].id = "AUTH"
    BY DEF AuthFirst
  <2>1. IF link[c].up = <<>> THEN link[c].clientEnd = "open" => client[c[1]].cworker = "auth"
                             ELSE link[c].up[1].id = "AUTH"
    BY <1>1, <1>4 DEF Inv, AuthFirst
  <2>2. CASE client[p].sock = "connected" /\ c = L
    <3>1. client[p].cworker = "auth" => m.id = "AUTH"
      BY <1>1, <1>2, <1>9, <2>2 DEF Inv, Phases, TypeOK, Speaks, SentEarly, L
    <3>2. QED
      BY <1>1, <1>2, <1>9, <2>1, <2>2, <3>1
  <2>3. CASE ~(client[p].sock = "connected" /\ c = L)
    <3>1. link'[c] = link[c] /\ c[1] \in Clients
      BY <1>1, <2>3, ConnsAre
    <3>2. link[c].clientEnd = "open" => c[1] # p
      BY <1>2, <2>3 DEF Inv, Sockets
    <3>3. QED
      BY <1>4, <2>1, <3>1, <3>2
  <2>4. QED
    BY <2>2, <2>3
<1>11. LogonFirst'
  <2>1. \A q \in Clients :
          /\ client'[q].flag_sent_username_once => client'[q].last >= 1
          /\ client'[q].cworker = "logon" => ~client'[q].flag_sent_username_once
          /\ client'[q].cworker = "recv" \/ client'[q].copy.general \/ client'[q].timer = "wait" =>
               client'[q].flag_sent_username_once
    <3>1. ok => client[p].last >= 1
      BY <1>1 DEF Inv, Sockets
    <3>2. QED
      BY <1>1, <1>4, <3>1 DEF Inv, LogonFirst, Speaks
  <2> SUFFICES ASSUME NEW c \in Conns, c[2] = 1, worker[c].pc \in Serving \cup {"none", "backlog"},
                      ~worker[c].named
               PROVE  /\ Announced(link'[c].up)
                      /\ client'[c[1]].last = 1 /\ client'[c[1]].flag_sent_username_once
                           /\ link'[c].serverEnd = "open" => Has(link'[c].up, "LOGON")
    BY <1>4, <2>1 DEF LogonFirst
  <2>2. /\ Announced(link[c].up)
        /\ client[c[1]].last = 1 /\ client[c[1]].flag_sent_username_once
             /\ link[c].serverEnd = "open" => Has(link[c].up, "LOGON")
    BY DEF Inv, LogonFirst
  <2>3. CASE client[p].sock = "connected" /\ c = L
    <3>1. CASE link[L].serverEnd = "open"
      <4>1. m.id = "LOGTHIS" => Has(link[c].up, "LOGON")
        BY <1>2, <2>2, <2>3, <3>1 DEF Inv, LogonFirst, Speaks
      <4>2. client'[p].flag_sent_username_once => client[p].flag_sent_username_once \/ m.id = "LOGON"
        BY DEF Speaks
      <4>3. QED
        BY <1>2, <1>4, <1>9, <2>2, <2>3, <3>1, <4>1, <4>2
    <3>2. CASE link[L].serverEnd # "open"
      BY <1>1, <1>3, <2>2, <2>3, <3>2
    <3>3. QED
      BY <3>1, <3>2
  <2>4. CASE ~(client[p].sock = "connected" /\ c = L)
    <3>1. link'[c] = link[c] /\ c[1] \in Clients /\ c = <<c[1], c[2]>>
      BY <1>1, <2>4, ConnsAre
    <3>2. client[c[1]].last = 1 /\ client[c[1]].sock = "connected" => c[1] # p
      BY <2>4, <3>1 DEF L, LastConn
    <3>3. client'[p].flag_sent_username_once =>
            client[p].flag_sent_username_once \/ client[p].sock = "connected"
      BY <1>1 DEF Speaks
    <3>4. QED
      BY <1>4, <2>2, <3>1, <3>2, <3>3
  <2>5. QED
    BY <2>3, <2>4
<1>12. Logoffs'
  <2> SUFFICES ASSUME NEW c \in Conns, Alive(c), c \notin history.excused
               PROVE  Hears(c)'
    BY <1>4 DEF Logoffs, Alive
  <2>1. Hears(c)
    BY DEF Inv, Logoffs
  <2>2. CASE client[p].sock = "connected" /\ c = L
    <3>1. worker[c].pc # "log" => link[L].serverEnd = "open"
      BY <2>1, <2>2 DEF Hears
    <3>2. ASSUME worker[c].pc # "log", Has(link[c].up, "LOGOFF") \/ m.id = "LOGOFF"
          PROVE  Has(link'[c].up, "LOGOFF")
      BY <1>9, <2>2, <3>1, <3>2
    <3>3. client'[p].ui \notin {"run", "menu", "logoff"} =>
            client[p].ui \notin {"run", "menu", "logoff"} \/ m.id = "LOGOFF"
      BY DEF Speaks
    <3>4. QED
      BY <1>1, <1>2, <1>4, <1>9, <2>1, <2>2, <3>1, <3>2, <3>3 DEF Hears
  <2>3. CASE ~(client[p].sock = "connected" /\ c = L)
    <3>1. link'[c] = link[c] /\ c[1] \in Clients
      BY <1>1, <2>3, ConnsAre
    <3>2. link[c].clientEnd = "open" => c[1] # p
      BY <1>2, <2>3 DEF Inv, Sockets
    <3>3. QED
      BY <1>4, <2>1, <3>1, <3>2 DEF Hears
  <2>4. QED
    BY <2>2, <2>3
<1>13. TypeOK'
  <2>1. link' \in [Conns -> Link] /\ client' \in [Clients -> Client]
    BY SendIs DEF Speaks
  <2>2. history' \in [early : SUBSET Conns, overtaken : SUBSET Conns, excused : SUBSET Conns, overlap : BOOLEAN]
    <3>1. history' = history \/ (L \in Conns /\ history' = [history EXCEPT !.early = @ \cup {L}])
      BY <1>1, <1>2 DEF Speaks, SentEarly, L
    <3>2. history \in [early : SUBSET Conns, overtaken : SUBSET Conns, excused : SUBSET Conns, overlap : BOOLEAN]
      BY DEF Inv, TypeOK
    <3>3. QED
      BY <3>1, <3>2
  <2>3. QED
    BY <2>1, <2>2 DEF Inv, TypeOK, Speaks
<1>14. QED
  BY <1>5, <1>6, <1>7, <1>8, <1>10, <1>11, <1>12, <1>13 DEF Inv

LEMMA SendingSteps ==
  ASSUME Inv, NEW p \in Clients,
         \/ SendAuth(p) \/ SendLogon(p) \/ WriteLog(p) \/ ChooseEntry(p)
         \/ (NotifyLogoff(p) /\ client[p].sock = "connected")
  PROVE  Inv'
<1> SUFFICES \E m \in ToServer, ok \in BOOLEAN : ClientSends(p, m, ok) /\ Speaks(p, m, ok)
  BY ClientSpeaks
<1>1. /\ client \in [Clients -> Client] /\ client[p].flag_sent_username_once \in BOOLEAN
      /\ client[p].cworker = "logon" => ~client[p].flag_sent_username_once
  BY DEF Inv, TypeOK, Client, LogonFirst
<1>2. client' = [client EXCEPT ![p] = client'[p]] /\ UNCHANGED <<server, settings, mark, worker, used>>
  BY <1>1 DEF SendAuth, SendLogon, WriteLog, ChooseEntry, NotifyLogoff
<1>3. \A id \in {"AUTH", "LOGON", "LOGOFF", "LOGTHIS", "SET_LOGGING", "SET_LOGCAPCHANGES", "ACQUIRE_LOGDATA"},
         v \in BOOLEAN : [id |-> id, val |-> v] \in ToServer
  BY DEF ToServer
<1>4. ASSUME client'[p] \in Client
      PROVE  client' \in [Clients -> Client] /\ \A q \in Clients \ {p} : client'[q] = client[q]
  BY <1>1, <1>2, <1>4
<1>5. CASE SendAuth(p)
  <2>1. PICK ok \in BOOLEAN :
          /\ ClientSends(p, [id |-> "AUTH", val |-> FALSE], ok)
          /\ client' = [client EXCEPT ![p].cworker = IF ~ok THEN "gone"
                                                     ELSE IF client[p].flag_sent_username_once THEN Inner(p)
                                                     ELSE "logon"]
    BY <1>5 DEF SendAuth
  <2>2. client'[p] \in Client
    BY <1>1, <2>1 DEF Client, Inner
  <2>3. Speaks(p, [id |-> "AUTH", val |-> FALSE], ok)
    BY <1>1, <1>2, <1>4, <1>5, <2>1, <2>2 DEF Speaks, SendAuth, Inner
  <2>4. QED
    BY <1>3, <2>1, <2>3
<1>6. CASE SendLogon(p)
  <2>1. PICK ok \in BOOLEAN :
          /\ ClientSends(p, [id |-> "LOGON", val |-> FALSE], ok)
          /\ client' = [client EXCEPT ![p].cworker = IF ok THEN Inner(p) ELSE "gone",
                                      ![p].flag_sent_username_once = ok]
    BY <1>6 DEF SendLogon
  <2>2. PICK w \in {"recv", "close", "gone"} :
          /\ client' = [client EXCEPT ![p].cworker = w, ![p].flag_sent_username_once = ok]
          /\ ok <=> w # "gone"
    BY <2>1 DEF Inner
  <2>3. client'[p] \in Client
    <3>1. client'[p] = [client[p] EXCEPT !.cworker = w, !.flag_sent_username_once = ok] /\ client[p] \in Client
      BY <1>1, <2>2
    <3>2. QED
      BY <3>1 DEF Client
  <2>4. Speaks(p, [id |-> "LOGON", val |-> FALSE], ok)
    <3>1. client'[p] = [client[p] EXCEPT !.cworker = w, !.flag_sent_username_once = ok] /\ client[p] \in Client
      BY <1>1, <2>2
    <3>2. client[p].cworker = "logon" /\ UNCHANGED history
      BY <1>6 DEF SendLogon
    <3>3. QED
      BY <1>2, <1>4, <2>2, <2>3, <3>1, <3>2 DEF Speaks, Client
  <2>5. QED
    BY <1>3, <2>1, <2>4
<1>7. CASE WriteLog(p)
  <2>1. PICK ok \in BOOLEAN : ClientSends(p, [id |-> "LOGTHIS", val |-> FALSE], ok) /\ SentEarly(p, ok)
    BY <1>7 DEF WriteLog
  <2>2. client'[p] \in Client
    BY <1>1, <1>7 DEF Client, WriteLog
  <2>3. Speaks(p, [id |-> "LOGTHIS", val |-> FALSE], ok)
    BY <1>1, <1>2, <1>4, <1>7, <2>1, <2>2 DEF Speaks, WriteLog
  <2>4. QED
    BY <1>3, <2>1, <2>3
<1>8. CASE ChooseEntry(p)
  <2>1. PICK m \in MenuMessages(p), ok \in BOOLEAN : ClientSends(p, m, ok) /\ SentEarly(p, ok)
    BY <1>8 DEF ChooseEntry
  <2>2. client'[p] \in Client
    BY <1>1, <1>8, ZenonT(60) DEF Client, ChooseEntry
  <2>3. client[p].shown \in BOOLEAN /\ client[p].copy.capchanges \in BOOLEAN
    BY <1>1 DEF Client, Settings
  <2>4. m \in ToServer /\ m.id \notin {"LOGTHIS", "AUTH", "LOGON"}
    <3>1. \/ m = [id |-> "ACQUIRE_LOGDATA", val |-> FALSE] \/ m = [id |-> "SET_LOGGING", val |-> ~client[p].shown]
          \/ m = [id |-> "SET_LOGCAPCHANGES", val |-> ~client[p].copy.capchanges]
      BY DEF MenuMessages
    <3>2. PICK id \in {"ACQUIRE_LOGDATA", "SET_LOGGING", "SET_LOGCAPCHANGES"}, v \in BOOLEAN :
            m = [id |-> id, val |-> v]
      BY <2>3, <3>1
    <3>3. QED
      BY <1>3, <3>2
  <2>5. Speaks(p, m, ok)
    BY <1>1, <1>2, <1>4, <1>8, <2>1, <2>2, <2>4 DEF Speaks, ChooseEntry
  <2>6. QED
    BY <2>1, <2>4, <2>5
<1>9. CASE NotifyLogoff(p) /\ client[p].sock = "connected"
  <2>1. PICK ok \in BOOLEAN : ClientSends(p, [id |-> "LOGOFF", val |-> FALSE], ok) /\ SentEarly(p, ok)
    BY <1>9 DEF NotifyLogoff
  <2>2. client'[p] \in Client
    BY <1>1, <1>9 DEF Client, NotifyLogoff
  <2>3. Speaks(p, [id |-> "LOGOFF", val |-> FALSE], ok)
    BY <1>1, <1>2, <1>4, <1>9, <2>1, <2>2 DEF Speaks, NotifyLogoff
  <2>4. QED
    BY <1>3, <2>1, <2>3
<1>10. QED
  BY <1>5, <1>6, <1>7, <1>8, <1>9

\* A step of a client that closes its csocket.
Hangs(p) ==
  /\ client' \in [Clients -> Client] /\ \A q \in Clients \ {p} : client'[q] = client[q]
  /\ UNCHANGED <<server, settings, mark, worker>> /\ Bounded
  /\ link' = Closed(p)
  /\ client'[p].sock = "none" /\ client'[p].last = client[p].last /\ client'[p].copy = client[p].copy
  /\ client'[p].flag_sent_username_once = client[p].flag_sent_username_once
  /\ client'[p].cworker = client[p].cworker \/ client'[p].cworker \in {"top", "gone"}
  /\ client'[p].timer = "wait" => client[p].timer = "wait"
  /\ history' = history \/ (client[p].sock = "connected" /\ history' = Excuse(LastConn(p)))
  /\ client[p].sock = "connected" =>
       \/ history' = Excuse(LastConn(p))
       \/ link[LastConn(p)].down = <<>> /\ client[p].ui \notin {"run", "menu", "logoff"}

LEMMA ClientHangs == ASSUME Inv, NEW p \in Clients, Hangs(p) PROVE Inv'
<1> DEFINE L == LastConn(p)
<1>1. ASSUME client[p].sock = "connected"
      PROVE  /\ L \in Conns /\ L[1] = p /\ L[2] = client[p].last /\ worker[L].pc # "none"
             /\ \A c \in Conns : c[1] = p /\ link[c].clientEnd = "open" => c = L
  BY <1>1, LastConnIs
<1>2. link \in [Conns -> Link] /\ history \in [early : SUBSET Conns, overtaken : SUBSET Conns,
                                               excused : SUBSET Conns, overlap : BOOLEAN]
  BY DEF Inv, TypeOK
<1>3. /\ \A q \in Clients : /\ client'[q].last = client[q].last /\ client'[q].copy = client[q].copy
                            /\ q # p => client'[q] = client[q]
      /\ UNCHANGED <<server, settings, mark, worker>>
  BY DEF Hangs
<1>4. /\ history'.early = history.early /\ history'.overtaken = history.overtaken
      /\ history'.overlap = history.overlap /\ \A c \in history.excused : c \in history'.excused
      /\ client[p].sock = "connected" /\ worker[L].pc # "gone" =>
           \/ L \in history'.excused
           \/ link[L].down = <<>> /\ client[p].ui \notin {"run", "menu", "logoff"}
      /\ history' \in [early : SUBSET Conns, overtaken : SUBSET Conns, excused : SUBSET Conns, overlap : BOOLEAN]
  <2>1. history' = history \/ (client[p].sock = "connected" /\ history' = Excuse(L))
    BY DEF Hangs
  <2>2. client[p].sock = "connected" =>
          history' = Excuse(L) \/ (link[L].down = <<>> /\ client[p].ui \notin {"run", "menu", "logoff"})
    BY DEF Hangs
  <2> HIDE DEF L
  <2>3. CASE history' = history
    BY <1>2, <2>2, <2>3 DEF Excuse
  <2>4. CASE client[p].sock = "connected" /\ history' = Excuse(L)
    BY <1>1, <1>2, <2>4 DEF Excuse
  <2>5. QED
    BY <2>1, <2>3, <2>4
<1>5. /\ link' \in [Conns -> Link]
      /\ \A c \in Conns :
           IF client[p].sock = "connected" /\ c = L
           THEN /\ link'[c].up = link[c].up /\ link'[c].serverEnd = link[c].serverEnd
                /\ link'[c].clientEnd = "closed"
                /\ link'[c].reset => link[c].reset \/ link[c].down # <<>>
           ELSE link'[c] = link[c]
  <2>1. CASE client[p].sock = "connected"
    <3>1. link' = [link EXCEPT ![L] = ClientEndClosed(link[L])]
      BY <2>1 DEF Hangs, Closed
    <3>2. L \in Conns /\ link[L] \in Link
      BY <1>1, <1>2, <2>1
    <3> HIDE DEF L
    <3>3. ClientEndClosed(link[L]) \in Link
      BY <3>2, EmptySeq DEF ClientEndClosed, Link
    <3>4. link' \in [Conns -> Link] /\ link'[L] = ClientEndClosed(link[L])
          /\ \A c \in Conns : c # L => link'[c] = link[c]
      BY <1>2, <3>1, <3>2, <3>3
    <3>5. /\ link'[L].up = link[L].up /\ link'[L].serverEnd = link[L].serverEnd
          /\ link'[L].clientEnd = "closed"
          /\ link'[L].reset => link[L].reset \/ link[L].down # <<>>
      BY <3>2, <3>4 DEF ClientEndClosed, Link
    <3>6. QED
      BY <2>1, <3>4, <3>5
  <2>2. CASE client[p].sock # "connected"
    BY <1>2, <2>2 DEF Hangs, Closed
  <2>3. QED
    BY <2>1, <2>2
<1> HIDE DEF L
<1>6. \A c \in Conns : link'[c].clientEnd = "open" => c[1] # p /\ c[1] \in Clients /\ link'[c] = link[c]
  BY <1>1, <1>5, ConnsAre DEF Inv, Sockets
<1>7. client'[p].sock = "none" /\ (client'[p].cworker = client[p].cworker \/ client'[p].cworker \in {"top", "gone"})
  BY DEF Hangs
<1> USE DEF server, settings
<1>8. TypeOK'
  <2>1. used' \in Used
    BY BoundsHold DEF Inv, Hangs
  <2>2. QED
    BY <1>4, <1>5, <2>1 DEF Inv, TypeOK, Used, Hangs
<1>9. Phases'
  BY <1>1, <1>3, <1>5, ConnsAre DEF Inv, Phases, Alive
<1>10. Sockets'
  <2>1. \A q \in Clients :
          /\ client'[q].last <= MaxConns[q]
          /\ client'[q].sock = "connected" =>
               client'[q].last >= 1 /\ client'[q].cworker \in {"auth", "logon", "recv", "close", "gone"}
          /\ client'[q].cworker \in {"top", "create"} => client'[q].sock = "none"
    BY <1>3, <1>7 DEF Inv, Sockets
  <2>2. ASSUME NEW c \in Conns
        PROVE  link'[c].clientEnd = "open" <=> client'[c[1]].sock = "connected" /\ c[2] = client'[c[1]].last
    <3>1. CASE c[1] = p
      BY <1>6, <1>7, <3>1
    <3>2. CASE c[1] # p
      BY <1>1, <1>3, <1>5, <3>2, ConnsAre DEF Inv, Sockets
    <3>3. QED
      BY <3>1, <3>2
  <2>3. QED
    BY <2>1, <2>2 DEF Sockets
<1>11. AuthFirst'
  <2>1. \A c \in Conns : link'[c].up = link[c].up /\ link'[c].serverEnd = link[c].serverEnd
    BY <1>5
  <2>2. QED
    BY <1>3, <1>4, <1>6, <2>1 DEF Inv, AuthFirst
<1>12. LogonFirst'
  <2>1. \A c \in Conns : link'[c].up = link[c].up /\ link'[c].serverEnd = link[c].serverEnd
    BY <1>5
  <2>2. \A q \in Clients :
          client'[q].flag_sent_username_once = client[q].flag_sent_username_once
            /\ (client'[q].timer = "wait" => client[q].timer = "wait")
    BY <1>3 DEF Hangs
  <2>3. QED
    BY <1>3, <1>7, <2>1, <2>2, ConnsAre DEF Inv, LogonFirst
<1>13. Marks'
  BY <1>3, <1>4 DEF Inv, Marks
<1>14. Logoffs'
  <2> SUFFICES ASSUME NEW c \in Conns, Alive(c), c \notin history'.excused PROVE Hears(c)'
    BY <1>3 DEF Logoffs, Alive
  <2>1. Hears(c)
    BY <1>4 DEF Inv, Logoffs
  <2>2. CASE client[p].sock = "connected" /\ c = L
    <3>1. link[c].down = <<>> /\ client[p].ui \notin {"run", "menu", "logoff"}
      BY <1>4, <2>2 DEF Alive
    <3>2. QED
      BY <1>1, <1>3, <1>4, <1>5, <2>1, <2>2, <3>1 DEF Hears
  <2>3. CASE ~(client[p].sock = "connected" /\ c = L)
    BY <1>3, <1>4, <1>5, <1>6, <2>1, <2>3 DEF Hears
  <2>4. QED
    BY <2>2, <2>3
<1>15. Copies'
  <2>1. \A c \in Conns : /\ Served(c)' => Served(c) /\ link'[c] = link[c] /\ client'[c[1]].copy = client[c[1]].copy
                         /\ Pending(c)' <=> Pending(c)
    BY <1>3, <1>4, <1>6 DEF Served, Pending
  <2>2. QED
    BY <1>3, <2>1 DEF Inv, Copies, Current
<1>16. QED
  BY <1>8, <1>9, <1>10, <1>11, <1>12, <1>13, <1>14, <1>15 DEF Inv

LEMMA HangingSteps ==
  ASSUME Inv, NEW p \in Clients, Close(p) \/ Interrupt(p) \/ Kill(p) PROVE Inv'
<1> SUFFICES Hangs(p)
  BY ClientHangs
<1>1. client \in [Clients -> Client] /\ client[p] \in Client
  BY DEF Inv, TypeOK
<1>2. client' = [client EXCEPT ![p] = client'[p]] /\ UNCHANGED <<server, settings, mark, worker>> /\ link' = Closed(p)
  BY <1>1 DEF Close, Interrupt, Kill
<1>3. Bounded
  BY DEF Close, Interrupt, Kill, Bounded
<1>4. client'[p] \in Client
  <2>1. CASE Close(p)
    BY <1>1, <2>1 DEF Close, Client
  <2>2. CASE Interrupt(p)
    BY <1>1, <2>2 DEF Interrupt, Client
  <2>3. CASE Kill(p)
    <3> DEFINE a == [client[p] EXCEPT !.ui = "killed", !.cworker = "gone"]
               b == [a EXCEPT !.sock = "none", !.timer = "gone"]
    <3>1. client'[p] = [b EXCEPT !.viewers = 0]
      BY <1>1, <2>3 DEF Kill
    <3>2. a \in Client
      BY <1>1 DEF Client
    <3> HIDE DEF a
    <3>3. b \in Client
      BY <3>2 DEF Client
    <3> HIDE DEF b
    <3>4. QED
      BY <3>1, <3>3 DEF Client
  <2>4. QED
    BY <2>1, <2>2, <2>3
<1>5. client' \in [Clients -> Client] /\ \A q \in Clients \ {p} : client'[q] = client[q]
  BY <1>1, <1>2, <1>4
<1>6. CASE Close(p)
  BY <1>1, <1>2, <1>3, <1>5, <1>6 DEF Close, Hangs
<1>7. CASE Interrupt(p)
  BY <1>1, <1>2, <1>3, <1>5, <1>7 DEF Interrupt, Hangs
<1>8. CASE Kill(p)
  BY <1>1, <1>2, <1>3, <1>5, <1>8 DEF Kill, Hangs
<1>9. QED
  BY <1>6, <1>7, <1>8

LEMMA TakenQueue ==
  ASSUME NEW S, NEW q \in Seq(S), q # <<>>
  PROVE  /\ \A id : Has(q, id) <=> Has(Tail(q), id) \/ q[1].id = id
         /\ Announced(q) /\ q[1].id # "LOGON" => Announced(Tail(q))
         /\ \A copy, v : Learns(q, copy, v) =>
              Learns(Tail(q), IF q[1].id = "SPAWN_SETTINGS" THEN q[1].set ELSE copy, v)
<1> DEFINE r == Tail(q)
<1>1. /\ Len(q) \in Nat /\ Len(q) >= 1 /\ Len(r) = Len(q) - 1
      /\ \A i \in 1 .. Len(q) - 1 : r[i] = q[i + 1]
  BY Taken
<1> HIDE DEF r
<1>2. ASSUME NEW id PROVE Has(q, id) <=> Has(r, id) \/ q[1].id = id
  <2>1. ASSUME NEW i \in 1 .. Len(q), q[i].id = id PROVE Has(r, id) \/ q[1].id = id
    <3>1. i = 1 \/ (i - 1 \in 1 .. Len(r) /\ r[i - 1] = q[i])
      BY <1>1
    <3>2. QED
      BY <2>1, <3>1 DEF Has
  <2>2. ASSUME NEW i \in 1 .. Len(r), r[i].id = id PROVE Has(q, id)
    <3>1. i + 1 \in 1 .. Len(q) /\ q[i + 1] = r[i]
      BY <1>1
    <3>2. QED
      BY <2>2, <3>1 DEF Has
  <2>3. QED
    BY <1>1, <2>1, <2>2 DEF Has
<1>3. ASSUME Announced(q), q[1].id # "LOGON" PROVE Announced(r)
  <2> SUFFICES ASSUME NEW i \in 1 .. Len(r), r[i].id = "LOGTHIS"
               PROVE  \E j \in 1 .. i - 1 : r[j].id = "LOGON"
    BY DEF Announced
  <2>1. i + 1 \in 1 .. Len(q) /\ q[i + 1].id = "LOGTHIS"
    BY <1>1
  <2>2. PICK j \in 1 .. i + 1 - 1 : q[j].id = "LOGON"
    BY <1>3, <2>1 DEF Announced
  <2>3. j - 1 \in 1 .. i - 1 /\ r[j - 1] = q[j]
    BY <1>1, <1>3, <2>2
  <2>4. QED
    BY <2>2, <2>3
<1>4. ASSUME NEW copy, NEW v, Learns(q, copy, v)
      PROVE  Learns(r, IF q[1].id = "SPAWN_SETTINGS" THEN q[1].set ELSE copy, v)
  <2>1. CASE ~Has(q, "SPAWN_SETTINGS") /\ copy = v
    BY <1>1, <1>2, <2>1 DEF Learns
  <2>2. ASSUME NEW i \in 1 .. Len(q), q[i].id = "SPAWN_SETTINGS", q[i].set = v,
               \A j \in i + 1 .. Len(q) : q[j].id # "SPAWN_SETTINGS"
        PROVE  Learns(r, IF q[1].id = "SPAWN_SETTINGS" THEN q[1].set ELSE copy, v)
    <3>1. CASE i = 1
      <4>1. \A j \in 1 .. Len(r) : r[j].id # "SPAWN_SETTINGS"
        BY <1>1, <2>2, <3>1
      <4>2. QED
        BY <2>2, <3>1, <4>1 DEF Learns, Has
    <3>2. CASE i # 1
      <4>1. i - 1 \in 1 .. Len(r) /\ r[i - 1] = q[i]
        BY <1>1, <3>2
      <4>2. \A j \in i - 1 + 1 .. Len(r) : r[j].id # "SPAWN_SETTINGS"
        BY <1>1, <2>2, <3>2
      <4>3. QED
        BY <2>2, <4>1, <4>2 DEF Learns
    <3>3. QED
      BY <3>1, <3>2
  <2>3. QED
    BY <1>4, <2>1, <2>2 DEF Learns
<1>5. QED
  BY <1>2, <1>3, <1>4 DEF r

\* A client gets a connection that nobody has used.
LEMMA ConnectKeeps == ASSUME Inv, NEW p \in Clients, Connect(p) PROVE Inv'
<1> DEFINE n == client[p].last + 1
           c == <<p, n>>
<1>1. /\ client \in [Clients -> Client] /\ client[p] \in Client /\ link \in [Conns -> Link]
      /\ worker \in [Conns -> Worker] /\ client[p].last \in Nat
      /\ history \in [early : SUBSET Conns, overtaken : SUBSET Conns, excused : SUBSET Conns, overlap : BOOLEAN]
  BY DEF Inv, TypeOK, Client
<1>2. c \in Conns /\ c[1] = p /\ c[2] = n /\ n \in Nat /\ n >= 1 /\ n <= MaxConns[p]
      /\ client[p].sock = "created" /\ client[p].cworker = "connect" /\ main # "gone" /\ client[p].last < n
  BY <1>1, ConnsAre DEF Connect, Listening
<1>3. worker[c].pc = "none" /\ link[c].up = <<>> /\ ~link[c].reset /\ ~worker[c].auth
  BY <1>2 DEF Inv, Phases
<1>4. /\ client' = [client EXCEPT ![p].cworker = "auth", ![p].sock = "connected", ![p].last = n]
      /\ link' = [link EXCEPT ![c].serverEnd = "open", ![c].clientEnd = "open"]
      /\ worker' = [worker EXCEPT ![c].pc = "backlog"]
      /\ history' = IF main # "run" \/ client[p].ui \notin {"run", "menu", "logoff"}
                      THEN [history EXCEPT !.excused = @ \cup {c}] ELSE history
      /\ UNCHANGED <<server, settings, mark, used>>
  BY <1>1 DEF Connect
<1>5. ASSUME NEW d \in Conns, d[1] = p, d[2] = n PROVE d = c
  BY <1>5, ConnsAre
<1> HIDE DEF n, c
<1>6. /\ client' \in [Clients -> Client] /\ \A q \in Clients \ {p} : client'[q] = client[q]
      /\ client'[p] = [client[p] EXCEPT !.cworker = "auth", !.sock = "connected", !.last = n]
  <2>1. client'[p] = [client[p] EXCEPT !.cworker = "auth", !.sock = "connected", !.last = n]
    BY <1>1, <1>4
  <2>2. client'[p] \in Client
    BY <1>1, <1>2, <2>1 DEF Client
  <2>3. QED
    BY <1>1, <1>4, <2>1, <2>2
<1>7. /\ client'[p].cworker = "auth" /\ client'[p].sock = "connected" /\ client'[p].last = n
      /\ client'[p].copy = client[p].copy /\ client'[p].ui = client[p].ui /\ client'[p].timer = client[p].timer
      /\ client'[p].flag_sent_username_once = client[p].flag_sent_username_once
  BY <1>1, <1>6 DEF Client
<1>8. /\ link' \in [Conns -> Link] /\ \A d \in Conns \ {c} : link'[d] = link[d]
      /\ link'[c].up = <<>> /\ ~link'[c].reset /\ link'[c].serverEnd = "open" /\ link'[c].clientEnd = "open"
  <2>1. link'[c] = [link[c] EXCEPT !.serverEnd = "open", !.clientEnd = "open"] /\ link[c] \in Link
    BY <1>1, <1>2, <1>4
  <2>2. /\ link'[c] \in Link
        /\ link'[c].up = <<>> /\ ~link'[c].reset /\ link'[c].serverEnd = "open" /\ link'[c].clientEnd = "open"
    BY <1>3, <2>1 DEF Link
  <2>3. QED
    BY <1>1, <1>2, <1>4, <2>2
<1>9. /\ worker' \in [Conns -> Worker] /\ \A d \in Conns \ {c} : worker'[d] = worker[d]
      /\ worker'[c].pc = "backlog" /\ ~worker'[c].auth
  BY <1>1, <1>2, <1>3, <1>4, SMTT(30) DEF Worker
<1>10. /\ history'.early = history.early /\ history'.overtaken = history.overtaken
       /\ history'.overlap = history.overlap /\ \A d \in history.excused : d \in history'.excused
       /\ c \notin history'.excused => main = "run" /\ client[p].ui \in {"run", "menu", "logoff"}
       /\ history' \in [early : SUBSET Conns, overtaken : SUBSET Conns, excused : SUBSET Conns, overlap : BOOLEAN]
  BY <1>1, <1>2, <1>4
<1>11. \A d \in Conns : d # c /\ d[1] = p => link[d].clientEnd # "open" /\ d[2] # n
  BY <1>2, <1>5 DEF Inv, Sockets
<1> USE DEF server, settings
<1>12. TypeOK'
  BY <1>4, <1>6, <1>8, <1>9, <1>10 DEF Inv, TypeOK
<1>13. Phases'
  <2>1. ASSUME NEW d \in Conns PROVE worker'[d].pc = "none" <=> d[2] > client'[d[1]].last
    <3>1. d[1] \in Clients /\ d[2] \in Nat /\ (worker[d].pc = "none" <=> d[2] > client[d[1]].last)
      BY ConnsAre DEF Inv, Phases
    <3>2. CASE d = c
      BY <1>2, <1>7, <1>9, <3>2
    <3>3. CASE d # c /\ d[1] = p
      BY <1>1, <1>2, <1>7, <1>9, <1>11, <3>1, <3>3 DEF n
    <3>4. CASE d[1] # p
      BY <1>2, <1>6, <1>9, <3>1, <3>4
    <3>5. QED
      BY <3>2, <3>3, <3>4
  <2>2. \A d \in Conns : cs = d => d # c
    BY <1>2, <1>3 DEF Inv, Phases
  <2>3. QED
    <3>1. \A d \in Conns :
            /\ worker'[d].pc = "spawn" <=> cs' = d
            /\ worker'[d].pc \in {"none", "backlog"} => ~worker'[d].auth
            /\ worker'[d].pc = "none" => link'[d].up = <<>> /\ link'[d].serverEnd = "none" /\ ~link'[d].reset
            /\ worker'[d].pc = "none" => \A i \in 1 .. Len(netclients') : netclients'[i] # d
            /\ worker'[d].pc \in {"log", "gone"} => link'[d].serverEnd = "closed"
            /\ worker'[d].pc \in Serving \cup {"remove"} =>
                 \E i \in 1 .. Len(netclients') : netclients'[i] = d
      <4> SUFFICES ASSUME NEW d \in Conns
                   PROVE /\ worker'[d].pc = "spawn" <=> cs' = d
                         /\ worker'[d].pc \in {"none", "backlog"} => ~worker'[d].auth
                         /\ worker'[d].pc = "none" =>
                              link'[d].up = <<>> /\ link'[d].serverEnd = "none" /\ ~link'[d].reset
                         /\ worker'[d].pc = "none" => \A i \in 1 .. Len(netclients') : netclients'[i] # d
                         /\ worker'[d].pc \in {"log", "gone"} => link'[d].serverEnd = "closed"
                         /\ worker'[d].pc \in Serving \cup {"remove"} =>
                              \E i \in 1 .. Len(netclients') : netclients'[i] = d
        OBVIOUS
      <4>1. CASE d = c
        BY <1>4, <1>9, <2>2, <4>1 DEF Serving
      <4>2. CASE d # c
        BY <1>4, <1>8, <1>9, <4>2 DEF Inv, Phases
      <4>3. QED
        BY <4>1, <4>2
    <3>2. (main' = "run" <=> ~signal_server_shutdown') /\ main' # "gone"
      BY <1>2, <1>4 DEF Inv, Phases
    <3>3. QED
      BY <2>1, <3>1, <3>2 DEF Phases
<1>14. Sockets'
  <2>1. ASSUME NEW d \in Conns
        PROVE  link'[d].clientEnd = "open" <=> client'[d[1]].sock = "connected" /\ d[2] = client'[d[1]].last
    <3>1. CASE d = c
      BY <1>2, <1>7, <1>8, <3>1
    <3>2. CASE d # c /\ d[1] = p
      BY <1>7, <1>8, <1>11, <3>2
    <3>3. CASE d[1] # p
      BY <1>2, <1>6, <1>8, <3>3, ConnsAre DEF Inv, Sockets
    <3>4. QED
      BY <3>1, <3>2, <3>3
  <2>2. QED
    <3>1. \A q \in Clients :
            /\ client'[q].last <= MaxConns[q]
            /\ client'[q].sock = "connected" =>
                 client'[q].last >= 1 /\ client'[q].cworker \in {"auth", "logon", "recv", "close", "gone"}
            /\ client'[q].cworker \in {"top", "create"} => client'[q].sock = "none"
      <4> TAKE q \in Clients
      <4>1. CASE q = p
        BY <1>2, <1>7, <4>1
      <4>2. CASE q # p
        BY <1>6, <4>2 DEF Inv, Sockets
      <4>3. QED
        BY <4>1, <4>2
    <3>2. QED
      BY <2>1, <3>1 DEF Sockets
<1>15. AuthFirst'
  <2> SUFFICES ASSUME NEW d \in Conns, d \notin history'.early, ~worker'[d].auth, link'[d].serverEnd = "open"
               PROVE  IF link'[d].up = <<>> THEN link'[d].clientEnd = "open" => client'[d[1]].cworker = "auth"
                                            ELSE link'[d].up[1].id = "AUTH"
    BY DEF AuthFirst
  <2>1. CASE d = c
    BY <1>2, <1>7, <1>8, <2>1
  <2>2. CASE d # c
    <3>1. IF link[d].up = <<>> THEN link[d].clientEnd = "open" => client[d[1]].cworker = "auth"
                               ELSE link[d].up[1].id = "AUTH"
      BY <1>8, <1>9, <1>10, <2>2 DEF Inv, AuthFirst
    <3>2. d[1] \in Clients /\ (d[1] = p => link[d].clientEnd # "open")
      BY <1>11, <2>2, ConnsAre
    <3>3. QED
      BY <1>6, <1>8, <2>2, <3>1, <3>2
  <2>3. QED
    BY <2>1, <2>2
<1>16. LogonFirst'
  <2>1. client[p].flag_sent_username_once => n > 1
    BY <1>1, <1>2 DEF Inv, LogonFirst, n
  <2>2. \A q \in Clients :
          /\ client'[q].flag_sent_username_once => client'[q].last >= 1
          /\ client'[q].cworker = "logon" => ~client'[q].flag_sent_username_once
          /\ client'[q].cworker = "recv" \/ client'[q].copy.general \/ client'[q].timer = "wait" =>
               client'[q].flag_sent_username_once
    <3> TAKE q \in Clients
    <3>1. /\ client[q].flag_sent_username_once => client[q].last >= 1
          /\ client[q].cworker = "logon" => ~client[q].flag_sent_username_once
          /\ client[q].cworker = "recv" \/ client[q].copy.general \/ client[q].timer = "wait" =>
               client[q].flag_sent_username_once
      BY DEF Inv, LogonFirst
    <3>2. CASE q = p
      BY <1>2, <1>7, <3>1, <3>2
    <3>3. CASE q # p
      BY <1>6, <3>1, <3>3
    <3>4. QED
      BY <3>2, <3>3
  <2>3. ASSUME NEW d \in Conns, d[2] = 1, worker'[d].pc \in Serving \cup {"none", "backlog"}, ~worker'[d].named
        PROVE  /\ Announced(link'[d].up)
               /\ client'[d[1]].last = 1 /\ client'[d[1]].flag_sent_username_once
                    /\ link'[d].serverEnd = "open" => Has(link'[d].up, "LOGON")
    <3>1. CASE d = c
      BY <1>2, <1>7, <1>8, <2>1, <2>3, <3>1, EmptySeq DEF Announced
    <3>2. CASE d # c
      <4>1. d[1] = p => n # 1
        BY <1>11, <2>3, <3>2
      <4>2. /\ Announced(link[d].up) /\ d[1] \in Clients
            /\ client[d[1]].last = 1 /\ client[d[1]].flag_sent_username_once
                 /\ link[d].serverEnd = "open" => Has(link[d].up, "LOGON")
        BY <1>9, <2>3, <3>2, ConnsAre DEF Inv, LogonFirst
      <4>3. link'[d] = link[d]
        BY <1>8, <3>2
      <4>4. CASE d[1] = p
        BY <1>7, <4>1, <4>2, <4>3, <4>4
      <4>5. CASE d[1] # p
        BY <1>6, <4>2, <4>3, <4>5
      <4>6. QED
        BY <4>4, <4>5
    <3>3. QED
      BY <3>1, <3>2
  <2>4. QED
    BY <2>2, <2>3 DEF LogonFirst
<1>17. Marks'
  BY <1>3, <1>4, <1>9, <1>10 DEF Inv, Marks
<1>18. Logoffs'
  <2> SUFFICES ASSUME NEW d \in Conns, Alive(d)', d \notin history'.excused PROVE Hears(d)'
    BY DEF Logoffs
  <2>1. CASE d = c
    BY <1>2, <1>4, <1>7, <1>8, <1>9, <1>10, <2>1, ZenonT(60) DEF Hears
  <2>2. CASE d # c
    <3>1. Hears(d) /\ d[1] \in Clients
      BY <1>9, <1>10, <2>2, ConnsAre DEF Inv, Logoffs, Alive
    <3>2. client'[d[1]].ui = client[d[1]].ui
      BY <1>6, <1>7, <3>1
    <3>3. QED
      BY <1>4, <1>8, <1>9, <1>10, <2>2, <3>1, <3>2 DEF Hears
  <2>3. QED
    BY <2>1, <2>2
<1>19. Copies'
  <2> SUFFICES ASSUME NEW d \in Conns, Served(d)'
               PROVE  \/ Pending(d)'
                      \/ IF worker'[d].pc = "reply" THEN worker'[d].read = Current'
                         ELSE Learns(link'[d].down, client'[d[1]].copy, Current')
    BY DEF Copies
  <2>1. d # c
    BY <1>9 DEF Served
  <2>2. Served(d) /\ d[1] \in Clients /\ client'[d[1]].copy = client[d[1]].copy
    BY <1>4, <1>6, <1>7, <1>8, <1>9, <1>10, <2>1, ConnsAre DEF Served
  <2>3. Pending(d) => Pending(d)'
    BY <1>3, <1>4, <1>9 DEF Pending
  <2>4. QED
    BY <1>4, <1>8, <1>9, <2>1, <2>2, <2>3 DEF Inv, Copies, Current
<1>20. QED
  BY <1>12, <1>13, <1>14, <1>15, <1>16, <1>17, <1>18, <1>19 DEF Inv

\* A client receives the next message and takes over the settings in it.
LEMMA ReceiveKeeps == ASSUME Inv, NEW p \in Clients, Receive(p) PROVE Inv'
<1> DEFINE L == LastConn(p)
           m == Head(link[L].down)
<1>1. /\ client \in [Clients -> Client] /\ client[p] \in Client /\ link \in [Conns -> Link]
      /\ client[p].cworker = "recv" /\ client[p].sock = "connected" /\ link[L].down # <<>>
  BY DEF Inv, TypeOK, Receive
<1>2. /\ L \in Conns /\ L[1] = p /\ L[2] = client[p].last
      /\ \A c \in Conns : c[1] = p /\ link[c].clientEnd = "open" => c = L
  BY <1>1, LastConnIs
<1>3. link[L] \in Link /\ link[L].down \in Seq(ToClient)
  BY <1>1, <1>2 DEF Link
<1>4. Tail(link[L].down) \in Seq(ToClient) /\ m \in ToClient /\ m = link[L].down[1]
  BY <1>1, <1>3, Taken
<1>5. /\ link' = [link EXCEPT ![L].down = Tail(@)]
      /\ client' = [client EXCEPT ![p].cworker = Inner(p),
                                  ![p].copy = IF m.id = "SPAWN_SETTINGS" THEN m.set ELSE @,
                                  ![p].viewers = IF m.id = "RECV_LOGDATA" THEN @ + 1 ELSE @]
      /\ UNCHANGED <<server, settings, mark, worker, used, history>>
  BY DEF Receive
<1> HIDE DEF L, m
<1>6. /\ link' \in [Conns -> Link] /\ \A c \in Conns \ {L} : link'[c] = link[c]
      /\ link'[L].down = Tail(link[L].down) /\ link'[L].up = link[L].up /\ link'[L].reset = link[L].reset
      /\ link'[L].serverEnd = link[L].serverEnd /\ link'[L].clientEnd = link[L].clientEnd
  <2>1. link'[L] = [link[L] EXCEPT !.down = Tail(link[L].down)]
    BY <1>1, <1>2, <1>5
  <2>2. /\ link'[L] \in Link
        /\ link'[L].down = Tail(link[L].down) /\ link'[L].up = link[L].up /\ link'[L].reset = link[L].reset
        /\ link'[L].serverEnd = link[L].serverEnd /\ link'[L].clientEnd = link[L].clientEnd
    BY <1>3, <1>4, <2>1 DEF Link
  <2>3. QED
    BY <1>1, <1>2, <1>5, <2>2
<1>7. /\ client' \in [Clients -> Client] /\ \A q \in Clients \ {p} : client'[q] = client[q]
      /\ client'[p].cworker \in {"recv", "close"} /\ client'[p].sock = client[p].sock
      /\ client'[p].last = client[p].last /\ client'[p].ui = client[p].ui /\ client'[p].timer = client[p].timer
      /\ client'[p].flag_sent_username_once = client[p].flag_sent_username_once
      /\ client'[p].copy = IF m.id = "SPAWN_SETTINGS" THEN m.set ELSE client[p].copy
  <2> DEFINE w == Inner(p)
             k == IF m.id = "SPAWN_SETTINGS" THEN m.set ELSE client[p].copy
             v == IF m.id = "RECV_LOGDATA" THEN client[p].viewers + 1 ELSE client[p].viewers
  <2>1. client'[p] = [client[p] EXCEPT !.cworker = w, !.copy = k, !.viewers = v]
    BY <1>1, <1>5
  <2>2. w \in {"recv", "close"} /\ k \in Settings /\ v \in Nat
    BY <1>1, <1>4 DEF Inner, ToClient, Client
  <2> HIDE DEF w, k, v
  <2>3. client'[p] \in Client
    BY <1>1, <2>1, <2>2 DEF Client
  <2>4. /\ client'[p].cworker = w /\ client'[p].sock = client[p].sock
        /\ client'[p].last = client[p].last /\ client'[p].ui = client[p].ui /\ client'[p].timer = client[p].timer
        /\ client'[p].flag_sent_username_once = client[p].flag_sent_username_once
        /\ client'[p].copy = k
    BY <1>1, <2>1 DEF Client
  <2>5. client' \in [Clients -> Client] /\ \A q \in Clients \ {p} : client'[q] = client[q]
    BY <1>1, <1>5, <2>3
  <2>6. QED
    BY <2>2, <2>4, <2>5 DEF k
<1>8. \A c \in Conns : /\ link'[c].up = link[c].up /\ link'[c].reset = link[c].reset
                       /\ link'[c].serverEnd = link[c].serverEnd /\ link'[c].clientEnd = link[c].clientEnd
  BY <1>6
<1>9. \A q \in Clients : /\ client'[q].sock = client[q].sock /\ client'[q].last = client[q].last
                         /\ client'[q].ui = client[q].ui
                         /\ client'[q].flag_sent_username_once = client[q].flag_sent_username_once
  BY <1>7
<1>5a. UNCHANGED <<server, settings, mark, worker, used, history>>
  BY <1>5
<1> USE DEF server, settings
<1>10. TypeOK'
  BY <1>5a, <1>6, <1>7 DEF Inv, TypeOK
<1>11. Phases'
  <2>1. \A c \in Conns : client'[c[1]].last = client[c[1]].last
    BY <1>9, ConnsAre
  <2>2. QED
    BY <1>5a, <1>8, <2>1 DEF Inv, Phases, Alive
<1>12. Sockets'
  <2>1. \A q \in Clients :
          /\ client'[q].sock = "connected" => client'[q].cworker \in {"auth", "logon", "recv", "close", "gone"}
          /\ client'[q].cworker \in {"top", "create"} => client'[q].sock = "none"
    BY <1>7 DEF Inv, Sockets
  <2>2. QED
    BY <1>8, <1>9, <2>1, ConnsAre DEF Inv, Sockets
<1>13. AuthFirst'
  <2>1. \A c \in Conns : client[c[1]].cworker = "auth" => client'[c[1]].cworker = "auth"
    BY <1>1, <1>7, ConnsAre
  <2>2. QED
    BY <1>5a, <1>8, <2>1 DEF Inv, AuthFirst
<1>14. LogonFirst'
  <2>1. \A q \in Clients :
          /\ client'[q].cworker = "logon" => ~client'[q].flag_sent_username_once
          /\ client'[q].cworker = "recv" \/ client'[q].copy.general \/ client'[q].timer = "wait" =>
               client'[q].flag_sent_username_once
    BY <1>1, <1>7 DEF Inv, LogonFirst
  <2>2. \A c \in Conns : /\ client'[c[1]].last = client[c[1]].last
                         /\ client'[c[1]].flag_sent_username_once = client[c[1]].flag_sent_username_once
    BY <1>9, ConnsAre
  <2>3. QED
    BY <1>5a, <1>8, <1>9, <2>1, <2>2 DEF Inv, LogonFirst
<1>15. Marks'
  BY <1>5a DEF Inv, Marks
<1>16. Logoffs'
  BY <1>5a, <1>8, <1>9, ConnsAre DEF Inv, Logoffs, Hears, Alive
<1>17. Copies'
  <2> SUFFICES ASSUME NEW c \in Conns, Served(c)'
               PROVE  \/ Pending(c)'
                      \/ IF worker'[c].pc = "reply" THEN worker'[c].read = Current'
                         ELSE Learns(link'[c].down, client'[c[1]].copy, Current')
    BY DEF Copies
  <2>1. Served(c) /\ (Pending(c) => Pending(c)')
    BY <1>5a, <1>8 DEF Served, Pending
  <2>2. CASE c = L
    <3>1. Learns(link[c].down, client[c[1]].copy, Current) =>
            Learns(link'[c].down, client'[c[1]].copy, Current)
      BY <1>1, <1>2, <1>3, <1>4, <1>6, <1>7, <2>2, TakenQueue
    <3>2. QED
      BY <1>5a, <2>1, <3>1 DEF Inv, Copies, Current
  <2>3. CASE c # L
    <3>1. c[1] # p /\ c[1] \in Clients /\ link'[c] = link[c]
      BY <1>2, <1>6, <2>1, <2>3, ConnsAre DEF Served
    <3>2. QED
      BY <1>5a, <1>7, <2>1, <3>1 DEF Inv, Copies, Current
  <2>4. QED
    BY <2>2, <2>3
<1>18. QED
  BY <1>10, <1>11, <1>12, <1>13, <1>14, <1>15, <1>16, <1>17 DEF Inv

-----------------------------------------------------------------------------
(* The workers of the server. *)

\* A worker takes a message from its connection.
Takes(c) ==
  /\ worker[c].pc = "recv" /\ link[c].serverEnd = "open" /\ link[c].up # <<>>
  /\ link' = [link EXCEPT ![c].up = Tail(@)]
  /\ worker' = [worker EXCEPT ![c] = worker'[c]] /\ worker'[c] \in Worker
  /\ worker'[c].pc \in {"recv", "reply", "write", "enter", "info", "logdata", "remove"}
  /\ LET m == Head(link[c].up) IN
     /\ \/ worker[c].auth /\ worker'[c].auth /\ worker'[c].pc # "reply"
        \/ m.id = "AUTH" /\ worker'[c].auth /\ worker'[c].pc = "reply" /\ worker'[c].read = Current
        \/ ~worker[c].auth /\ m.id # "AUTH" /\ worker'[c].pc = "remove" /\ ~worker'[c].auth
     /\ worker'[c].pc = "remove" => main # "run" \/ (~worker[c].auth /\ m.id # "AUTH")
     /\ worker'[c].pc # "remove" /\ m.id = "LOGON" => worker'[c].named
     /\ worker'[c].auth /\ m.id = "LOGOFF" => worker'[c].bye
  /\ worker[c].named => worker'[c].named
  /\ worker[c].bye => worker'[c].bye
  /\ UNCHANGED log_capchanges \/ worker'[c].pc = "enter"
  /\ UNCHANGED <<main, signal_server_shutdown, netclients, cs, log_general, mark, client, used, history>>

LEMMA WorkerTakes == ASSUME Inv, NEW c \in Conns, Takes(c), TypeOK' PROVE Inv'
<1> DEFINE q == link[c].up
<1>1. /\ link \in [Conns -> Link] /\ worker \in [Conns -> Worker] /\ link[c] \in Link /\ worker[c] \in Worker
      /\ q \in Seq(ToServer) /\ q # <<>> /\ worker[c].pc = "recv" /\ link[c].serverEnd = "open"
  BY DEF Inv, TypeOK, Link, Takes
<1>2. Head(q) = q[1]
  BY <1>1, Taken
<1>3. /\ \A d \in Conns \ {c} : worker'[d] = worker[d] /\ link'[d] = link[d]
      /\ worker' \in [Conns -> Worker]
      /\ UNCHANGED <<main, signal_server_shutdown, netclients, cs, log_general, mark, client, used, history>>
  BY <1>1 DEF Takes
<1>4. /\ link'[c].up = Tail(q) /\ link'[c].down = link[c].down /\ link'[c].reset = link[c].reset
      /\ link'[c].serverEnd = link[c].serverEnd /\ link'[c].clientEnd = link[c].clientEnd
  <2>1. link'[c] = [link[c] EXCEPT !.up = Tail(q)]
    BY <1>1 DEF Takes
  <2>2. QED
    BY <1>1, <2>1 DEF Link
<1>5. /\ worker'[c].pc \in {"recv", "reply", "write", "enter", "info", "logdata", "remove"}
      /\ worker[c].named => worker'[c].named
      /\ worker[c].bye => worker'[c].bye
      /\ UNCHANGED log_capchanges \/ worker'[c].pc = "enter"
  BY DEF Takes
<1>6. /\ \/ worker[c].auth /\ worker'[c].auth /\ worker'[c].pc # "reply"
         \/ q[1].id = "AUTH" /\ worker'[c].auth /\ worker'[c].pc = "reply" /\ worker'[c].read = Current
         \/ ~worker[c].auth /\ q[1].id # "AUTH" /\ worker'[c].pc = "remove" /\ ~worker'[c].auth
      /\ worker'[c].pc = "remove" => main # "run" \/ (~worker[c].auth /\ q[1].id # "AUTH")
      /\ worker'[c].pc # "remove" /\ q[1].id = "LOGON" => worker'[c].named
      /\ worker'[c].auth /\ q[1].id = "LOGOFF" => worker'[c].bye
  BY <1>2 DEF Takes
<1>7. ~worker[c].auth /\ q[1].id # "AUTH" => c \in history.early
  BY <1>1 DEF Inv, AuthFirst
<1>8. /\ \A id : Has(q, id) <=> Has(Tail(q), id) \/ q[1].id = id
      /\ Announced(q) /\ q[1].id # "LOGON" => Announced(Tail(q))
  BY <1>1, TakenQueue
<1> HIDE DEF q
<1>9. \A d \in Conns : /\ link'[d].down = link[d].down /\ link'[d].reset = link[d].reset
                       /\ link'[d].serverEnd = link[d].serverEnd /\ link'[d].clientEnd = link[d].clientEnd
  BY <1>3, <1>4
<1>10. Phases'
  <2>1. \A d \in Conns :
          /\ worker'[d].pc = "spawn" <=> cs = d
          /\ worker'[d].pc = "none" <=> d[2] > client[d[1]].last
          /\ worker'[d].pc \in {"none", "backlog"} => ~worker'[d].auth
          /\ worker'[d].pc = "none" => link'[d].up = <<>> /\ link'[d].serverEnd = "none" /\ ~link'[d].reset
          /\ worker'[d].pc = "none" => \A i \in 1 .. Len(netclients) : netclients[i] # d
          /\ worker'[d].pc \in {"log", "gone"} => link'[d].serverEnd = "closed"
          /\ worker'[d].pc \in Serving \cup {"remove"} => \E i \in 1 .. Len(netclients) : netclients[i] = d
    <3> TAKE d \in Conns
    <3>1. CASE d = c
      BY <1>1, <1>5, <3>1 DEF Inv, Phases, Serving
    <3>2. CASE d # c
      BY <1>3, <3>2 DEF Inv, Phases
    <3>3. QED
      BY <3>1, <3>2
  <2>2. main = "gone" => \A d \in Conns : ~Alive(d)'
    BY <1>1, <1>3 DEF Inv, Phases, Alive
  <2>3. QED
    BY <1>3, <2>1, <2>2 DEF Inv, Phases
<1>11. Sockets'
  BY <1>3, <1>9 DEF Inv, Sockets
<1>12. AuthFirst'
  BY <1>3, <1>4, <1>6, <1>7 DEF Inv, AuthFirst
<1>13. LogonFirst'
  <2> SUFFICES ASSUME NEW d \in Conns, d[2] = 1, worker'[d].pc \in Serving \cup {"none", "backlog"}, ~worker'[d].named
               PROVE  /\ Announced(link'[d].up)
                      /\ client[d[1]].last = 1 /\ client[d[1]].flag_sent_username_once
                           /\ link'[d].serverEnd = "open" => Has(link'[d].up, "LOGON")
    BY <1>3 DEF Inv, LogonFirst
  <2>1. CASE d = c
    <3>1. /\ Announced(q)
          /\ client[d[1]].last = 1 /\ client[d[1]].flag_sent_username_once => Has(q, "LOGON")
      BY <1>1, <1>5, <2>1 DEF Inv, LogonFirst, Serving, q
    <3>2. q[1].id # "LOGON"
      BY <1>6, <2>1 DEF Serving
    <3>3. QED
      BY <1>4, <1>8, <2>1, <3>1, <3>2
  <2>2. CASE d # c
    BY <1>3, <2>2 DEF Inv, LogonFirst
  <2>3. QED
    BY <2>1, <2>2
<1>14. Marks'
  BY <1>1, <1>3, <1>5 DEF Inv, Marks
<1>15. Logoffs'
  <2> SUFFICES ASSUME NEW d \in Conns, Alive(d)', d \notin history.excused PROVE Hears(d)'
    BY <1>3 DEF Logoffs
  <2>1. CASE d = c
    <3>1. Hears(c)
      BY <1>1, <2>1 DEF Inv, Logoffs, Alive
    <3>2. QED
      BY <1>1, <1>3, <1>4, <1>5, <1>6, <1>7, <1>8, <2>1, <3>1 DEF Hears, q
  <2>2. CASE d # c
    BY <1>3, <2>2 DEF Inv, Logoffs, Hears, Alive
  <2>3. QED
    BY <2>1, <2>2
<1>16. Copies'
  <2> SUFFICES ASSUME NEW d \in Conns, Served(d)', ~Pending(d)'
               PROVE  IF worker'[d].pc = "reply" THEN worker'[d].read = Current'
                      ELSE Learns(link'[d].down, client'[d[1]].copy, Current')
    BY DEF Copies
  <2>1. worker'[c].pc # "enter" /\ Current' = Current
    BY <1>3, <1>5 DEF Pending, Current
  <2>2. ~Pending(d)
    BY <1>1, <1>3 DEF Pending
  <2>3. CASE d = c
    BY <1>1, <1>3, <1>6, <1>9, <2>1, <2>2, <2>3 DEF Inv, Copies, Served, Serving
  <2>4. CASE d # c
    BY <1>3, <1>9, <2>1, <2>2, <2>4 DEF Inv, Copies, Served
  <2>5. QED
    BY <2>3, <2>4
<1>17. QED
  BY <1>10, <1>11, <1>12, <1>13, <1>14, <1>15, <1>16 DEF Inv

LEMMA TakingSteps ==
  ASSUME Inv, NEW c \in Conns,
         \/ Authenticate(c) \/ Logon(c) \/ Logoff(c) \/ LogThis(c)
         \/ SetLogging(c) \/ SetLogCapChanges(c) \/ AcquireLogData(c) \/ InvalidNetdata(c)
  PROVE  Inv'
<1> DEFINE m == Head(link[c].up)
<1> SUFFICES TypeOK' /\ Takes(c)
  BY WorkerTakes
<1>1. /\ link \in [Conns -> Link] /\ worker \in [Conns -> Worker] /\ link[c] \in Link /\ worker[c] \in Worker
      /\ link[c].up \in Seq(ToServer) /\ (main = "run" <=> ~signal_server_shutdown)
      /\ log_general \in BOOLEAN /\ log_capchanges \in BOOLEAN
  BY DEF Inv, TypeOK, Link, Phases
<1>2. /\ worker[c].pc = "recv" /\ link[c].serverEnd = "open" /\ link[c].up # <<>>
      /\ link' = [link EXCEPT ![c].up = Tail(@)]
      /\ Authenticate(c) => m.id = "AUTH"
      /\ Logon(c) => m.id = "LOGON"
      /\ Logoff(c) => m.id = "LOGOFF"
      /\ LogThis(c) => m.id = "LOGTHIS"
      /\ SetLogging(c) => m.id = "SET_LOGGING"
      /\ SetLogCapChanges(c) => m.id = "SET_LOGCAPCHANGES"
      /\ AcquireLogData(c) => m.id = "ACQUIRE_LOGDATA"
      /\ InvalidNetdata(c) => m.id # "AUTH"
  BY DEF Authenticate, Logon, Logoff, LogThis, SetLogging, SetLogCapChanges, AcquireLogData, InvalidNetdata, Receives
<1>3. m \in ToServer /\ m.val \in BOOLEAN /\ Tail(link[c].up) \in Seq(ToServer)
  <2>1. m \in ToServer /\ Tail(link[c].up) \in Seq(ToServer)
    BY <1>1, <1>2, Taken
  <2>2. QED
    BY <2>1 DEF ToServer
<1>4. /\ UNCHANGED <<main, signal_server_shutdown, netclients, cs, log_general, mark, client, used, history>>
      /\ UNCHANGED log_capchanges \/ (SetLogCapChanges(c) /\ log_capchanges' = m.val)
      /\ UNCHANGED once_invalid_packet_received \/ once_invalid_packet_received' = TRUE
  BY DEF Authenticate, Logon, Logoff, LogThis, SetLogging, SetLogCapChanges, AcquireLogData, InvalidNetdata,
         server, settings
<1>5. link' \in [Conns -> Link]
  <2>1. [link[c] EXCEPT !.up = Tail(@)] \in Link
    BY <1>1, <1>3 DEF Link
  <2>2. QED
    BY <1>1, <1>2, <2>1
<1> DEFINE w == worker[c]
           Fits == /\ worker' = [worker EXCEPT ![c] = worker'[c]] /\ worker'[c] \in Worker
                   /\ worker'[c].pc \in {"recv", "reply", "write", "enter", "info", "logdata", "remove"}
                   /\ \/ w.auth /\ worker'[c].auth /\ worker'[c].pc # "reply"
                      \/ m.id = "AUTH" /\ worker'[c].auth /\ worker'[c].pc = "reply" /\ worker'[c].read = Current
                      \/ ~w.auth /\ m.id # "AUTH" /\ worker'[c].pc = "remove" /\ ~worker'[c].auth
                   /\ worker'[c].pc = "remove" => main # "run" \/ (~w.auth /\ m.id # "AUTH")
                   /\ worker'[c].pc # "remove" /\ m.id = "LOGON" => worker'[c].named
                   /\ worker'[c].auth /\ m.id = "LOGOFF" => worker'[c].bye
                   /\ w.named => worker'[c].named
                   /\ w.bye => worker'[c].bye
                   /\ UNCHANGED log_capchanges \/ worker'[c].pc = "enter"
<1>6. Fits
  <2>1. CASE Authenticate(c)
    <3>1. Current \in Settings
      BY <1>1 DEF Current, Settings
    <3>2. worker' = [worker EXCEPT ![c].auth = TRUE, ![c].read = Current, ![c].pc = "reply"]
      BY <2>1 DEF Authenticate
    <3>3. UNCHANGED log_capchanges
      BY <2>1 DEF Authenticate, settings
    <3> HIDE DEF Current
    <3>4. QED
      BY <1>1, <1>2, <2>1, <3>1, <3>2, <3>3 DEF Worker
  <2>2. CASE Logon(c)
    <3>1. /\ worker' = [worker EXCEPT ![c].named = TRUE, ![c].pc = "info"] /\ w.auth
          /\ UNCHANGED log_capchanges
      BY <2>2 DEF Logon, settings
    <3>2. QED
      BY <1>1, <1>2, <2>2, <3>1 DEF Worker
  <2>3. CASE Logoff(c)
    <3>1. /\ worker' = [worker EXCEPT ![c].bye = TRUE, ![c].pc = Continue] /\ w.auth
          /\ UNCHANGED log_capchanges
      BY <2>3 DEF Logoff, settings
    <3>2. QED
      BY <1>1, <1>2, <2>3, <3>1 DEF Worker, Continue
  <2>4. CASE LogThis(c)
    <3>1. /\ worker' = [worker EXCEPT ![c].pc = Continue] /\ w.auth /\ UNCHANGED log_capchanges
      BY <2>4 DEF LogThis, settings
    <3>2. QED
      BY <1>1, <1>2, <2>4, <3>1 DEF Worker, Continue
  <2>5. CASE SetLogging(c)
    <3>1. /\ \/ worker' = [worker EXCEPT ![c].val = m.val, ![c].pc = "write"]
             \/ worker' = [worker EXCEPT ![c].pc = "enter"]
          /\ w.auth /\ UNCHANGED log_capchanges
      BY <2>5 DEF SetLogging, settings
    <3>2. /\ worker'[c] = [w EXCEPT !.val = m.val, !.pc = "write"] \/ worker'[c] = [w EXCEPT !.pc = "enter"]
          /\ worker' = [worker EXCEPT ![c] = worker'[c]]
      BY <1>1, <3>1
    <3>3. m.id = "SET_LOGGING" /\ m.val \in BOOLEAN /\ w \in Worker
      BY <1>1, <1>2, <1>3, <2>5
    <3> HIDE DEF m, w
    <3>4. QED
      BY <3>1, <3>2, <3>3 DEF Worker, w
  <2>6. CASE SetLogCapChanges(c)
    <3>1. worker' = [worker EXCEPT ![c].pc = "enter"] /\ w.auth
      BY <2>6 DEF SetLogCapChanges
    <3>2. QED
      BY <1>1, <1>2, <2>6, <3>1 DEF Worker
  <2>7. CASE AcquireLogData(c)
    <3>1. worker' = [worker EXCEPT ![c].pc = "logdata"] /\ w.auth /\ UNCHANGED log_capchanges
      BY <2>7 DEF AcquireLogData, settings
    <3>2. QED
      BY <1>1, <1>2, <2>7, <3>1 DEF Worker
  <2>8. CASE InvalidNetdata(c)
    <3>1. worker' = [worker EXCEPT ![c].pc = "remove"] /\ ~w.auth /\ UNCHANGED log_capchanges
      BY <2>8 DEF InvalidNetdata, settings
    <3>2. QED
      BY <1>1, <1>2, <2>8, <3>1 DEF Worker
  <2>9. QED
    BY <2>1, <2>2, <2>3, <2>4, <2>5, <2>6, <2>7, <2>8
<1>7. worker' \in [Conns -> Worker]
  BY <1>1, <1>6
<1>8. TypeOK'
  BY <1>3, <1>4, <1>5, <1>7 DEF Inv, TypeOK
<1>9. QED
  BY <1>2, <1>4, <1>6, <1>8 DEF Takes

\* What a message to the client adds to what it will believe.
LEMMA LearnsMore ==
  ASSUME NEW q \in Seq(ToClient), NEW m \in ToClient
  PROVE  /\ m.id = "SPAWN_SETTINGS" => \A copy : Learns(Append(q, m), copy, m.set)
         /\ m.id # "SPAWN_SETTINGS" => \A copy, v : Learns(q, copy, v) => Learns(Append(q, m), copy, v)
<1> DEFINE r == Append(q, m)
<1>1. /\ Len(r) = Len(q) + 1 /\ Len(q) \in Nat /\ r[Len(q) + 1] = m
      /\ \A i \in 1 .. Len(q) : r[i] = q[i]
  BY Appended
<1> HIDE DEF r
<1>2. ASSUME m.id = "SPAWN_SETTINGS", NEW copy PROVE Learns(r, copy, m.set)
  <2>1. Len(r) \in 1 .. Len(r) /\ r[Len(r)] = m /\ Len(r) + 1 .. Len(r) = {}
    BY <1>1
  <2>2. QED
    BY <1>2, <2>1 DEF Learns
<1>3. ASSUME m.id # "SPAWN_SETTINGS", NEW copy, NEW v, Learns(q, copy, v) PROVE Learns(r, copy, v)
  <2>1. CASE ~Has(q, "SPAWN_SETTINGS") /\ copy = v
    <3>1. ~Has(r, "SPAWN_SETTINGS")
      <4> SUFFICES ASSUME NEW i \in 1 .. Len(r) PROVE r[i].id # "SPAWN_SETTINGS"
        BY DEF Has
      <4>1. i \in 1 .. Len(q) \/ i = Len(q) + 1
        BY <1>1
      <4>2. QED
        BY <1>1, <1>3, <2>1, <4>1 DEF Has
    <3>2. QED
      BY <2>1, <3>1 DEF Learns
  <2>2. CASE ~(~Has(q, "SPAWN_SETTINGS") /\ copy = v)
    <3>1. PICK i \in 1 .. Len(q) : /\ q[i].id = "SPAWN_SETTINGS" /\ q[i].set = v
                                   /\ \A j \in i + 1 .. Len(q) : q[j].id # "SPAWN_SETTINGS"
      BY <1>3, <2>2 DEF Learns
    <3>2. i \in 1 .. Len(r) /\ r[i].id = "SPAWN_SETTINGS" /\ r[i].set = v
      BY <1>1, <3>1
    <3>3. ASSUME NEW j \in i + 1 .. Len(r) PROVE r[j].id # "SPAWN_SETTINGS"
      <4>1. j \in i + 1 .. Len(q) \/ j = Len(q) + 1
        BY <1>1, <3>1
      <4>2. i + 1 .. Len(q) \subseteq 1 .. Len(q)
        BY <1>1, <3>1
      <4>3. QED
        BY <1>1, <1>3, <3>1, <4>1, <4>2
    <3>4. QED
      BY <3>2, <3>3 DEF Learns
  <2>3. QED
    BY <2>1, <2>2
<1>4. QED
  BY <1>2, <1>3 DEF r

LEMMA ServerSendIs ==
  ASSUME Inv, NEW d \in Conns, NEW m \in ToClient, NEW ok \in BOOLEAN, ServerSends(d, m, ok)
  PROVE  /\ link' \in [Conns -> Link]
         /\ \A e \in Conns : /\ link'[e].up = link[e].up /\ link'[e].serverEnd = link[e].serverEnd
                             /\ link'[e].clientEnd = link[e].clientEnd
                             /\ e # d => link'[e] = link[e]
         /\ link'[d].reset => link[d].reset \/ link[d].clientEnd = "closed"
         /\ ~ok => link[d].serverEnd = "closed" \/ link[d].clientEnd = "closed"
         /\ link[d].serverEnd = "open" /\ link[d].clientEnd = "open" =>
              ok /\ link'[d].down = Append(link[d].down, m)
         /\ link[d].serverEnd # "open" => link' = link
<1>1. link \in [Conns -> Link] /\ link[d] \in Link /\ link[d].down \in Seq(ToClient)
  BY DEF Inv, TypeOK, Link
<1>2. Append(link[d].down, m) \in Seq(ToClient)
  BY <1>1, Appended
<1>3. CASE ok /\ link[d].serverEnd = "open" /\ link[d].clientEnd = "open"
  <2>1. link' = [link EXCEPT ![d].down = Append(@, m)]
    BY <1>3 DEF ServerSends
  <2>2. link'[d] = [link[d] EXCEPT !.down = Append(@, m)] /\ \A e \in Conns \ {d} : link'[e] = link[e]
    BY <1>1, <2>1
  <2>3. /\ link'[d].up = link[d].up /\ link'[d].serverEnd = link[d].serverEnd
        /\ link'[d].clientEnd = link[d].clientEnd /\ link'[d].reset = link[d].reset
        /\ link'[d].down = Append(link[d].down, m) /\ link'[d] \in Link
    BY <1>1, <1>2, <2>2 DEF Link
  <2>4. link' \in [Conns -> Link]
    BY <1>1, <2>1, <2>3
  <2>5. QED
    BY <1>3, <2>2, <2>3, <2>4
<1>4. CASE ok /\ link[d].serverEnd = "open" /\ link[d].clientEnd = "closed"
  <2>1. link' = [link EXCEPT ![d].reset = TRUE]
    BY <1>4 DEF ServerSends
  <2>2. link'[d] = [link[d] EXCEPT !.reset = TRUE] /\ \A e \in Conns \ {d} : link'[e] = link[e]
    BY <1>1, <2>1
  <2>3. /\ link'[d].up = link[d].up /\ link'[d].serverEnd = link[d].serverEnd
        /\ link'[d].clientEnd = link[d].clientEnd /\ link'[d] \in Link
    BY <1>1, <2>2 DEF Link
  <2>4. link' \in [Conns -> Link]
    BY <1>1, <2>1, <2>3
  <2>5. QED
    BY <1>4, <2>2, <2>3, <2>4
<1>5. CASE ~ok /\ "closed" \in {link[d].serverEnd, link[d].clientEnd} /\ UNCHANGED link
  BY <1>1, <1>5
<1>6. QED
  BY <1>3, <1>4, <1>5 DEF ServerSends

\* What a send to connection d tells the ghosts.
LEMMA SentToIs ==
  ASSUME Inv, NEW d \in Conns
  PROVE  LET h == SentTo(d) IN
         /\ h \in [early : SUBSET Conns, overtaken : SUBSET Conns, excused : SUBSET Conns, overlap : BOOLEAN]
         /\ h.early = history.early /\ h.overtaken = history.overtaken /\ h.overlap = history.overlap
         /\ history.excused \subseteq h.excused
         /\ link[d].clientEnd = "closed" /\ worker[d].pc # "gone" => d \in h.excused
<1>1. history \in [early : SUBSET Conns, overtaken : SUBSET Conns, excused : SUBSET Conns, overlap : BOOLEAN]
  BY DEF Inv, TypeOK
<1>2. CASE SentTo(d) = history /\ (link[d].clientEnd # "closed" \/ worker[d].pc = "gone")
  BY <1>1, <1>2
<1>3. CASE SentTo(d) = [history EXCEPT !.excused = @ \cup {d}]
  BY <1>1, <1>3
<1>4. QED
  BY <1>2, <1>3 DEF SentTo, Excuse

\* A worker answers its own client.
Answers(c, m, ok) ==
  /\ worker[c].pc \in {"reply", "info", "logdata"}
  /\ worker' = [worker EXCEPT ![c] = worker'[c]] /\ worker'[c] \in Worker
  /\ worker'[c].pc = IF ok THEN Continue ELSE "remove"
  /\ worker'[c].auth = worker[c].auth /\ worker'[c].named = worker[c].named /\ worker'[c].bye = worker[c].bye
  /\ worker[c].pc = "reply" => m.id = "SPAWN_SETTINGS" /\ m.set = worker[c].read
  /\ worker[c].pc # "reply" => m.id # "SPAWN_SETTINGS"
  /\ history' = SentTo(c)
  /\ UNCHANGED <<server, settings, mark, client, used>>

LEMMA WorkerAnswers ==
  ASSUME Inv, NEW c \in Conns, NEW m \in ToClient, NEW ok \in BOOLEAN, ServerSends(c, m, ok), Answers(c, m, ok)
  PROVE  Inv'
<1>1. /\ link' \in [Conns -> Link]
      /\ \A e \in Conns : /\ link'[e].up = link[e].up /\ link'[e].serverEnd = link[e].serverEnd
                          /\ link'[e].clientEnd = link[e].clientEnd
                          /\ e # c => link'[e] = link[e]
      /\ link'[c].reset => link[c].reset \/ link[c].clientEnd = "closed"
      /\ ~ok => link[c].serverEnd = "closed" \/ link[c].clientEnd = "closed"
      /\ link[c].serverEnd = "open" /\ link[c].clientEnd = "open" =>
           ok /\ link'[c].down = Append(link[c].down, m)
  BY ServerSendIs
<1>2. /\ history' \in [early : SUBSET Conns, overtaken : SUBSET Conns, excused : SUBSET Conns, overlap : BOOLEAN]
      /\ history'.early = history.early /\ history'.overtaken = history.overtaken
      /\ history'.overlap = history.overlap
      /\ \A e \in history.excused : e \in history'.excused
      /\ link[c].clientEnd = "closed" /\ worker[c].pc # "gone" => c \in history'.excused
  BY SentToIs DEF Answers
<1>3. /\ worker \in [Conns -> Worker] /\ worker' \in [Conns -> Worker]
      /\ \A e \in Conns \ {c} : worker'[e] = worker[e]
  BY DEF Inv, TypeOK, Answers
<1>4. /\ worker[c].pc \in {"reply", "info", "logdata"}
      /\ worker'[c].auth = worker[c].auth /\ worker'[c].named = worker[c].named /\ worker'[c].bye = worker[c].bye
      /\ worker'[c].pc \in {"recv", "remove"} /\ (worker'[c].pc = "remove" => ~ok \/ main # "run")
  BY DEF Answers, Continue, Inv, Phases
<1>5. UNCHANGED <<server, settings, mark, client, used>>
  BY DEF Answers
<1>6. TypeOK'
  BY <1>1, <1>2, <1>3, <1>5 DEF Inv, TypeOK, server, settings
<1>7. Phases'
  <2>1. \A d \in Conns :
          /\ worker'[d].pc = "spawn" <=> cs = d
          /\ worker'[d].pc = "none" <=> d[2] > client[d[1]].last
          /\ worker'[d].pc \in {"none", "backlog"} => ~worker'[d].auth
          /\ worker'[d].pc = "none" => link'[d].up = <<>> /\ link'[d].serverEnd = "none" /\ ~link'[d].reset
          /\ worker'[d].pc = "none" => \A i \in 1 .. Len(netclients) : netclients[i] # d
          /\ worker'[d].pc \in {"log", "gone"} => link'[d].serverEnd = "closed"
          /\ worker'[d].pc \in Serving \cup {"remove"} => \E i \in 1 .. Len(netclients) : netclients[i] = d
    <3> TAKE d \in Conns
    <3>1. CASE d = c
      BY <1>4, <3>1 DEF Inv, Phases, Serving
    <3>2. CASE d # c
      BY <1>1, <1>3, <3>2 DEF Inv, Phases
    <3>3. QED
      BY <3>1, <3>2
  <2>2. main = "gone" => \A d \in Conns : ~Alive(d)'
    BY <1>3, <1>4 DEF Inv, Phases, Alive
  <2>3. QED
    BY <1>5, <2>1, <2>2 DEF Inv, Phases, server
<1>8. Sockets'
  BY <1>1, <1>5 DEF Inv, Sockets
<1>9. AuthFirst'
  <2>1. \A d \in Conns : worker'[d].auth = worker[d].auth
    BY <1>3, <1>4
  <2>2. QED
    BY <1>1, <1>2, <1>5, <2>1 DEF Inv, AuthFirst
<1>10. LogonFirst'
  <2> SUFFICES ASSUME NEW d \in Conns, d[2] = 1, worker'[d].pc \in Serving \cup {"none", "backlog"}, ~worker'[d].named
               PROVE  /\ Announced(link'[d].up)
                      /\ client[d[1]].last = 1 /\ client[d[1]].flag_sent_username_once
                           /\ link'[d].serverEnd = "open" => Has(link'[d].up, "LOGON")
    BY <1>5 DEF Inv, LogonFirst
  <2>1. worker[d].pc \in Serving \cup {"none", "backlog"} /\ ~worker[d].named
    BY <1>3, <1>4 DEF Serving
  <2>2. link'[d].up = link[d].up /\ link'[d].serverEnd = link[d].serverEnd
    BY <1>1
  <2>3. QED
    BY <2>1, <2>2 DEF Inv, LogonFirst
<1>11. Marks'
  <2>1. \A x \in Conns : worker'[x].pc = "set" => worker[x].pc = "set" /\ worker'[x] = worker[x]
    BY <1>3, <1>4
  <2>2. \A x \in Conns : worker[x].pc = "set" => worker'[x].pc = "set"
    BY <1>3, <1>4
  <2>3. UNCHANGED <<main, mark, log_general>> /\ history'.overlap = history.overlap
    BY <1>2, <1>5 DEF server, settings
  <2>4. QED
    BY <2>1, <2>2, <2>3 DEF Inv, Marks
<1>12. Logoffs'
  <2> SUFFICES ASSUME NEW d \in Conns, Alive(d)', d \notin history'.excused PROVE Hears(d)'
    BY DEF Logoffs
  <2>1. Hears(d)
    BY <1>2, <1>3, <1>4 DEF Inv, Logoffs, Alive
  <2>2. UNCHANGED <<main, client>> /\ history'.early = history.early
    BY <1>2, <1>5 DEF server
  <2>3. CASE d = c
    <3>1. link[c].clientEnd # "closed"
      BY <1>2, <1>4, <2>3
    <3>2. worker'[c].pc = "recv" /\ ~link'[c].reset
      BY <1>1, <1>4, <2>1, <2>3, <3>1 DEF Hears
    <3>3. /\ link'[c].up = link[c].up /\ link'[c].serverEnd = link[c].serverEnd
          /\ link'[c].clientEnd = link[c].clientEnd
      BY <1>1
    <3>4. QED
      BY <1>4, <2>1, <2>2, <2>3, <3>2, <3>3 DEF Hears
  <2>4. CASE d # c
    BY <1>1, <1>3, <2>1, <2>2, <2>4 DEF Hears
  <2>5. QED
    BY <2>3, <2>4
<1>13. Copies'
  <2> SUFFICES ASSUME NEW d \in Conns, Served(d)', ~Pending(d)'
               PROVE  IF worker'[d].pc = "reply" THEN worker'[d].read = Current'
                      ELSE Learns(link'[d].down, client'[d[1]].copy, Current')
    BY DEF Copies
  <2>1. Current' = Current /\ UNCHANGED <<main, netclients, client>>
    BY <1>5 DEF Current, server, settings
  <2>2. ~Pending(d)
    BY <1>3, <1>4, <2>1 DEF Pending
  <2>3. CASE d = c
    <3>1. /\ Served(c) /\ worker'[c].pc = "recv"
          /\ link'[c].down = Append(link[c].down, m) /\ link[c].down \in Seq(ToClient)
      BY <1>1, <1>2, <1>4, <2>1, <2>3 DEF Served, Serving, Inv, TypeOK, Link
    <3>2. CASE worker[c].pc = "reply"
      <4>1. m.id = "SPAWN_SETTINGS" /\ m.set = Current
        BY <2>2, <2>3, <3>1, <3>2 DEF Inv, Copies, Answers
      <4>2. Learns(link'[c].down, client'[c[1]].copy, Current)
        BY <3>1, <4>1, LearnsMore
      <4>3. QED
        BY <2>1, <2>3, <3>1, <4>2
    <3>3. CASE worker[c].pc # "reply"
      <4>1. m.id # "SPAWN_SETTINGS" /\ Learns(link[c].down, client[c[1]].copy, Current)
        BY <2>2, <2>3, <3>1, <3>3 DEF Inv, Copies, Answers
      <4>2. Learns(link'[c].down, client[c[1]].copy, Current)
        BY <3>1, <4>1, LearnsMore
      <4>3. QED
        BY <2>1, <2>3, <3>1, <4>2
    <3>4. QED
      BY <3>2, <3>3
  <2>4. CASE d # c
    <3>1. worker'[d] = worker[d] /\ link'[d] = link[d] /\ history'.overtaken = history.overtaken
      BY <1>1, <1>2, <1>3, <2>4
    <3>2. QED
      BY <2>1, <2>2, <3>1 DEF Inv, Copies, Served
  <2>5. QED
    BY <2>3, <2>4
<1>14. QED
  BY <1>6, <1>7, <1>8, <1>9, <1>10, <1>11, <1>12, <1>13 DEF Inv

LEMMA AnsweringSteps ==
  ASSUME Inv, NEW c \in Conns, Reply(c) \/ ShowUserInfo(c) \/ SendLogData(c) PROVE Inv'
<1> SUFFICES \E m \in ToClient, ok \in BOOLEAN : ServerSends(c, m, ok) /\ Answers(c, m, ok)
  BY WorkerAnswers
<1>1. worker \in [Conns -> Worker] /\ worker[c] \in Worker /\ worker[c].read \in Settings /\ Off \in Settings
  BY DEF Inv, TypeOK, Worker, Off, Settings
<1>2. \A id \in {"SPAWN_SETTINGS", "SHOW_USERINFO", "RECV_LOGDATA"}, s \in Settings : [id |-> id, set |-> s] \in ToClient
  BY DEF ToClient
<1>3. Continue \in {"recv", "remove"}
  BY DEF Continue
<1> HIDE DEF Settings, Off, Continue
<1>4. CASE Reply(c)
  <2> DEFINE m == [id |-> "SPAWN_SETTINGS", set |-> worker[c].read]
  <2>1. PICK ok \in BOOLEAN :
          /\ ServerSends(c, m, ok)
          /\ worker' = [worker EXCEPT ![c].read = Off, ![c].pc = IF ok THEN Continue ELSE "remove"]
    BY <1>4 DEF Reply
  <2>2. worker[c].pc = "reply" /\ history' = SentTo(c) /\ UNCHANGED <<server, settings, mark, client, used>>
    BY <1>4 DEF Reply
  <2>3. m \in ToClient /\ m.id = "SPAWN_SETTINGS" /\ m.set = worker[c].read
    BY <1>1, <1>2
  <2>4. Answers(c, m, ok)
    <3> HIDE DEF m
    <3>1. PICK pc \in {"recv", "remove"} : pc = IF ok THEN Continue ELSE "remove"
      BY <1>3
    <3>2. worker' = [worker EXCEPT ![c].read = Off, ![c].pc = pc]
      BY <2>1, <3>1
    <3>3. /\ worker' = [worker EXCEPT ![c] = worker'[c]] /\ worker'[c] \in Worker /\ worker'[c].pc = pc
          /\ worker'[c].auth = worker[c].auth /\ worker'[c].named = worker[c].named /\ worker'[c].bye = worker[c].bye
      BY <1>1, <3>2 DEF Worker
    <3>4. QED
      BY <2>2, <2>3, <3>1, <3>3 DEF Answers
  <2>5. QED
    BY <2>1, <2>3, <2>4
<1>5. CASE ShowUserInfo(c) \/ SendLogData(c)
  <2>1. PICK id \in {"SHOW_USERINFO", "RECV_LOGDATA"}, ok \in BOOLEAN :
          /\ ServerSends(c, [id |-> id, set |-> Off], ok)
          /\ worker' = [worker EXCEPT ![c].pc = IF ok THEN Continue ELSE "remove"]
    BY <1>5 DEF ShowUserInfo, SendLogData
  <2>2. worker[c].pc \in {"info", "logdata"} /\ history' = SentTo(c) /\ UNCHANGED <<server, settings, mark, client, used>>
    BY <1>5 DEF ShowUserInfo, SendLogData
  <2> DEFINE m == [id |-> id, set |-> Off]
  <2>3. m \in ToClient /\ m.id # "SPAWN_SETTINGS"
    BY <1>1, <1>2, <2>1
  <2>4. Answers(c, m, ok)
    <3> HIDE DEF m
    <3>1. PICK pc \in {"recv", "remove"} : pc = IF ok THEN Continue ELSE "remove"
      BY <1>3
    <3>2. worker' = [worker EXCEPT ![c].pc = pc]
      BY <2>1, <3>1
    <3>3. /\ worker' = [worker EXCEPT ![c] = worker'[c]] /\ worker'[c] \in Worker /\ worker'[c].pc = pc
          /\ worker'[c].auth = worker[c].auth /\ worker'[c].named = worker[c].named /\ worker'[c].bye = worker[c].bye
      BY <1>1, <3>2 DEF Worker
    <3>4. QED
      BY <2>2, <2>3, <3>1, <3>3 DEF Answers
  <2>5. QED
    BY <2>1, <2>3, <2>4
<1>6. QED
  BY <1>4, <1>5

\* A broadcast reaches the next connection of netclients.
LEMMA SpawnKeeps == ASSUME Inv, NEW c \in Conns, SpawnSettings(c) PROVE Inv'
<1> DEFINE n == worker[c].next
           d == netclients[n]
           m == [id |-> "SPAWN_SETTINGS", set |-> Current]
<1>1. /\ worker \in [Conns -> Worker] /\ worker[c] \in Worker /\ netclients \in Seq(Conns)
      /\ worker[c].pc = "spawn" /\ n <= Len(netclients)
      /\ worker' = [worker EXCEPT ![c].next = @ + 1]
      /\ UNCHANGED <<server, settings, mark, client, used>>
  BY DEF SpawnSettings, Inv, TypeOK
<1>2. n \in Nat \ {0} /\ Len(netclients) \in Nat
  BY <1>1, LenProperties DEF Worker
<1>3. d \in Conns
  BY <1>1, <1>2, ElementOfSeq
<1>4. m \in ToClient
  <2>1. Current \in Settings
    BY DEF Inv, TypeOK, Current, Settings
  <2>2. QED
    BY <2>1 DEF ToClient
<1>5. PICK ok \in BOOLEAN : ServerSends(d, m, ok)
  BY DEF SpawnSettings
<1>6. history' = IF worker[d].pc = "reply" THEN [SentTo(d) EXCEPT !.overtaken = @ \cup {d}] ELSE SentTo(d)
  BY DEF SpawnSettings
<1>7. m.id = "SPAWN_SETTINGS" /\ m.set = Current
  OBVIOUS
<1> HIDE DEF n, d, m
<1>8. /\ link' \in [Conns -> Link]
      /\ \A e \in Conns : /\ link'[e].up = link[e].up /\ link'[e].serverEnd = link[e].serverEnd
                          /\ link'[e].clientEnd = link[e].clientEnd
                          /\ e # d => link'[e] = link[e]
      /\ link'[d].reset => link[d].reset \/ link[d].clientEnd = "closed"
      /\ link[d].serverEnd = "open" /\ link[d].clientEnd = "open" =>
           ok /\ link'[d].down = Append(link[d].down, m)
      /\ link[d].serverEnd # "open" => link' = link
  BY <1>3, <1>4, <1>5, ServerSendIs
<1>9. /\ history' \in [early : SUBSET Conns, overtaken : SUBSET Conns, excused : SUBSET Conns, overlap : BOOLEAN]
      /\ history'.early = history.early /\ history'.overlap = history.overlap
      /\ \A e \in history.excused : e \in history'.excused
      /\ \A e \in history.overtaken : e \in history'.overtaken
      /\ worker[d].pc = "reply" => d \in history'.overtaken
      /\ link[d].clientEnd = "closed" /\ worker[d].pc # "gone" => d \in history'.excused
  <2> DEFINE h == SentTo(d)
  <2>1. /\ h \in [early : SUBSET Conns, overtaken : SUBSET Conns, excused : SUBSET Conns, overlap : BOOLEAN]
        /\ h.early = history.early /\ h.overtaken = history.overtaken /\ h.overlap = history.overlap
        /\ history.excused \subseteq h.excused
        /\ link[d].clientEnd = "closed" /\ worker[d].pc # "gone" => d \in h.excused
    BY <1>3, SentToIs
  <2>2. history' = IF worker[d].pc = "reply" THEN [h EXCEPT !.overtaken = @ \cup {d}] ELSE h
    BY <1>6
  <2> HIDE DEF h
  <2>3. QED
    BY <1>3, <2>1, <2>2
<1>10. /\ \A e \in Conns : /\ worker'[e].pc = worker[e].pc /\ worker'[e].auth = worker[e].auth
                           /\ worker'[e].named = worker[e].named /\ worker'[e].bye = worker[e].bye
                           /\ worker'[e].val = worker[e].val /\ worker'[e].read = worker[e].read
                           /\ e # c => worker'[e] = worker[e]
       /\ worker'[c].next = n + 1
       /\ worker' \in [Conns -> Worker]
  <2>1. worker'[c] = [worker[c] EXCEPT !.next = n + 1] /\ \A e \in Conns \ {c} : worker'[e] = worker[e]
    BY <1>1 DEF n
  <2>2. n + 1 \in Nat \ {0}
    BY <1>2
  <2>3. worker'[c] \in Worker
    BY <1>1, <2>1, <2>2 DEF Worker
  <2>4. worker' \in [Conns -> Worker]
    BY <1>1, <2>3
  <2>5. /\ worker'[c].pc = worker[c].pc /\ worker'[c].auth = worker[c].auth
        /\ worker'[c].named = worker[c].named /\ worker'[c].bye = worker[c].bye
        /\ worker'[c].val = worker[c].val /\ worker'[c].read = worker[c].read /\ worker'[c].next = n + 1
    BY <1>1, <2>1 DEF Worker
  <2>6. QED
    BY <2>1, <2>4, <2>5
<1>11. UNCHANGED <<main, signal_server_shutdown, netclients, cs, once_invalid_packet_received, log_general,
                   log_capchanges, mark, client, used>>
  BY <1>1 DEF server, settings
<1>12. TypeOK'
  BY <1>8, <1>9, <1>10, <1>11 DEF Inv, TypeOK
<1>13. Phases'
  <2>1. \A e \in Conns : Alive(e)' <=> Alive(e)
    BY <1>10 DEF Alive
  <2>2. \A e \in Conns : worker'[e].pc = "none" => link'[e] = link[e]
    <3> SUFFICES ASSUME NEW e \in Conns, worker'[e].pc = "none" PROVE link'[e] = link[e]
      OBVIOUS
    <3>1. worker[e].pc = "none"
      BY <1>10
    <3>2. link[e].serverEnd = "none"
      BY <3>1 DEF Inv, Phases
    <3>3. QED
      BY <1>8, <3>2
  <2>3. QED
    BY <1>8, <1>10, <1>11, <2>1, <2>2 DEF Inv, Phases

<1>14. Sockets'
  BY <1>8, <1>11 DEF Inv, Sockets
<1>15. AuthFirst'
  BY <1>8, <1>9, <1>10, <1>11 DEF Inv, AuthFirst
<1>16. LogonFirst'
  BY <1>8, <1>10, <1>11 DEF Inv, LogonFirst
<1>17. Marks'
  BY <1>9, <1>10, <1>11 DEF Inv, Marks
<1>18. Logoffs'
  <2> SUFFICES ASSUME NEW e \in Conns, Alive(e)', e \notin history'.excused PROVE Hears(e)'
    BY DEF Logoffs
  <2>1. Hears(e)
    BY <1>9, <1>10 DEF Inv, Logoffs, Alive
  <2>2. link'[e].reset => link[e].reset
    <3>1. CASE e = d
      BY <1>8, <1>9, <1>10, <3>1 DEF Alive
    <3>2. CASE e # d
      BY <1>8, <3>2
    <3>3. QED
      BY <3>1, <3>2
  <2>3. QED
    BY <1>8, <1>9, <1>10, <1>11, <2>1, <2>2 DEF Hears
<1>19. Copies'
  <2> SUFFICES ASSUME NEW e \in Conns, Served(e)', ~Pending(e)'
               PROVE  IF worker'[e].pc = "reply" THEN worker'[e].read = Current'
                      ELSE Learns(link'[e].down, client'[e[1]].copy, Current')
    BY DEF Copies
  <2>1. Current' = Current
    BY <1>11 DEF Current
  <2>2. Served(e)
    BY <1>8, <1>9, <1>10, <1>11 DEF Served
  <2>3. CASE e = d
    <3>1. worker'[e].pc # "reply"
      BY <1>9, <1>10, <2>3 DEF Served
    <3>2. link'[d].down = Append(link[d].down, m) /\ link[d].down \in Seq(ToClient)
      BY <1>8, <2>2, <2>3 DEF Served, Inv, TypeOK, Link
    <3>3. Learns(link'[d].down, client'[e[1]].copy, Current)
      BY <1>4, <1>7, <3>2, LearnsMore
    <3>4. QED
      BY <2>1, <2>3, <3>1, <3>3
  <2>4. CASE e # d
    <3>1. ~Pending(e)
      <4>1. \A w \in Conns : worker[w].pc # "enter"
        BY <1>10 DEF Pending
      <4>2. ASSUME NEW w \in Conns, worker[w].pc = "spawn", NEW i \in worker[w].next .. Len(netclients), netclients[i] = e
            PROVE  FALSE
        <5>1. w = c
          BY <1>1, <1>3, <4>2, SyslogAssumption DEF Inv, Phases
        <5>2. i # n /\ i \in n .. Len(netclients)
          BY <2>4, <4>2, <5>1 DEF d, n
        <5>3. i \in n + 1 .. Len(netclients)
          BY <1>2, <5>2
        <5>4. QED
          BY <1>1, <1>10, <1>11, <4>2, <5>1, <5>3 DEF Pending
      <4>3. QED
        BY <4>1, <4>2 DEF Pending
    <3>2. link'[e] = link[e] /\ worker'[e].pc = worker[e].pc /\ worker'[e].read = worker[e].read
      BY <1>8, <1>10, <2>4
    <3>3. QED
      BY <1>11, <2>1, <2>2, <3>1, <3>2 DEF Inv, Copies
  <2>5. QED
    BY <2>3, <2>4
<1>20. QED
  BY <1>12, <1>13, <1>14, <1>15, <1>16, <1>17, <1>18, <1>19 DEF Inv

\* A step of a worker that touches no connection.
Works(c) ==
  /\ worker[c].pc \in {"recv", "write", "set", "enter", "spawn", "remove"}
  /\ worker'[c].pc \in {"set", "enter", "spawn", "info", "remove", "close"}
  /\ worker'[c].pc \in Serving => worker[c].pc \in Serving
  /\ \A e \in Conns \ {c} : worker'[e] = worker[e]
  /\ worker'[c].auth = worker[c].auth /\ worker'[c].named = worker[c].named /\ worker'[c].bye = worker[c].bye
  /\ UNCHANGED <<main, signal_server_shutdown, once_invalid_packet_received, link, client, used>>
  /\ history' = [history EXCEPT !.overlap = history'.overlap]
  /\ \A e \in Conns \ {c} :
       (\E i \in 1 .. Len(netclients) : netclients[i] = e) => \E i \in 1 .. Len(netclients') : netclients'[i] = e
  /\ \A j \in 1 .. Len(netclients') : \E i \in 1 .. Len(netclients) : netclients'[j] = netclients[i]
  /\ worker'[c].pc # "close" => UNCHANGED netclients
  /\ IF worker'[c].pc = "spawn" THEN worker[c].pc = "enter" /\ cs = NoOne /\ cs' = c
     ELSE IF worker[c].pc = "spawn" THEN cs' = NoOne ELSE UNCHANGED cs
  /\ worker'[c].pc = "remove" =>
       \/ link[c].serverEnd = "closed"
       \/ link[c].clientEnd = "closed" /\ (link[c].up = <<>> \/ link[c].reset)
  /\ worker'[c].pc = "close" => worker[c].pc = "remove"

LEMMA WorkerWorks ==
  ASSUME Inv, NEW c \in Conns, TypeOK', Works(c), Marks', Copies'
  PROVE  Inv'
<1>1. /\ UNCHANGED <<main, signal_server_shutdown, link, client, used>>
      /\ \A e \in Conns \ {c} : worker'[e] = worker[e]
      /\ worker'[c].auth = worker[c].auth /\ worker'[c].named = worker[c].named /\ worker'[c].bye = worker[c].bye
      /\ worker[c].pc \in {"recv", "write", "set", "enter", "spawn", "remove"}
      /\ worker'[c].pc \in {"set", "enter", "spawn", "info", "remove", "close"}
      /\ worker'[c].pc \in Serving => worker[c].pc \in Serving
  BY DEF Works
<1>2. /\ history'.early = history.early /\ history'.overtaken = history.overtaken
      /\ history'.excused = history.excused
  BY DEF Works, Inv, TypeOK
<1>3. Phases'
  <2>1. \A d \in Conns :
          /\ worker'[d].pc = "none" <=> d[2] > client[d[1]].last
          /\ worker'[d].pc \in {"none", "backlog"} => ~worker'[d].auth
          /\ worker'[d].pc = "none" => link[d].up = <<>> /\ link[d].serverEnd = "none" /\ ~link[d].reset
          /\ worker'[d].pc = "none" => \A i \in 1 .. Len(netclients') : netclients'[i] # d
          /\ worker'[d].pc \in {"log", "gone"} => link[d].serverEnd = "closed"
    <3> TAKE d \in Conns
    <3>1. CASE d = c
      BY <1>1, <3>1 DEF Inv, Phases
    <3>2. CASE d # c
      <4>1. ASSUME worker'[d].pc = "none", NEW j \in 1 .. Len(netclients') PROVE netclients'[j] # d
        <5>1. \A i \in 1 .. Len(netclients) : netclients[i] # d
          BY <1>1, <3>2, <4>1 DEF Inv, Phases
        <5>2. QED
          BY <5>1 DEF Works
      <4>2. QED
        BY <1>1, <3>2, <4>1 DEF Inv, Phases
    <3>3. QED
      BY <3>1, <3>2
  <2>2. ASSUME NEW d \in Conns, worker'[d].pc \in Serving \cup {"remove"}
        PROVE  \E i \in 1 .. Len(netclients') : netclients'[i] = d
    <3>1. CASE d = c
      <4>1. worker'[c].pc # "close" /\ worker[c].pc \in Serving \cup {"remove"}
        BY <1>1, <2>2, <3>1 DEF Serving
      <4>2. netclients' = netclients
        BY <4>1 DEF Works
      <4>3. QED
        BY <3>1, <4>1, <4>2 DEF Inv, Phases
    <3>2. CASE d # c
      BY <1>1, <2>2, <3>2 DEF Inv, Phases, Works
    <3>3. QED
      BY <3>1, <3>2
  <2>3. \A d \in Conns : worker'[d].pc = "spawn" <=> cs' = d
    <3>1. NoOne \notin Conns /\ \A d \in Conns : worker[d].pc = "spawn" <=> cs = d
      BY SyslogAssumption DEF Inv, Phases
    <3>2. CASE worker'[c].pc = "spawn"
      BY <1>1, <3>1, <3>2 DEF Works
    <3>3. CASE worker'[c].pc # "spawn" /\ worker[c].pc = "spawn"
      BY <1>1, <3>1, <3>3 DEF Works
    <3>4. CASE worker'[c].pc # "spawn" /\ worker[c].pc # "spawn"
      BY <1>1, <3>1, <3>4 DEF Works
    <3>5. QED
      BY <3>2, <3>3, <3>4
  <2>4. main = "gone" => \A d \in Conns : ~Alive(d)'
    BY <1>1 DEF Inv, Phases, Alive
  <2>5. QED
    BY <1>1, <2>1, <2>2, <2>3, <2>4 DEF Inv, Phases
<1>4. Sockets'
  BY <1>1 DEF Inv, Sockets
<1>5. AuthFirst'
  <2>1. \A d \in Conns : worker'[d].auth = worker[d].auth
    BY <1>1
  <2>2. QED
    BY <1>1, <1>2, <2>1 DEF Inv, AuthFirst
<1>6. LogonFirst'
  <2>1. \A d \in Conns : /\ worker'[d].named = worker[d].named
                         /\ worker'[d].pc \in Serving \cup {"none", "backlog"} =>
                              worker[d].pc \in Serving \cup {"none", "backlog"}
    BY <1>1
  <2>2. QED
    BY <1>1, <2>1 DEF Inv, LogonFirst
<1>7. Logoffs'
  <2> SUFFICES ASSUME NEW d \in Conns, Alive(d)', d \notin history.excused PROVE Hears(d)'
    BY <1>2 DEF Logoffs
  <2>1. Hears(d)
    BY <1>1 DEF Inv, Logoffs, Alive
  <2>2. CASE d = c
    <3>1. worker[c].pc # "log" /\ worker'[c].pc # "log"
      BY <1>1
    <3>2. ASSUME c \notin history.early, worker'[c].pc \in {"remove", "close"} PROVE worker[c].bye
      <4>1. CASE worker'[c].pc = "remove"
        <5>1. link[c].up = <<>> /\ link[c].clientEnd = "closed"
          BY <2>1, <2>2, <3>1, <4>1 DEF Works, Hears
        <5>2. ~Has(link[c].up, "LOGOFF")
          BY <5>1 DEF Has
        <5>3. QED
          BY <2>1, <2>2, <3>2, <5>1, <5>2 DEF Hears
      <4>2. CASE worker'[c].pc = "close"
        BY <2>1, <2>2, <3>2, <4>2 DEF Works, Hears
      <4>3. QED
        BY <3>2, <4>1, <4>2
    <3>3. QED
      BY <1>1, <1>2, <2>1, <2>2, <3>1, <3>2 DEF Hears
  <2>3. CASE d # c
    BY <1>1, <1>2, <2>1, <2>3 DEF Hears
  <2>4. QED
    BY <2>2, <2>3
<1>8. QED
  BY <1>3, <1>4, <1>5, <1>6, <1>7 DEF Inv

LEMMA WorkingSteps ==
  ASSUME Inv, NEW c \in Conns,
         Switch(c) \/ SetGeneral(c) \/ EnterCS(c) \/ LeaveCS(c) \/ ConnectionEnds(c) \/ RemoveEntry(c)
  PROVE  Inv'
<1> SUFFICES TypeOK' /\ Works(c) /\ Marks' /\ Copies'
  BY WorkerWorks
<1>1. /\ worker \in [Conns -> Worker] /\ worker[c] \in Worker /\ netclients \in Seq(Conns) /\ Len(netclients) \in Nat
      /\ history \in [early : SUBSET Conns, overtaken : SUBSET Conns, excused : SUBSET Conns, overlap : BOOLEAN]
      /\ NoOne \notin Conns /\ \A d \in Conns : worker[d].pc = "spawn" <=> cs = d
  BY SyslogAssumption, LenProperties DEF Inv, TypeOK, Phases
<1>2. CASE Switch(c)
  <2>1. /\ worker[c].pc = "write" /\ mark' = worker[c].val
        /\ worker' = [worker EXCEPT ![c].pc = "set"]
        /\ UNCHANGED <<main, signal_server_shutdown, netclients, cs, once_invalid_packet_received, log_general,
                       log_capchanges, link, client, used>>
        /\ history' = [history EXCEPT !.overlap = @ \/ \E x, y \in Switches : x # y]
    BY <1>2 DEF Switch, WriteMark, Overlap, server, settings
  <2>2. /\ worker'[c] = [worker[c] EXCEPT !.pc = "set"] /\ \A e \in Conns \ {c} : worker'[e] = worker[e]
        /\ worker'[c] \in Worker /\ worker[c].val \in BOOLEAN
    BY <1>1, <2>1 DEF Worker
  <2>3. worker' \in [Conns -> Worker]
    BY <1>1, <2>1, <2>2
  <2>4. PICK o \in BOOLEAN : o = (history.overlap \/ \E x, y \in Switches : x # y)
    BY <1>1
  <2>5. /\ history' \in [early : SUBSET Conns, overtaken : SUBSET Conns, excused : SUBSET Conns, overlap : BOOLEAN]
        /\ history' = [history EXCEPT !.overlap = history'.overlap]
        /\ history'.overtaken = history.overtaken /\ history'.overlap = o
    BY <1>1, <2>1, <2>4
  <2>6. TypeOK'
    BY <2>1, <2>2, <2>3, <2>5 DEF Inv, TypeOK
  <2>7. /\ worker'[c].pc = "set" /\ worker'[c].auth = worker[c].auth /\ worker'[c].named = worker[c].named
        /\ worker'[c].bye = worker[c].bye /\ worker'[c].val = worker[c].val
    BY <1>1, <2>2 DEF Worker
  <2>8. Works(c)
    BY <2>1, <2>2, <2>5, <2>7 DEF Works, Serving
  <2>9. Marks'
    <3> SUFFICES ASSUME ~history'.overlap
                 PROVE  /\ \A x \in Conns : worker'[x].pc = "set" => x = c
                        /\ main # "set"
      BY <2>1, <2>7 DEF Marks
    <3>1. c \in Switches /\ \A x \in Switches : x = c
      BY <2>1, <2>4, <2>5 DEF Switches
    <3>2. \A x \in Conns : worker[x].pc = "set" => x = c
      BY <3>1 DEF Switches
    <3>3. main # "set"
      BY <1>1, <3>1 DEF Switches
    <3>4. QED
      BY <2>2, <3>2, <3>3
  <2>10. Copies'
    <3>1. \A d \in Conns : /\ worker'[d].read = worker[d].read /\ worker'[d].auth = worker[d].auth
                           /\ worker'[d].pc = "reply" <=> worker[d].pc = "reply"
                           /\ worker'[d].pc \in Serving <=> worker[d].pc \in Serving
                           /\ worker'[d].pc = "enter" <=> worker[d].pc = "enter"
                           /\ worker'[d].pc = "spawn" <=> worker[d].pc = "spawn"
                           /\ worker'[d].next = worker[d].next
      BY <1>1, <2>1, <2>2, <2>7 DEF Worker, Serving
    <3>2. \A d \in Conns : (Served(d)' <=> Served(d)) /\ (Pending(d)' <=> Pending(d))
      BY <2>1, <2>5, <3>1 DEF Served, Pending
    <3>3. QED
      BY <2>1, <3>1, <3>2 DEF Inv, Copies, Current
  <2>11. QED
    BY <2>6, <2>8, <2>9, <2>10
<1>3. CASE SetGeneral(c)
  <2>1. /\ worker[c].pc = "set" /\ log_general' = worker[c].val
        /\ worker' = [worker EXCEPT ![c].val = FALSE, ![c].pc = "enter"]
        /\ UNCHANGED <<main, signal_server_shutdown, netclients, cs, once_invalid_packet_received,
                       log_capchanges, mark, link, client, used, history>>
    BY <1>3 DEF SetGeneral, server
  <2>2. /\ worker'[c] = [worker[c] EXCEPT !.val = FALSE, !.pc = "enter"] /\ \A e \in Conns \ {c} : worker'[e] = worker[e]
        /\ worker'[c] \in Worker /\ worker[c].val \in BOOLEAN
    BY <1>1, <2>1 DEF Worker
  <2>3. worker' \in [Conns -> Worker]
    BY <1>1, <2>1, <2>2
  <2>4. TypeOK'
    BY <2>1, <2>2, <2>3 DEF Inv, TypeOK
  <2>5. /\ worker'[c].pc = "enter" /\ worker'[c].auth = worker[c].auth /\ worker'[c].named = worker[c].named
        /\ worker'[c].bye = worker[c].bye
    BY <1>1, <2>2 DEF Worker
  <2>6. history' = [history EXCEPT !.overlap = history'.overlap]
    BY <1>1, <2>1
  <2>7. Works(c)
    BY <2>1, <2>2, <2>5, <2>6 DEF Works, Serving
  <2>8. Marks'
    <3>1. \A x \in Conns : worker'[x].pc = "set" => x # c /\ worker[x].pc = "set"
      BY <2>2, <2>5
    <3>2. ~history.overlap => /\ main # "set" /\ mark = worker[c].val
                              /\ \A x \in Conns : worker'[x].pc # "set"
      BY <2>1, <3>1 DEF Inv, Marks
    <3>3. QED
      BY <2>1, <3>2 DEF Marks
  <2>9. Copies'
    BY <2>5 DEF Copies, Pending
  <2>10. QED
    BY <2>4, <2>7, <2>8, <2>9

<1>4. CASE EnterCS(c)
  <2>1. /\ worker[c].pc = "enter" /\ cs = NoOne /\ cs' = c
        /\ worker' = [worker EXCEPT ![c].next = 1, ![c].pc = "spawn"]
        /\ UNCHANGED <<main, signal_server_shutdown, netclients, once_invalid_packet_received, log_general,
                       log_capchanges, mark, link, client, used, history>>
    BY <1>4 DEF EnterCS, settings
  <2>2. /\ worker'[c] = [worker[c] EXCEPT !.next = 1, !.pc = "spawn"] /\ \A e \in Conns \ {c} : worker'[e] = worker[e]
        /\ worker'[c] \in Worker
    BY <1>1, <2>1 DEF Worker
  <2>3. worker' \in [Conns -> Worker]
    BY <1>1, <2>1, <2>2
  <2>4. TypeOK'
    BY <2>1, <2>2, <2>3 DEF Inv, TypeOK
  <2>5. /\ worker'[c].pc = "spawn" /\ worker'[c].auth = worker[c].auth /\ worker'[c].named = worker[c].named
        /\ worker'[c].bye = worker[c].bye /\ worker'[c].next = 1
    BY <1>1, <2>2 DEF Worker
  <2>6. history' = [history EXCEPT !.overlap = history'.overlap]
    BY <1>1, <2>1
  <2>7. Works(c)
    BY <2>1, <2>2, <2>5, <2>6 DEF Works, Serving
  <2>8. Marks'
    <3>1. \A x \in Conns : /\ worker'[x].pc = "set" <=> worker[x].pc = "set"
                           /\ worker'[x].pc = "set" => worker'[x] = worker[x]
      BY <2>1, <2>2, <2>5
    <3>2. QED
      BY <2>1, <3>1 DEF Inv, Marks
  <2>9. Copies'
    <3> SUFFICES ASSUME NEW d \in Conns, Served(d)' PROVE Pending(d)'
      BY DEF Copies
    <3>1. worker[d].pc \in Serving
      BY <2>1, <2>2, <2>5 DEF Served, Serving
    <3>2. PICK i \in 1 .. Len(netclients) : netclients[i] = d
      BY <3>1 DEF Inv, Phases
    <3>3. i \in worker'[c].next .. Len(netclients') /\ netclients'[i] = d
      BY <2>1, <2>5, <3>2
    <3>4. QED
      BY <2>5, <3>3 DEF Pending
  <2>10. QED
    BY <2>4, <2>7, <2>8, <2>9
<1>5. CASE LeaveCS(c)
  <2>1. /\ worker[c].pc = "spawn" /\ worker[c].next > Len(netclients) /\ cs' = NoOne
        /\ worker' = [worker EXCEPT ![c].next = 1, ![c].pc = "info"]
        /\ UNCHANGED <<main, signal_server_shutdown, netclients, once_invalid_packet_received, log_general,
                       log_capchanges, mark, link, client, used, history>>
    BY <1>5 DEF LeaveCS, settings
  <2>2. /\ worker'[c] = [worker[c] EXCEPT !.next = 1, !.pc = "info"] /\ \A e \in Conns \ {c} : worker'[e] = worker[e]
        /\ worker'[c] \in Worker
    BY <1>1, <2>1 DEF Worker
  <2>3. worker' \in [Conns -> Worker]
    BY <1>1, <2>1, <2>2
  <2>4. TypeOK'
    BY <2>1, <2>2, <2>3 DEF Inv, TypeOK
  <2>5. /\ worker'[c].pc = "info" /\ worker'[c].auth = worker[c].auth /\ worker'[c].named = worker[c].named
        /\ worker'[c].bye = worker[c].bye /\ worker[c].next \in Nat
    BY <1>1, <2>2 DEF Worker
  <2>6. history' = [history EXCEPT !.overlap = history'.overlap]
    BY <1>1, <2>1
  <2>7. Works(c)
    BY <2>1, <2>2, <2>5, <2>6 DEF Works, Serving
  <2>8. Marks'
    <3>1. \A x \in Conns : /\ worker'[x].pc = "set" <=> worker[x].pc = "set"
                           /\ worker'[x].pc = "set" => worker'[x] = worker[x]
      BY <2>1, <2>2, <2>5
    <3>2. QED
      BY <2>1, <3>1 DEF Inv, Marks
  <2>9. Copies'
    <3> SUFFICES ASSUME NEW d \in Conns, Served(d)', ~Pending(d)'
                 PROVE  IF worker'[d].pc = "reply" THEN worker'[d].read = Current'
                        ELSE Learns(link'[d].down, client'[d[1]].copy, Current')
      BY DEF Copies
    <3>1. ~Pending(d)
      <4>1. \A w \in Conns : worker[w].pc # "enter"
        BY <2>1, <2>2 DEF Pending
      <4>2. \A w \in Conns : worker[w].pc = "spawn" => w = c
        BY <1>1, <2>1
      <4>3. worker[c].next .. Len(netclients) = {}
        BY <1>1, <2>1, <2>5
      <4>4. QED
        BY <4>1, <4>2, <4>3 DEF Pending
    <3>2. Served(d) /\ (worker'[d].pc = "reply" <=> worker[d].pc = "reply") /\ (worker'[d].pc = "reply" => worker'[d] = worker[d])
      BY <2>1, <2>2, <2>5 DEF Served, Serving
    <3>3. QED
      BY <2>1, <3>1, <3>2 DEF Inv, Copies, Current
  <2>10. QED
    BY <2>4, <2>7, <2>8, <2>9
<1>6. CASE ConnectionEnds(c)
  <2>1. /\ worker[c].pc = "recv"
        /\ \/ link[c].clientEnd = "closed" /\ (link[c].up = <<>> \/ link[c].reset)
           \/ link[c].serverEnd = "closed"
        /\ worker' = [worker EXCEPT ![c].pc = "remove"]
        /\ UNCHANGED <<main, signal_server_shutdown, netclients, cs, once_invalid_packet_received, log_general,
                       log_capchanges, mark, link, client, used, history>>
    BY <1>6 DEF ConnectionEnds, server, settings
  <2>2. /\ worker'[c] = [worker[c] EXCEPT !.pc = "remove"] /\ \A e \in Conns \ {c} : worker'[e] = worker[e]
        /\ worker'[c] \in Worker
    BY <1>1, <2>1 DEF Worker
  <2>3. worker' \in [Conns -> Worker]
    BY <1>1, <2>1, <2>2
  <2>4. TypeOK'
    BY <2>1, <2>2, <2>3 DEF Inv, TypeOK
  <2>5. /\ worker'[c].pc = "remove" /\ worker'[c].auth = worker[c].auth /\ worker'[c].named = worker[c].named
        /\ worker'[c].bye = worker[c].bye
    BY <1>1, <2>2 DEF Worker
  <2>6. history' = [history EXCEPT !.overlap = history'.overlap]
    BY <1>1, <2>1
  <2>7. Works(c)
    BY <2>1, <2>2, <2>5, <2>6 DEF Works, Serving
  <2>8. Marks'
    BY <2>1, <2>2, <2>5 DEF Inv, Marks
  <2>9. Copies'
    <3>1. \A d \in Conns : (Served(d)' => Served(d) /\ d # c) /\ (Pending(d)' <=> Pending(d))
      BY <2>1, <2>2, <2>5 DEF Served, Pending, Serving
    <3>2. QED
      BY <2>1, <2>2, <3>1 DEF Inv, Copies, Current
  <2>10. QED
    BY <2>4, <2>7, <2>8, <2>9
<1>7. CASE RemoveEntry(c)
  <2>1. /\ worker[c].pc = "remove" /\ cs = NoOne
        /\ worker' = [worker EXCEPT ![c].pc = "close"]
        /\ UNCHANGED <<main, signal_server_shutdown, cs, once_invalid_packet_received, log_general,
                       log_capchanges, mark, link, client, used, history>>
    BY <1>7 DEF RemoveEntry, settings
  <2>2. /\ worker'[c] = [worker[c] EXCEPT !.pc = "close"] /\ \A e \in Conns \ {c} : worker'[e] = worker[e]
        /\ worker'[c] \in Worker
    BY <1>1, <2>1 DEF Worker
  <2>3. worker' \in [Conns -> Worker]
    BY <1>1, <2>1, <2>2
  <2>4. /\ netclients' \in Seq(Conns)
        /\ \A e \in Conns \ {c} :
             (\E i \in 1 .. Len(netclients) : netclients[i] = e) => \E i \in 1 .. Len(netclients') : netclients'[i] = e
        /\ \A j \in 1 .. Len(netclients') : \E i \in 1 .. Len(netclients) : netclients'[j] = netclients[i]
    <3>1. CASE netclients' = netclients
      BY <1>1, <3>1
    <3>2. CASE netclients' # netclients
      <4>1. PICK k \in 1 .. Len(netclients) : netclients[k] = c /\ netclients' = RemoveAt(netclients, k)
        BY <1>7, <3>2 DEF RemoveEntry, IsFirstEntry
      <4>2. /\ netclients' \in Seq(Conns) /\ Len(netclients') = Len(netclients) - 1
            /\ \A j \in 1 .. Len(netclients) - 1 : netclients'[j] = netclients[IF j < k THEN j ELSE j + 1]
        <5> DEFINE r == RemoveAt(netclients, k)
        <5>1. /\ r \in Seq(Conns) /\ Len(r) = Len(netclients) - 1
              /\ \A j \in 1 .. Len(netclients) - 1 : r[j] = netclients[IF j < k THEN j ELSE j + 1]
          BY <1>1, <4>1, Removed
        <5> HIDE DEF r
        <5>2. netclients' = r
          BY <4>1 DEF r
        <5>3. QED
          BY <5>1, <5>2
      <4>3. \A j \in 1 .. Len(netclients') : \E i \in 1 .. Len(netclients) : netclients'[j] = netclients[i]
        BY <1>1, <4>1, <4>2
      <4>4. QED
        <5> SUFFICES ASSUME NEW e \in Conns \ {c}, NEW i \in 1 .. Len(netclients), netclients[i] = e
                     PROVE  \E j \in 1 .. Len(netclients') : netclients'[j] = e
          BY <4>2, <4>3
        <5>1. e # netclients[k]
          BY <4>1
        <5>2. \E j \in 1 .. Len(RemoveAt(netclients, k)) : RemoveAt(netclients, k)[j] = e
          BY <1>1, <4>1, <5>1, OthersRemain
        <5>3. QED
          BY <4>1, <5>2
    <3>3. QED
      BY <3>1, <3>2
  <2>5. TypeOK'
    BY <2>1, <2>2, <2>3, <2>4 DEF Inv, TypeOK
  <2>6. /\ worker'[c].pc = "close" /\ worker'[c].auth = worker[c].auth /\ worker'[c].named = worker[c].named
        /\ worker'[c].bye = worker[c].bye
    BY <1>1, <2>2 DEF Worker
  <2>7. history' = [history EXCEPT !.overlap = history'.overlap]
    BY <1>1, <2>1
  <2>8. Works(c)
    BY <2>1, <2>2, <2>4, <2>6, <2>7 DEF Works, Serving
  <2>9. Marks'
    BY <2>1, <2>2, <2>6 DEF Inv, Marks
  <2>10. Copies'
    <3>1. \A w \in Conns : worker[w].pc # "spawn" /\ worker'[w].pc # "spawn"
      BY <1>1, <2>1, <2>2, <2>6
    <3>2. \A d \in Conns : (Served(d)' => Served(d) /\ d # c) /\ (Pending(d) => Pending(d)')
      BY <2>1, <2>2, <2>6, <3>1 DEF Served, Pending, Serving
    <3>3. QED
      BY <2>1, <2>2, <3>2 DEF Inv, Copies, Current
  <2>11. QED
    BY <2>5, <2>8, <2>9, <2>10
<1>8. QED
  BY <1>2, <1>3, <1>4, <1>5, <1>6, <1>7

\* The last steps of a worker.
LEMMA LeavingSteps ==
  ASSUME Inv, NEW c \in Conns, CloseClient(c) \/ LogUnexpectedExit(c) PROVE Inv'
<1>1. /\ worker \in [Conns -> Worker] /\ worker[c] \in Worker /\ link \in [Conns -> Link] /\ link[c] \in Link
      /\ history \in [early : SUBSET Conns, overtaken : SUBSET Conns, excused : SUBSET Conns, overlap : BOOLEAN]
  BY DEF Inv, TypeOK
<1>2. UNCHANGED <<main, signal_server_shutdown, netclients, cs, once_invalid_packet_received, log_general,
                  log_capchanges, mark, client, used>>
  BY DEF CloseClient, LogUnexpectedExit, server, settings
<1>3. NewWorker("gone") \in Worker /\ NewWorker("gone").pc = "gone"
  BY DEF NewWorker, Worker, Off, Settings
<1>4. /\ worker[c].pc \in {"close", "log"} /\ worker'[c].pc \in {"log", "gone"}
      /\ worker' \in [Conns -> Worker] /\ \A e \in Conns \ {c} : worker'[e] = worker[e]
      /\ worker'[c].pc = "log" => history' = history /\ worker[c].pc = "close" /\ ~worker[c].bye
  <2>1. CASE CloseClient(c)
    <3>1. PICK w : /\ w = IF worker[c].bye THEN NewWorker("gone") ELSE [worker[c] EXCEPT !.pc = "log"]
                   /\ worker' = [worker EXCEPT ![c] = w]
      BY <1>1, <2>1 DEF CloseClient
    <3>2. [worker[c] EXCEPT !.pc = "log"] \in Worker /\ [worker[c] EXCEPT !.pc = "log"].pc = "log"
      BY <1>1 DEF Worker
    <3> HIDE DEF NewWorker, Worker
    <3>3. w \in Worker /\ w.pc \in {"log", "gone"} /\ (w.pc = "log" => ~worker[c].bye)
      BY <1>3, <3>1, <3>2
    <3>4. worker[c].pc = "close" /\ history' = IF worker[c].bye THEN Forget(c) ELSE history
      BY <2>1 DEF CloseClient
    <3>5. QED
      BY <1>1, <3>1, <3>3, <3>4
  <2>2. CASE LogUnexpectedExit(c)
    <3> HIDE DEF NewWorker, Worker
    <3>1. worker[c].pc = "log" /\ worker' = [worker EXCEPT ![c] = NewWorker("gone")]
      BY <2>2 DEF LogUnexpectedExit
    <3>2. QED
      BY <1>1, <1>3, <3>1
  <2>3. QED
    BY <2>1, <2>2
<1>5. /\ history' \in [early : SUBSET Conns, overtaken : SUBSET Conns, excused : SUBSET Conns, overlap : BOOLEAN]
      /\ history'.overlap = history.overlap
      /\ \A e \in Conns \ {c} : /\ e \in history'.early <=> e \in history.early
                                /\ e \in history'.overtaken <=> e \in history.overtaken
                                /\ e \in history'.excused <=> e \in history.excused
  <2>1. CASE history' = history
    BY <1>1, <2>1
  <2>2. CASE history' = Forget(c)
    BY <1>1, <2>2 DEF Forget
  <2>3. QED
    BY <2>1, <2>2 DEF CloseClient, LogUnexpectedExit
<1>6. /\ link' \in [Conns -> Link] /\ \A e \in Conns \ {c} : link'[e] = link[e]
      /\ link'[c].serverEnd = "closed" /\ link'[c].clientEnd = link[c].clientEnd
  <2>1. CASE CloseClient(c)
    <3>1. link' = [link EXCEPT ![c] = ServerEndClosed(link[c])]
      BY <2>1 DEF CloseClient
    <3>2. /\ ServerEndClosed(link[c]) \in Link
          /\ ServerEndClosed(link[c]).serverEnd = "closed"
          /\ ServerEndClosed(link[c]).clientEnd = link[c].clientEnd
      <4>1. PICK r \in BOOLEAN : r = (link[c].clientEnd = "open" /\ (link[c].reset \/ link[c].up # <<>>))
        OBVIOUS
      <4>2. ServerEndClosed(link[c]) = [link[c] EXCEPT !.serverEnd = "closed", !.up = <<>>, !.reset = r]
        BY <1>1, <4>1 DEF ServerEndClosed, Link
      <4>3. <<>> \in Seq(ToServer)
        BY EmptySeq
      <4>4. QED
        BY <1>1, <4>2, <4>3 DEF Link
    <3>3. QED
      BY <1>1, <3>1, <3>2
  <2>2. CASE LogUnexpectedExit(c)
    BY <1>1, <2>2 DEF LogUnexpectedExit, Inv, Phases
  <2>3. QED
    BY <2>1, <2>2
<1>7. TypeOK'
  BY <1>2, <1>4, <1>5, <1>6 DEF Inv, TypeOK
<1>8. Phases'
  <2>1. \A d \in Conns :
          /\ worker'[d].pc = "spawn" <=> cs = d
          /\ worker'[d].pc = "none" <=> d[2] > client[d[1]].last
          /\ worker'[d].pc \in {"none", "backlog"} => ~worker'[d].auth
          /\ worker'[d].pc = "none" => link'[d].up = <<>> /\ link'[d].serverEnd = "none" /\ ~link'[d].reset
          /\ worker'[d].pc = "none" => \A i \in 1 .. Len(netclients) : netclients[i] # d
          /\ worker'[d].pc \in {"log", "gone"} => link'[d].serverEnd = "closed"
          /\ worker'[d].pc \in Serving \cup {"remove"} => \E i \in 1 .. Len(netclients) : netclients[i] = d
    <3> TAKE d \in Conns
    <3>1. CASE d = c
      BY <1>4, <1>6, <3>1 DEF Inv, Phases, Serving
    <3>2. CASE d # c
      BY <1>4, <1>6, <3>2 DEF Inv, Phases
    <3>3. QED
      BY <3>1, <3>2
  <2>2. main = "gone" => \A d \in Conns : ~Alive(d)'
    BY <1>4 DEF Inv, Phases, Alive
  <2>3. QED
    BY <1>2, <2>1, <2>2 DEF Inv, Phases
<1>9. Sockets'
  BY <1>2, <1>6 DEF Inv, Sockets
<1>10. AuthFirst'
  BY <1>2, <1>4, <1>5, <1>6 DEF Inv, AuthFirst
<1>11. LogonFirst'
  <2>1. \A d \in Conns : worker'[d].pc \in Serving \cup {"none", "backlog"} =>
                           d # c /\ link'[d] = link[d] /\ worker'[d] = worker[d]
    BY <1>4, <1>6 DEF Serving
  <2>2. QED
    BY <1>2, <2>1 DEF Inv, LogonFirst
<1>12. Marks'
  <2>1. \A x \in Conns : /\ worker'[x].pc = "set" <=> worker[x].pc = "set"
                         /\ worker'[x].pc = "set" => worker'[x] = worker[x]
    BY <1>4
  <2>2. QED
    BY <1>2, <1>5, <2>1 DEF Inv, Marks
<1>13. Logoffs'
  <2> SUFFICES ASSUME NEW d \in Conns, Alive(d)', d \notin history'.excused PROVE Hears(d)'
    BY DEF Logoffs
  <2>1. CASE d = c
    <3>1. worker'[c].pc = "log" /\ history' = history /\ worker[c].pc = "close" /\ ~worker[c].bye
      BY <1>4, <2>1 DEF Alive
    <3>2. Hears(c)
      BY <2>1, <3>1 DEF Inv, Logoffs, Alive
    <3>3. QED
      BY <1>2, <2>1, <3>1, <3>2 DEF Hears
  <2>2. CASE d # c
    <3>1. Hears(d) /\ worker'[d] = worker[d] /\ link'[d] = link[d] /\ (d \in history'.early <=> d \in history.early)
      BY <1>4, <1>5, <1>6, <2>2 DEF Inv, Logoffs, Alive
    <3>2. QED
      BY <1>2, <3>1 DEF Hears
  <2>3. QED
    BY <2>1, <2>2
<1>14. Copies'
  <2>1. \A d \in Conns : (Served(d)' => Served(d) /\ d # c) /\ (Pending(d)' <=> Pending(d))
    BY <1>2, <1>4, <1>5, <1>6 DEF Served, Pending, Serving
  <2>2. QED
    BY <1>2, <1>4, <1>6, <2>1 DEF Inv, Copies, Current
<1>15. QED
  BY <1>7, <1>8, <1>9, <1>10, <1>11, <1>12, <1>13, <1>14 DEF Inv

-----------------------------------------------------------------------------
(* The main thread of the server. *)

LEMMA AcceptKeeps == ASSUME Inv, NEW c \in Conns, Accept(c) PROVE Inv'
<1>1. /\ worker \in [Conns -> Worker] /\ worker[c] \in Worker /\ netclients \in Seq(Conns)
      /\ main = "run" /\ worker[c].pc = "backlog" /\ cs = NoOne
      /\ worker' = [worker EXCEPT ![c].pc = "recv"]
      /\ UNCHANGED <<main, signal_server_shutdown, cs, once_invalid_packet_received, log_general,
                     log_capchanges, mark, link, client, used, history>>
      /\ NoOne \notin Conns /\ \A d \in Conns : worker[d].pc = "spawn" <=> cs = d
  BY SyslogAssumption DEF Accept, Inv, TypeOK, settings, Phases
<1>2. netclients' = Append(netclients, c)
  BY DEF Accept
<1>3. /\ worker'[c] = [worker[c] EXCEPT !.pc = "recv"] /\ \A e \in Conns \ {c} : worker'[e] = worker[e]
      /\ worker'[c] \in Worker
  BY <1>1 DEF Worker
<1>4. worker' \in [Conns -> Worker]
  BY <1>1, <1>3
<1>5. /\ worker'[c].pc = "recv" /\ worker'[c].auth = worker[c].auth /\ worker'[c].named = worker[c].named
      /\ worker'[c].bye = worker[c].bye
  BY <1>1, <1>3 DEF Worker
<1>6. /\ netclients' \in Seq(Conns) /\ Len(netclients') = Len(netclients) + 1 /\ Len(netclients) \in Nat
      /\ \A i \in 1 .. Len(netclients) : netclients'[i] = netclients[i]
      /\ netclients'[Len(netclients) + 1] = c
  BY <1>1, <1>2, Appended
<1>7. TypeOK'
  BY <1>1, <1>3, <1>4, <1>6 DEF Inv, TypeOK
<1>8. Phases'
  <2>1. \A d \in Conns :
          /\ worker'[d].pc = "spawn" <=> cs = d
          /\ worker'[d].pc = "none" <=> d[2] > client[d[1]].last
          /\ worker'[d].pc \in {"none", "backlog"} => ~worker'[d].auth
          /\ worker'[d].pc = "none" => link[d].up = <<>> /\ link[d].serverEnd = "none" /\ ~link[d].reset
          /\ worker'[d].pc \in {"log", "gone"} => link[d].serverEnd = "closed"
    <3> TAKE d \in Conns
    <3>1. CASE d = c
      BY <1>1, <1>5, <3>1 DEF Inv, Phases
    <3>2. CASE d # c
      BY <1>1, <1>3, <3>2 DEF Inv, Phases
    <3>3. QED
      BY <3>1, <3>2
  <2>2. ASSUME NEW d \in Conns, worker'[d].pc = "none", NEW i \in 1 .. Len(netclients') PROVE netclients'[i] # d
    <3>1. d # c /\ worker[d].pc = "none"
      BY <1>3, <1>5, <2>2
    <3>2. i \in 1 .. Len(netclients) \/ i = Len(netclients) + 1
      BY <1>6
    <3>3. QED
      BY <1>6, <3>1, <3>2 DEF Inv, Phases
  <2>3. ASSUME NEW d \in Conns, worker'[d].pc \in Serving \cup {"remove"}
        PROVE  \E i \in 1 .. Len(netclients') : netclients'[i] = d
    <3>1. CASE d = c
      BY <1>6, <3>1
    <3>2. CASE d # c
      <4>1. PICK i \in 1 .. Len(netclients) : netclients[i] = d
        BY <1>3, <2>3, <3>2 DEF Inv, Phases
      <4>2. i \in 1 .. Len(netclients')
        BY <1>6, <4>1
      <4>3. QED
        BY <1>6, <4>1, <4>2
    <3>3. QED
      BY <3>1, <3>2
  <2>4. main' # "gone" /\ (main = "run" <=> ~signal_server_shutdown)
    BY <1>1 DEF Inv, Phases
  <2>5. QED
    BY <1>1, <2>1, <2>2, <2>3, <2>4 DEF Phases
<1>9. Sockets'
  BY <1>1 DEF Inv, Sockets
<1>10. AuthFirst'
  <2>1. \A d \in Conns : worker'[d].auth = worker[d].auth
    BY <1>3, <1>5
  <2>2. QED
    BY <1>1, <2>1 DEF Inv, AuthFirst
<1>11. LogonFirst'
  <2>1. \A d \in Conns : /\ worker'[d].named = worker[d].named
                         /\ worker'[d].pc \in Serving \cup {"none", "backlog"} =>
                              worker[d].pc \in Serving \cup {"none", "backlog"}
    BY <1>1, <1>3, <1>5
  <2>2. QED
    BY <1>1, <2>1 DEF Inv, LogonFirst
<1>12. Marks'
  <2>1. \A x \in Conns : /\ worker'[x].pc = "set" <=> worker[x].pc = "set"
                         /\ worker'[x].pc = "set" => worker'[x] = worker[x]
    BY <1>1, <1>3, <1>5
  <2>2. QED
    BY <1>1, <2>1 DEF Inv, Marks
<1>13. Logoffs'
  <2> SUFFICES ASSUME NEW d \in Conns, Alive(d)', d \notin history.excused PROVE Hears(d)'
    BY <1>1 DEF Logoffs
  <2>1. Hears(d)
    BY <1>1, <1>3 DEF Inv, Logoffs, Alive
  <2>2. /\ worker'[d].bye = worker[d].bye
        /\ worker'[d].pc \in {"log", "remove", "close"} <=> worker[d].pc \in {"log", "remove", "close"}
        /\ worker'[d].pc = "log" <=> worker[d].pc = "log"
    BY <1>1, <1>3, <1>5
  <2>3. QED
    BY <1>1, <2>1, <2>2 DEF Hears
<1>14. Copies'
  <2> SUFFICES ASSUME NEW d \in Conns, Served(d)', ~Pending(d)'
               PROVE  IF worker'[d].pc = "reply" THEN worker'[d].read = Current'
                      ELSE Learns(link'[d].down, client'[d[1]].copy, Current')
    BY DEF Copies
  <2>1. ~worker'[c].auth
    BY <1>1, <1>5 DEF Inv, Phases
  <2>2. d # c /\ worker'[d] = worker[d]
    BY <1>3, <2>1 DEF Served
  <2>3. ~Pending(d)
    BY <1>1, <1>3, <1>5 DEF Pending
  <2>4. QED
    BY <1>1, <2>2, <2>3 DEF Inv, Copies, Served, Current
<1>15. QED
  BY <1>7, <1>8, <1>9, <1>10, <1>11, <1>12, <1>13, <1>14 DEF Inv

\* The service stops, or has begun to: no logoff is expected, no copy kept up to date.
LEMMA StoppingSteps ==
  ASSUME Inv, Stop \/ MainSwitch \/ MainWrite \/ MainSet \/ Finish PROVE Inv'
<1>1. UNCHANGED <<netclients, cs, once_invalid_packet_received, log_capchanges, worker, link, client>>
  BY DEF Stop, MainSwitch, MainWrite, MainSet, Finish, settings
<1>2. /\ main' \in {"switch", "write", "set", "closing", "gone"} /\ signal_server_shutdown' \in BOOLEAN
      /\ main' = "run" <=> ~signal_server_shutdown'
      /\ main' = "gone" => \A c \in Conns : ~Alive(c)
  BY DEF Stop, MainSwitch, MainWrite, MainSet, Finish, Inv, TypeOK, Phases, Alive
<1>3. /\ history' \in [early : SUBSET Conns, overtaken : SUBSET Conns, excused : SUBSET Conns, overlap : BOOLEAN]
      /\ history'.early = history.early /\ history'.overtaken = history.overtaken
      /\ history.overlap => history'.overlap
      /\ \A c \in history.excused : c \in history'.excused
      /\ Stop => \A c \in Conns : Alive(c) => c \in history'.excused
      /\ MainWrite => history'.overlap = (history.overlap \/ \E x, y \in Switches : x # y)
      /\ ~MainWrite => history'.overlap = history.overlap
  <2>1. history \in [early : SUBSET Conns, overtaken : SUBSET Conns, excused : SUBSET Conns, overlap : BOOLEAN]
    BY DEF Inv, TypeOK
  <2>2. CASE Stop
    <3>1. history' = [history EXCEPT !.excused = @ \cup {c \in Conns : worker[c].pc \notin {"none", "gone"}}]
      BY <2>2 DEF Stop
    <3>2. ~MainWrite
      BY <2>2 DEF Stop, MainWrite
    <3>3. QED
      BY <2>1, <3>1, <3>2 DEF Alive
  <2>3. CASE MainWrite
    <3>1. PICK o \in BOOLEAN : o = (history.overlap \/ \E x, y \in Switches : x # y)
      BY <2>1
    <3>2. history' = [history EXCEPT !.overlap = o]
      BY <2>1, <2>3, <3>1 DEF MainWrite, WriteMark, Overlap
    <3>3. ~Stop
      BY <2>3 DEF Stop, MainWrite
    <3>4. /\ history' \in [early : SUBSET Conns, overtaken : SUBSET Conns, excused : SUBSET Conns, overlap : BOOLEAN]
          /\ history'.early = history.early /\ history'.overtaken = history.overtaken
          /\ history'.excused = history.excused /\ history'.overlap = o
      BY <2>1, <3>1, <3>2
    <3>5. QED
      BY <2>3, <3>1, <3>3, <3>4
  <2>4. CASE MainSwitch \/ MainSet \/ Finish
    <3>1. history' = history /\ ~Stop /\ ~MainWrite
      BY <2>4 DEF MainSwitch, MainSet, Finish, Stop, MainWrite
    <3>2. QED
      BY <2>1, <3>1
  <2>5. QED
    BY <2>2, <2>3, <2>4
<1>4. log_general' \in BOOLEAN /\ mark' \in BOOLEAN
  BY DEF Stop, MainSwitch, MainWrite, MainSet, Finish, settings, WriteMark, Inv, TypeOK
<1>5. used' \in [uses : 0 .. MaxUses, quits : 0 .. MaxQuits, accidents : 0 .. MaxAccidents, stops : 0 .. MaxStops]
  <2>1. Stop => Bounded
    BY DEF Stop, Bounded
  <2>2. ~Stop => UNCHANGED used
    BY DEF Stop, MainSwitch, MainWrite, MainSet, Finish
  <2>3. QED
    BY <2>1, <2>2, BoundsHold DEF Inv, TypeOK, Used
<1>6. TypeOK'
  BY <1>1, <1>2, <1>3, <1>4, <1>5 DEF Inv, TypeOK
<1>7. Phases' /\ Sockets' /\ AuthFirst' /\ LogonFirst'
  BY <1>1, <1>2, <1>3 DEF Inv, Phases, Alive, Sockets, AuthFirst, LogonFirst

<1>8. Marks'
  <2> SUFFICES ASSUME ~history'.overlap
               PROVE  /\ \A x, y \in Conns : worker[x].pc = "set" /\ worker[y].pc = "set" => x = y
                      /\ \A x \in Conns : worker[x].pc = "set" => main' # "set" /\ mark' = worker[x].val
                      /\ main' = "set" => ~mark'
                      /\ main' # "set" /\ (\A x \in Conns : worker[x].pc # "set") => mark' = log_general'
    BY <1>1 DEF Marks
  <2>1. /\ \A x, y \in Conns : worker[x].pc = "set" /\ worker[y].pc = "set" => x = y
        /\ \A x \in Conns : worker[x].pc = "set" => main # "set" /\ mark = worker[x].val
        /\ main = "set" => ~mark
        /\ main # "set" /\ (\A x \in Conns : worker[x].pc # "set") => mark = log_general
    BY <1>3 DEF Inv, Marks
  <2>2. CASE MainWrite
    <3>1. main = "write" /\ mark' = FALSE /\ main' = "set"
      BY <2>2 DEF MainWrite, WriteMark
    <3>2. NoOne \in Switches /\ NoOne \notin Conns
      BY <3>1, SyslogAssumption DEF Switches
    <3>3. \A x \in Conns : worker[x].pc # "set"
      BY <1>3, <2>2, <3>2 DEF Switches
    <3>4. QED
      BY <3>1, <3>3
  <2>3. CASE MainSet
    <3>1. main = "set" /\ main' = "closing" /\ log_general' = FALSE /\ mark' = mark /\ mark \in BOOLEAN
      BY <2>3 DEF MainSet, Inv, TypeOK
    <3>2. QED
      BY <2>1, <3>1
  <2>4. CASE Stop \/ MainSwitch \/ Finish
    <3>1. main # "set" /\ main' # "set" /\ UNCHANGED <<mark, log_general>>
      BY <2>4 DEF Stop, MainSwitch, Finish, settings
    <3>2. QED
      BY <2>1, <3>1
  <2>5. QED
    BY <2>2, <2>3, <2>4
<1>9. Logoffs'
  <2> SUFFICES ASSUME NEW c \in Conns, Alive(c)', c \notin history'.excused PROVE FALSE
    BY DEF Logoffs
  <2>1. Alive(c) /\ c \notin history.excused /\ ~Stop
    BY <1>1, <1>3 DEF Alive
  <2>2. main = "run"
    BY <2>1 DEF Inv, Logoffs, Hears
  <2>3. QED
    BY <2>1, <2>2 DEF MainSwitch, MainWrite, MainSet, Finish
<1>10. Copies'
  BY <1>2 DEF Copies, Served
<1>11. QED
  BY <1>6, <1>7, <1>8, <1>9, <1>10 DEF Inv

\* The server closes its sockets.
LEMMA CloseAllKeeps == ASSUME Inv, CloseAll PROVE Inv'
<1>1. /\ worker \in [Conns -> Worker] /\ link \in [Conns -> Link]
      /\ main = "closing" /\ main' = "await" /\ cs = NoOne
      /\ UNCHANGED <<signal_server_shutdown, netclients, cs, once_invalid_packet_received, log_general,
                     log_capchanges, mark, client, used, history>>
      /\ NoOne \notin Conns
  BY SyslogAssumption DEF CloseAll, Inv, TypeOK, settings
<1>2. NewWorker("gone") \in Worker /\ NewWorker("gone").pc = "gone"
  BY DEF NewWorker, Worker, Off, Settings
<1>3. ASSUME NEW c \in Conns
      PROVE  /\ ServerEndClosed(link[c]) \in Link
             /\ ServerEndClosed(link[c]).serverEnd = "closed"
             /\ ServerEndClosed(link[c]).clientEnd = link[c].clientEnd
  <2>1. PICK r \in BOOLEAN : r = (link[c].clientEnd = "open" /\ (link[c].reset \/ link[c].up # <<>>))
    OBVIOUS
  <2>2. ServerEndClosed(link[c]) = [link[c] EXCEPT !.serverEnd = "closed", !.up = <<>>, !.reset = r]
    BY <1>1, <2>1 DEF ServerEndClosed, Link
  <2>3. <<>> \in Seq(ToServer) /\ link[c] \in Link
    BY <1>1, EmptySeq
  <2>4. QED
    BY <2>2, <2>3 DEF Link
<1>4. \A c \in Conns :
        /\ link'[c] \in Link /\ link'[c].clientEnd = link[c].clientEnd
        /\ link'[c] = link[c] \/ link'[c].serverEnd = "closed"
        /\ worker[c].pc = "backlog" => link'[c].serverEnd = "closed"
        /\ worker[c].pc = "none" => link'[c] = link[c]
  <2> SUFFICES ASSUME NEW c \in Conns
               PROVE  /\ link'[c] \in Link /\ link'[c].clientEnd = link[c].clientEnd
                      /\ link'[c] = link[c] \/ link'[c].serverEnd = "closed"
                      /\ worker[c].pc = "backlog" => link'[c].serverEnd = "closed"
                      /\ worker[c].pc = "none" => link'[c] = link[c]
    OBVIOUS
  <2>1. link'[c] = IF worker[c].pc = "backlog" \/ c \in ToSet(netclients)
                     THEN ServerEndClosed(link[c]) ELSE link[c]
    BY DEF CloseAll
  <2>2. worker[c].pc = "none" => c \notin ToSet(netclients)
    BY DEF Inv, Phases, ToSet
  <2>3. QED
    BY <1>1, <1>3, <2>1, <2>2
<1>5. \A c \in Conns : IF worker[c].pc = "backlog" THEN worker'[c] = NewWorker("gone") ELSE worker'[c] = worker[c]
  BY DEF CloseAll
<1>6. worker' \in [Conns -> Worker] /\ link' \in [Conns -> Link]
  <2> HIDE DEF Worker, Link, NewWorker
  <2>1. worker' = [c \in Conns |-> worker'[c]] /\ link' = [c \in Conns |-> link'[c]]
    BY DEF CloseAll
  <2>2. \A c \in Conns : worker'[c] \in Worker
    BY <1>1, <1>2, <1>5
  <2>3. QED
    BY <1>4, <2>1, <2>2
<1>7. \A c \in Conns : IF worker[c].pc = "backlog" THEN worker'[c].pc = "gone" ELSE worker'[c] = worker[c]
  BY <1>2, <1>5
<1>8. TypeOK'
  BY <1>1, <1>6 DEF Inv, TypeOK
<1>9. Phases'
  <2>1. \A d \in Conns :
          /\ worker'[d].pc = "spawn" <=> cs = d
          /\ worker'[d].pc = "none" <=> d[2] > client[d[1]].last
          /\ worker'[d].pc \in {"none", "backlog"} => ~worker'[d].auth
          /\ worker'[d].pc = "none" => link'[d].up = <<>> /\ link'[d].serverEnd = "none" /\ ~link'[d].reset
          /\ worker'[d].pc = "none" => \A i \in 1 .. Len(netclients) : netclients[i] # d
          /\ worker'[d].pc \in {"log", "gone"} => link'[d].serverEnd = "closed"
          /\ worker'[d].pc \in Serving \cup {"remove"} => \E i \in 1 .. Len(netclients) : netclients[i] = d
    <3> TAKE d \in Conns
    <3>1. CASE worker[d].pc = "backlog"
      BY <1>1, <1>4, <1>7, <3>1 DEF Inv, Phases, Serving
    <3>2. CASE worker[d].pc # "backlog"
      BY <1>4, <1>7, <3>2 DEF Inv, Phases
    <3>3. QED
      BY <3>1, <3>2
  <2>2. main' # "gone" /\ (main' = "run" <=> ~signal_server_shutdown)
    BY <1>1 DEF Inv, Phases
  <2>3. QED
    BY <1>1, <2>1, <2>2 DEF Phases
<1>10. Sockets'
  BY <1>1, <1>4 DEF Inv, Sockets
<1>11. AuthFirst'
  <2> SUFFICES ASSUME NEW c \in Conns, c \notin history.early, ~worker'[c].auth, link'[c].serverEnd = "open"
               PROVE  IF link'[c].up = <<>> THEN link'[c].clientEnd = "open" => client[c[1]].cworker = "auth"
                                            ELSE link'[c].up[1].id = "AUTH"
    BY <1>1 DEF AuthFirst
  <2>1. link'[c] = link[c] /\ worker'[c] = worker[c]
    BY <1>4, <1>7
  <2>2. QED
    BY <2>1 DEF Inv, AuthFirst
<1>12. LogonFirst'
  <2> SUFFICES ASSUME NEW d \in Conns, d[2] = 1, worker'[d].pc \in Serving \cup {"none", "backlog"}, ~worker'[d].named
               PROVE  /\ Announced(link'[d].up)
                      /\ client[d[1]].last = 1 /\ client[d[1]].flag_sent_username_once
                           /\ link'[d].serverEnd = "open" => Has(link'[d].up, "LOGON")
    BY <1>1 DEF Inv, LogonFirst
  <2>1. worker'[d] = worker[d]
    BY <1>7 DEF Serving
  <2>2. link'[d] = link[d] \/ (link'[d].serverEnd = "closed" /\ link'[d].up = <<>>)
    <3>1. link'[d] = link[d] \/ link'[d] = ServerEndClosed(link[d])
      BY DEF CloseAll
    <3>2. ServerEndClosed(link[d]).up = <<>> /\ ServerEndClosed(link[d]).serverEnd = "closed"
      BY <1>1 DEF ServerEndClosed, Link
    <3>3. QED
      BY <3>1, <3>2
  <2>3. Announced(<<>>)
    BY DEF Announced
  <2>4. QED
    BY <2>1, <2>2, <2>3 DEF Inv, LogonFirst
<1>13. Marks'
  <2>1. \A x \in Conns : /\ worker'[x].pc = "set" <=> worker[x].pc = "set"
                         /\ worker'[x].pc = "set" => worker'[x] = worker[x]
    BY <1>7
  <2>2. QED
    BY <1>1, <2>1 DEF Inv, Marks
<1>14. Logoffs'
  <2> SUFFICES ASSUME NEW c \in Conns, Alive(c)', c \notin history.excused PROVE FALSE
    BY <1>1 DEF Logoffs
  <2>1. Alive(c)
    BY <1>7 DEF Alive
  <2>2. QED
    BY <1>1, <2>1 DEF Inv, Logoffs, Hears
<1>15. Copies'
  BY <1>1 DEF Copies, Served
<1>16. QED
  BY <1>8, <1>9, <1>10, <1>11, <1>12, <1>13, <1>14, <1>15 DEF Inv

\* A new server has no worker and no client yet.
LEMMA RestartKeeps == ASSUME Inv, Restart PROVE Inv'
<1>1. /\ main = "gone" /\ main' = "run" /\ signal_server_shutdown' = FALSE
      /\ netclients' = <<>> /\ cs' = NoOne /\ once_invalid_packet_received' = FALSE
      /\ UNCHANGED <<worker, link, client, used, history>>
      /\ NoOne \notin Conns
  BY SyslogAssumption DEF Restart
<1>2. log_general' \in BOOLEAN /\ log_capchanges' \in BOOLEAN /\ mark' = log_general'
  BY SyslogAssumption DEF Restart, Settings
<1>3. \A c \in Conns : worker[c].pc \in {"none", "gone"}
  BY <1>1 DEF Inv, Phases, Alive
<1>4. TypeOK'
  BY <1>1, <1>2, EmptySeq DEF Inv, TypeOK
<1>5. Phases'
  <2>1. Len(netclients') = 0
    BY <1>1
  <2>2. \A d \in Conns :
          /\ worker[d].pc = "none" <=> d[2] > client[d[1]].last
          /\ worker[d].pc \in {"none", "backlog"} => ~worker[d].auth
          /\ worker[d].pc = "none" => link[d].up = <<>> /\ link[d].serverEnd = "none" /\ ~link[d].reset
          /\ worker[d].pc \in {"log", "gone"} => link[d].serverEnd = "closed"
    BY DEF Inv, Phases
  <2>3. QED
    BY <1>1, <1>3, <2>1, <2>2 DEF Phases, Serving
<1>6. Sockets' /\ AuthFirst' /\ LogonFirst'
  BY <1>1 DEF Inv, Sockets, AuthFirst, LogonFirst
<1>7. Marks' /\ Logoffs' /\ Copies'
  BY <1>1, <1>2, <1>3 DEF Marks, Logoffs, Alive, Copies, Served, Serving
<1>8. QED
  BY <1>4, <1>5, <1>6, <1>7 DEF Inv

-----------------------------------------------------------------------------
(* The system as a whole. *)

LEMMA StutterKeeps == Inv /\ UNCHANGED vars => Inv'
BY DEF Inv, vars, server, settings, TypeOK, Phases, Alive, Sockets, AuthFirst, LogonFirst, Marks, Logoffs, Hears,
       Copies, Served, Pending, Current

LEMMA NextKeeps == Inv /\ [Next]_vars => Inv'
<1> SUFFICES ASSUME Inv, [Next]_vars PROVE Inv'
  OBVIOUS
<1>1. ASSUME NEW c \in Conns, WorkerThread(c) PROVE Inv'
  BY <1>1, TakingSteps, AnsweringSteps, WorkingSteps, SpawnKeeps, LeavingSteps DEF WorkerThread
<1>2. ASSUME NEW p \in Clients, ClientWorker(p) PROVE Inv'
  BY <1>2, QuietSteps, ConnectKeeps, SendingSteps, ReceiveKeeps, HangingSteps DEF ClientWorker
<1>3. ASSUME NEW p \in Clients, Logtimer(p) \/ MessageQueue(p) PROVE Inv'
  BY <1>3, QuietSteps, SendingSteps, HangingSteps DEF Logtimer, MessageQueue
<1>4. ASSUME NEW p \in Clients, Environment(p) PROVE Inv'
  BY <1>4, QuietSteps, SendingSteps, HangingSteps DEF Environment
<1>5. ASSUME Stop \/ Restart \/ MainThread PROVE Inv'
  BY <1>5, AcceptKeeps, StoppingSteps, CloseAllKeeps, RestartKeeps DEF MainThread
<1>6. QED
  BY <1>1, <1>2, <1>3, <1>4, <1>5, StutterKeeps DEF Next

THEOREM InvHolds == Spec => []Inv
BY InitHolds, NextKeeps, PTL DEF Spec

\* Type correctness (TypeOK).
THEOREM TypeCorrect == Spec => []TypeOK
<1>1. Inv => TypeOK
  BY DEF Inv
<1>2. QED
  BY <1>1, InvHolds, PTL

\* A client at rest shows the settings the server has, whatever was changed, lost and
\* connected again before, unless a broadcast overtook the reply to its AUTH (Server_Worker).
THEOREM CopiesAgree == Spec => []CopiesConverge
<1>1. Inv => CopiesConverge
  <2> SUFFICES ASSUME Inv, NEW p \in Clients, AtRest(p), LastConn(p) \notin history.overtaken
               PROVE  client[p].copy = Current
    BY DEF CopiesConverge
  <2> DEFINE c == LastConn(p)
  <2>1. c \in Conns /\ c[1] = p /\ link[c].clientEnd = "open"
    BY LastConnIs DEF AtRest
  <2>2. Served(c) /\ worker[c].pc = "recv" /\ link[c].down = <<>>
    BY <2>1 DEF AtRest, Served, Serving
  <2>3. ~Pending(c)
    BY DEF AtRest, Pending
  <2>4. Learns(<<>>, client[p].copy, Current)
    BY <2>1, <2>2, <2>3 DEF Inv, Copies
  <2>5. QED
    BY <2>4 DEF Learns
<1>2. QED
  BY <1>1, InvHolds, PTL

\* The last started/stopped entry of the log tells whether logging is on, whoever switched
\* it, unless two threads were in Switch_LogGeneral at once.
THEOREM MarkAgrees == Spec => []MarkTellsState
<1>1. Inv => MarkTellsState
  <2> SUFFICES ASSUME Inv, ~history.overlap, Switches = {} PROVE mark = log_general
    BY DEF MarkTellsState
  <2>1. main # "set" /\ \A x \in Conns : worker[x].pc # "set"
    BY DEF Switches
  <2>2. QED
    BY <2>1 DEF Inv, Marks
<1>2. QED
  BY <1>1, InvHolds, PTL

\* No client is blamed for an unexpected exit that told the server of it in time.
THEOREM LogoffHeard == Spec => []LogoffIsHeard
<1>1. Inv => LogoffIsHeard
  BY DEF Inv, Logoffs, Alive, Hears, LogoffIsHeard
<1>2. QED
  BY <1>1, InvHolds, PTL

\* INVALID NETDATA is only logged for a client one of whose threads sent something before AUTH.
THEOREM InvalidIfEarly == Spec => InvalidOnlyIfEarly
<1>1. Inv /\ [Next]_vars => [\A c \in Conns : InvalidNetdata(c) => c \in history.early]_vars
  <2> SUFFICES ASSUME Inv, NEW c \in Conns, InvalidNetdata(c) PROVE c \in history.early
    OBVIOUS
  <2>1. /\ link[c].serverEnd = "open" /\ link[c].up # <<>> /\ Head(link[c].up).id # "AUTH" /\ ~worker[c].auth
    BY DEF InvalidNetdata, Receives
  <2>2. link[c].up \in Seq(ToServer)
    BY DEF Inv, TypeOK, Link
  <2>3. link[c].up[1].id # "AUTH"
    BY <2>1, <2>2, Taken
  <2>4. QED
    BY <2>1, <2>3 DEF Inv, AuthFirst
<1>2. QED
  BY <1>1, InvHolds, PTL DEF Spec, InvalidOnlyIfEarly

\* On a client's first connection the server knows the user's name before it logs a window.
THEOREM EntriesNamed == Spec => WindowEntriesAreNamed
<1>1. Inv /\ [Next]_vars => [\A c \in Conns : LogThis(c) /\ c[2] = 1 => worker[c].named]_vars
  <2> SUFFICES ASSUME Inv, NEW c \in Conns, LogThis(c), c[2] = 1, ~worker[c].named PROVE FALSE
    OBVIOUS
  <2>1. /\ worker[c].pc = "recv" /\ link[c].up # <<>> /\ Head(link[c].up).id = "LOGTHIS"
    BY DEF LogThis, Receives
  <2>2. link[c].up \in Seq(ToServer)
    BY DEF Inv, TypeOK, Link
  <2>3. link[c].up[1].id = "LOGTHIS" /\ 1 \in 1 .. Len(link[c].up)
    BY <2>1, <2>2, Taken
  <2>4. Announced(link[c].up)
    BY <2>1 DEF Inv, LogonFirst, Serving
  <2>5. QED
    BY <2>3, <2>4 DEF Announced
<1>2. QED
  BY <1>1, InvHolds, PTL DEF Spec, WindowEntriesAreNamed
=============================================================================
