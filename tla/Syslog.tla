------------------------------- MODULE Syslog -------------------------------
(***************************************************************************)
(* The system logger: a server in the service (src/Syslog/Syslog_Server.cpp) *)
(* and a client in each session (src/Syslog/Syslog_Client.cpp), joined by  *)
(* one connection at a time.                                               *)
(*                                                                         *)
(* The server keeps the settings log_general and log_capchanges.  A client *)
(* shows copies of them and acts on them; it gets them in reply to AUTH    *)
(* and whenever a worker of the server has changed one and tells all       *)
(* connected clients.  A client also reports what its windows do, the      *)
(* logon and the logoff of its user.                                       *)
(*                                                                         *)
(* A client has three threads on one csocket: the main message queue (menu *)
(* and shutdown), Client_Worker (connects, receives) and Logtimer.  The    *)
(* server has its main thread and a worker for each connection; cs guards  *)
(* netclients and the log, but not the settings.                           *)
(*                                                                         *)
(* A connection carries whole messages in order (MessageChannel); how a    *)
(* worker gets its socket is in ServerPool.  Of the log the module keeps   *)
(* the entries its properties are about.                                   *)
(***************************************************************************)
EXTENDS Integers, Sequences, FiniteSets, SequencesExt

CONSTANTS
  Clients,       \* the client processes
  MaxConns,      \* bound: connections of each client
  Runmodes,      \* the settings the service may start with
  NoOne,         \* holder of a free critical section
  Uses,          \* bound: what users and windows ask for, by the message it leads to
  MaxUses,       \* bound: how often they do
  MaxQuits,      \* bound: clients told to stop
  MaxAccidents,  \* bound: sockets not created, clients killed
  MaxStops       \* bound: stops of the service

Settings == [general : BOOLEAN, capchanges : BOOLEAN]

\* The n-th connection of client p is <<p, n>>.
Conns == UNION {{p} \X (1 .. MaxConns[p]) : p \in Clients}

\* Init sets log_capchanges only along with log_general.
ASSUME SyslogAssumption ==
  /\ MaxConns \in [Clients -> Nat]
  /\ NoOne \notin Conns
  /\ Runmodes \subseteq {s \in Settings : s.capchanges => s.general}
  /\ Uses \subseteq {"ACQUIRE_LOGDATA", "SET_LOGGING", "SET_LOGCAPCHANGES", "LOGTHIS"}
  /\ {MaxUses, MaxQuits, MaxAccidents, MaxStops} \subseteq Nat

\* Network messages (Syslog_vcomm); val is used by the two SET messages.
ToServer == [id : {"AUTH", "LOGON", "LOGOFF", "LOGTHIS", "SET_LOGGING", "SET_LOGCAPCHANGES",
                   "ACQUIRE_LOGDATA"}, val : BOOLEAN]
ToClient == [id : {"SPAWN_SETTINGS", "SHOW_USERINFO", "RECV_LOGDATA"}, set : Settings]

VARIABLES
  \* the server
  main,        \* where its main thread is
  signal_server_shutdown,
  log_general,
  log_capchanges,
  netclients,  \* the connections that are told of changes
  cs,          \* the worker that holds the critical section between two steps
  mark,        \* the last started/stopped entry in the log since Init; TRUE: started
  once_invalid_packet_received,
  worker,      \* its worker for each connection
  link,        \* the connections
  client,      \* the clients
  used,        \* how often each bounded event has happened
  history      \* ghost: what the properties have to know of the past

server == <<main, signal_server_shutdown, netclients, cs, once_invalid_packet_received>>
settings == <<log_general, log_capchanges>>
vars == <<server, settings, mark, worker, link, client, used, history>>

\* What a worker or the main thread reads of the settings now.
Current == [general |-> log_general, capchanges |-> log_capchanges]

Worker == [pc : {"none", "backlog", "recv", "reply", "write", "set", "enter", "spawn", "info",
                 "logdata", "remove", "close", "log", "gone"},
           auth : BOOLEAN,
           named : BOOLEAN,       \* local_username is not empty
           bye : BOOLEAN,         \* bClientShutdownByLogoff
           read : Settings,       \* the settings as read for the reply to AUTH
           val : BOOLEAN,         \* the value asked for by SET_LOGGING
           next : Nat \ {0}]      \* the loop counter of a broadcast

Link == [up : Seq(ToServer), down : Seq(ToClient),     \* messages under way
         serverEnd : {"none", "open", "closed"},
         clientEnd : {"none", "open", "closed"},
         reset : BOOLEAN]                              \* a reset may overtake them

Client == [ui : {"run", "menu", "logoff", "close", "await", "gone", "killed"},
           signal_client_shutdown : BOOLEAN,
           shown : BOOLEAN,                            \* log_general when the menu was opened
           cworker : {"top", "create", "connect", "auth", "logon", "recv", "close", "gone"},
           sock : {"none", "created", "connected"},    \* the csocket the threads share
           last : Nat,                                 \* the number of its last connection
           flag_sent_username_once : BOOLEAN,
           copy : Settings,                            \* log_general and log_capchanges
           timer : {"idle", "wait", "gone"},           \* Logtimer
           viewers : Nat]                              \* FileView_And_Deletor threads

TypeOK ==
  /\ main \in {"run", "switch", "write", "set", "closing", "await", "gone"}
  /\ {signal_server_shutdown, log_general, log_capchanges, mark, once_invalid_packet_received} \subseteq BOOLEAN
  /\ netclients \in Seq(Conns)
  /\ cs \in Conns \cup {NoOne}
  /\ worker \in [Conns -> Worker]
  /\ link \in [Conns -> Link]
  /\ client \in [Clients -> Client]
  /\ used \in [uses : 0 .. MaxUses, quits : 0 .. MaxQuits, accidents : 0 .. MaxAccidents,
               stops : 0 .. MaxStops]
  /\ history \in [early : SUBSET Conns, overtaken : SUBSET Conns, excused : SUBSET Conns, overlap : BOOLEAN]

Off == [general |-> FALSE, capchanges |-> FALSE]

\* The local variables as a worker starts; they vanish when it ends.
NewWorker(pc) == [pc |-> pc, auth |-> FALSE, named |-> FALSE, bye |-> FALSE, read |-> Off, val |-> FALSE,
                  next |-> 1]

Init ==
  /\ main = "run" /\ signal_server_shutdown = FALSE
  /\ \E s \in Runmodes : log_general = s.general /\ log_capchanges = s.capchanges /\ mark = s.general
  /\ netclients = <<>> /\ cs = NoOne /\ once_invalid_packet_received = FALSE
  /\ worker = [c \in Conns |-> NewWorker("none")]
  /\ link = [c \in Conns |-> [up |-> <<>>, down |-> <<>>, serverEnd |-> "none", clientEnd |-> "none",
                              reset |-> FALSE]]
  /\ client = [p \in Clients |-> [ui |-> "run", signal_client_shutdown |-> FALSE, shown |-> FALSE, cworker |-> "top",
                                  sock |-> "none", last |-> 0, flag_sent_username_once |-> FALSE,
                                  copy |-> Off, timer |-> "idle", viewers |-> 0]]
  /\ used = [uses |-> 0, quits |-> 0, accidents |-> 0, stops |-> 0]
  /\ history = [early |-> {}, overtaken |-> {}, excused |-> {}, overlap |-> FALSE]

-----------------------------------------------------------------------------
(* Connections.  A send to an end that is closed may still succeed; it provokes a reset, *)
(* and so does closing an end with messages unread.                                      *)

LastConn(p) == <<p, client[p].last>>

\* mod_send of one of client p's threads returns ok.
ClientSends(p, m, ok) ==
  LET c == LastConn(p) IN
  \/ /\ ok /\ client[p].sock = "connected" /\ link[c].serverEnd = "open"
     /\ link' = [link EXCEPT ![c].up = Append(@, m)]
  \/ /\ ok /\ client[p].sock = "connected" /\ link[c].serverEnd = "closed"
     /\ link' = [link EXCEPT ![c].reset = TRUE]
  \/ /\ ~ok /\ (client[p].sock = "connected" => link[c].serverEnd = "closed")
     /\ UNCHANGED link

\* The two threads that do not wait for AUTH to be sent.
SentEarly(p, ok) ==
  history' = IF ok /\ client[p].cworker = "auth" /\ worker[LastConn(p)].pc # "gone"
               THEN [history EXCEPT !.early = @ \cup {LastConn(p)}] ELSE history

\* mod_send of the server on connection c returns ok.
ServerSends(c, m, ok) ==
  \/ /\ ok /\ link[c].serverEnd = "open" /\ link[c].clientEnd = "open"
     /\ link' = [link EXCEPT ![c].down = Append(@, m)]
  \/ /\ ok /\ link[c].serverEnd = "open" /\ link[c].clientEnd = "closed"
     /\ link' = [link EXCEPT ![c].reset = TRUE]
  \/ /\ ~ok /\ "closed" \in {link[c].serverEnd, link[c].clientEnd}
     /\ UNCHANGED link

\* Close of either end; with both closed nothing is left to be lost.
ServerEndClosed(l) ==
  [l EXCEPT !.serverEnd = "closed", !.up = <<>>, !.reset = l.clientEnd = "open" /\ (@ \/ l.up # <<>>)]

ClientEndClosed(l) ==
  [l EXCEPT !.clientEnd = "closed", !.down = <<>>, !.reset = l.serverEnd = "open" /\ (@ \/ l.down # <<>>)]

\* The connections after Close of client p's csocket.
Closed(p) ==
  IF client[p].sock = "connected" THEN [link EXCEPT ![LastConn(p)] = ClientEndClosed(@)] ELSE link

\* The ghosts about a connection are of interest as long as it has a worker.
Excuse(c) == IF worker[c].pc = "gone" THEN history ELSE [history EXCEPT !.excused = @ \cup {c}]

Forget(c) == [history EXCEPT !.excused = @ \ {c}, !.early = @ \ {c}, !.overtaken = @ \ {c}]

\* What the server sends to a closed end, or receives after that, may be lost.
SentTo(c) == IF link[c].clientEnd = "closed" THEN Excuse(c) ELSE history

-----------------------------------------------------------------------------
(* The server's main thread.  A definition with a suffix is a faulty variant of the one    *)
(* after it.                                                                             *)

\* The worker takes its socket while the main thread sleeps (ServerPool).
Accept(c) ==
  /\ main = "run" /\ worker[c].pc = "backlog" /\ cs = NoOne
  /\ netclients' = Append(netclients, c)
  /\ worker' = [worker EXCEPT ![c].pc = "recv"]
  /\ UNCHANGED <<main, signal_server_shutdown, cs, once_invalid_packet_received, settings, mark, link,
                 client, used, history>>

\* WM_QUIT: the service stops.
Stop ==
  /\ main = "run" /\ used.stops < MaxStops
  /\ used' = [used EXCEPT !.stops = @ + 1]
  /\ main' = "switch"
  /\ signal_server_shutdown' = TRUE
  /\ history' = [history EXCEPT !.excused = @ \cup {c \in Conns : worker[c].pc \notin {"none", "gone"}}]
  /\ UNCHANGED <<netclients, cs, once_invalid_packet_received, settings, mark, worker, link, client>>

\* The threads between the test and the assignment of Switch_LogGeneral.
Switches == {c \in Conns : worker[c].pc \in {"write", "set"}} \cup {n \in {NoOne} : main \in {"write", "set"}}

Overlap == history' = [history EXCEPT !.overlap = @ \/ \E x, y \in Switches : x # y]

WriteMark_Copied(onoff) ==
  /\ cs = NoOne
  /\ mark' = TRUE
  /\ Overlap

\* Switch_LogGeneral writes an entry to the log, waiting for cs.
WriteMark(onoff) ==
  /\ cs = NoOne
  /\ mark' = onoff
  /\ Overlap

\* Switch_LogGeneral (false): the test, the entry, the assignment.
MainSwitch ==
  /\ main = "switch"
  /\ main' = IF log_general THEN "write" ELSE "closing"
  /\ UNCHANGED <<signal_server_shutdown, netclients, cs, once_invalid_packet_received, settings, mark,
                 worker, link, client, used, history>>

MainWrite ==
  /\ main = "write"
  /\ WriteMark(FALSE)
  /\ main' = "set"
  /\ UNCHANGED <<signal_server_shutdown, netclients, cs, once_invalid_packet_received, settings, worker,
                 link, client, used>>

MainSet ==
  /\ main = "set"
  /\ main' = "closing"
  /\ log_general' = FALSE
  /\ UNCHANGED <<signal_server_shutdown, netclients, cs, once_invalid_packet_received, log_capchanges,
                 mark, worker, link, client, used, history>>

CloseAll_LeavesBacklog ==
  /\ main = "closing" /\ cs = NoOne
  /\ main' = "await"
  /\ link' = [c \in Conns |-> IF c \in ToSet(netclients)
                                THEN ServerEndClosed(link[c]) ELSE link[c]]
  /\ worker' = [c \in Conns |-> IF worker[c].pc = "backlog" THEN NewWorker("gone") ELSE worker[c]]
  /\ UNCHANGED <<signal_server_shutdown, netclients, cs, once_invalid_packet_received, settings, mark,
                 client, used, history>>

\* The listening socket is closed, with the connections nobody accepted, then every client's.
CloseAll ==
  /\ main = "closing" /\ cs = NoOne
  /\ main' = "await"
  /\ link' = [c \in Conns |-> IF worker[c].pc = "backlog" \/ c \in ToSet(netclients)
                                THEN ServerEndClosed(link[c]) ELSE link[c]]
  /\ worker' = [c \in Conns |-> IF worker[c].pc = "backlog" THEN NewWorker("gone") ELSE worker[c]]
  /\ UNCHANGED <<signal_server_shutdown, netclients, cs, once_invalid_packet_received, settings, mark,
                 client, used, history>>

\* AwaitShutdown, then the last entry of the log.
Finish ==
  /\ main = "await" /\ cs = NoOne
  /\ \A c \in Conns : worker[c].pc \in {"none", "gone"}
  /\ main' = "gone"
  /\ UNCHANGED <<signal_server_shutdown, netclients, cs, once_invalid_packet_received, settings, mark,
                 worker, link, client, used, history>>

\* The service is started again: constructor and Init of a new Syslog_Server.
Restart ==
  /\ main = "gone"
  /\ main' = "run" /\ signal_server_shutdown' = FALSE
  /\ \E s \in Runmodes : /\ log_general' = s.general /\ log_capchanges' = s.capchanges
                         /\ mark' = s.general
  /\ netclients' = <<>> /\ cs' = NoOne /\ once_invalid_packet_received' = FALSE
  /\ UNCHANGED <<worker, link, client, used, history>>

-----------------------------------------------------------------------------
(* Server_Worker.  It receives at "recv"; every other value of pc is a call it goes on to make. *)

\* The loop condition is tested after each message.
Continue == IF signal_server_shutdown THEN "remove" ELSE "recv"

\* EnterReceiveLoop returns the next message, with the id given.
Receives(c, id) ==
  /\ worker[c].pc = "recv" /\ link[c].serverEnd = "open" /\ link[c].up # <<>>
  /\ Head(link[c].up).id = id
  /\ link' = [link EXCEPT ![c].up = Tail(@)]

Authenticate(c) ==
  /\ Receives(c, "AUTH")
  /\ worker' = [worker EXCEPT ![c].auth = TRUE, ![c].read = Current, ![c].pc = "reply"]
  /\ UNCHANGED <<server, settings, mark, client, used, history>>

\* The reply is sent outside cs.
Reply(c) ==
  /\ worker[c].pc = "reply"
  /\ \E ok \in BOOLEAN :
       /\ ServerSends(c, [id |-> "SPAWN_SETTINGS", set |-> worker[c].read], ok)
       /\ worker' = [worker EXCEPT ![c].read = Off, ![c].pc = IF ok THEN Continue ELSE "remove"]
  /\ history' = SentTo(c)
  /\ UNCHANGED <<server, settings, mark, client, used>>

Logon(c) ==
  /\ Receives(c, "LOGON") /\ worker[c].auth /\ cs = NoOne
  /\ worker' = [worker EXCEPT ![c].named = TRUE, ![c].pc = "info"]
  /\ UNCHANGED <<server, settings, mark, client, used, history>>

Logoff(c) ==
  /\ Receives(c, "LOGOFF") /\ worker[c].auth /\ cs = NoOne
  /\ worker' = [worker EXCEPT ![c].bye = TRUE, ![c].pc = Continue]
  /\ UNCHANGED <<server, settings, mark, client, used, history>>

LogThis(c) ==
  /\ Receives(c, "LOGTHIS") /\ worker[c].auth /\ cs = NoOne
  /\ worker' = [worker EXCEPT ![c].pc = Continue]
  /\ UNCHANGED <<server, settings, mark, client, used, history>>

\* Switch_LogGeneral repeats the test; a switch that passes one only is one that asked later.
SetLogging(c) ==
  /\ Receives(c, "SET_LOGGING") /\ worker[c].auth
  /\ LET v == Head(link[c].up).val
     IN  worker' = IF v # log_general THEN [worker EXCEPT ![c].val = v, ![c].pc = "write"]
                                      ELSE [worker EXCEPT ![c].pc = "enter"]
  /\ UNCHANGED <<server, settings, mark, client, used, history>>

Switch(c) ==
  /\ worker[c].pc = "write"
  /\ WriteMark(worker[c].val)
  /\ worker' = [worker EXCEPT ![c].pc = "set"]
  /\ UNCHANGED <<server, settings, link, client, used>>

SetGeneral(c) ==
  /\ worker[c].pc = "set"
  /\ worker' = [worker EXCEPT ![c].val = FALSE, ![c].pc = "enter"]
  /\ log_general' = worker[c].val
  /\ UNCHANGED <<server, log_capchanges, mark, link, client, used, history>>

SetLogCapChanges(c) ==
  /\ Receives(c, "SET_LOGCAPCHANGES") /\ worker[c].auth
  /\ log_capchanges' = Head(link[c].up).val
  /\ worker' = [worker EXCEPT ![c].pc = "enter"]
  /\ UNCHANGED <<server, log_general, mark, client, used, history>>

\* The settings go to all clients, under cs, as they are at each send; failures are ignored.
EnterCS(c) ==
  /\ worker[c].pc = "enter" /\ cs = NoOne
  /\ cs' = c
  /\ worker' = [worker EXCEPT ![c].next = 1, ![c].pc = "spawn"]
  /\ UNCHANGED <<main, signal_server_shutdown, netclients, once_invalid_packet_received, settings, mark,
                 link, client, used, history>>

SpawnSettings(c) ==
  /\ worker[c].pc = "spawn" /\ worker[c].next <= Len(netclients)
  /\ LET d == netclients[worker[c].next]
     IN  /\ \E ok \in BOOLEAN : ServerSends(d, [id |-> "SPAWN_SETTINGS", set |-> Current], ok)
         /\ history' = IF worker[d].pc = "reply" THEN [SentTo(d) EXCEPT !.overtaken = @ \cup {d}] ELSE SentTo(d)
  /\ worker' = [worker EXCEPT ![c].next = @ + 1]
  /\ UNCHANGED <<server, settings, mark, client, used>>

LeaveCS_Early(c) ==
  /\ worker[c].pc = "spawn" /\ worker[c].next >= Len(netclients)
  /\ cs' = NoOne
  /\ worker' = [worker EXCEPT ![c].next = 1, ![c].pc = "info"]
  /\ UNCHANGED <<main, signal_server_shutdown, netclients, once_invalid_packet_received, settings, mark,
                 link, client, used, history>>

LeaveCS(c) ==
  /\ worker[c].pc = "spawn" /\ worker[c].next > Len(netclients)
  /\ cs' = NoOne
  /\ worker' = [worker EXCEPT ![c].next = 1, ![c].pc = "info"]
  /\ UNCHANGED <<main, signal_server_shutdown, netclients, once_invalid_packet_received, settings, mark,
                 link, client, used, history>>

\* The welcome message, or the OK after a change.
ShowUserInfo(c) ==
  /\ worker[c].pc = "info"
  /\ \E ok \in BOOLEAN :
       /\ ServerSends(c, [id |-> "SHOW_USERINFO", set |-> Off], ok)
       /\ worker' = [worker EXCEPT ![c].pc = IF ok THEN Continue ELSE "remove"]
  /\ history' = SentTo(c)
  /\ UNCHANGED <<server, settings, mark, client, used>>

AcquireLogData(c) ==
  /\ Receives(c, "ACQUIRE_LOGDATA") /\ worker[c].auth
  /\ worker' = [worker EXCEPT ![c].pc = "logdata"]
  /\ UNCHANGED <<server, settings, mark, client, used, history>>

SendLogData(c) ==
  /\ worker[c].pc = "logdata"
  /\ \E ok \in BOOLEAN :
       /\ ServerSends(c, [id |-> "RECV_LOGDATA", set |-> Off], ok)
       /\ worker' = [worker EXCEPT ![c].pc = IF ok THEN Continue ELSE "remove"]
  /\ history' = SentTo(c)
  /\ UNCHANGED <<server, settings, mark, client, used>>

\* Anything before AUTH; the first time the log gets an entry.
InvalidNetdata(c) ==
  /\ ~worker[c].auth
  /\ \E id \in {"LOGON", "LOGOFF", "LOGTHIS", "SET_LOGGING", "SET_LOGCAPCHANGES", "ACQUIRE_LOGDATA"} : Receives(c, id)
  /\ once_invalid_packet_received \/ cs = NoOne
  /\ once_invalid_packet_received' = TRUE
  /\ worker' = [worker EXCEPT ![c].pc = "remove"]
  /\ UNCHANGED <<main, signal_server_shutdown, netclients, cs, settings, mark, client, used, history>>

\* The client's end is closed, or the main thread has closed this one.
ConnectionEnds(c) ==
  /\ worker[c].pc = "recv"
  /\ \/ link[c].clientEnd = "closed" /\ (link[c].up = <<>> \/ link[c].reset)
     \/ link[c].serverEnd = "closed"
  /\ worker' = [worker EXCEPT ![c].pc = "remove"]
  /\ UNCHANGED <<server, settings, mark, link, client, used, history>>

\* The loop over netclients ends with the first entry that matches.
IsFirstEntry(i, c) == netclients[i] = c /\ \A j \in 1 .. i - 1 : netclients[j] # c

RemoveEntry(c) ==
  /\ worker[c].pc = "remove" /\ cs = NoOne
  /\ \/ \E i \in 1 .. Len(netclients) : IsFirstEntry(i, c) /\ netclients' = RemoveAt(netclients, i)
     \/ c \notin ToSet(netclients) /\ UNCHANGED netclients
  /\ worker' = [worker EXCEPT ![c].pc = "close"]
  /\ UNCHANGED <<main, signal_server_shutdown, cs, once_invalid_packet_received, settings, mark, link,
                 client, used, history>>

CloseClient(c) ==
  /\ worker[c].pc = "close"
  /\ link' = [link EXCEPT ![c] = ServerEndClosed(@)]
  /\ worker' = [worker EXCEPT ![c] = IF worker[c].bye THEN NewWorker("gone") ELSE [@ EXCEPT !.pc = "log"]]
  /\ history' = IF worker[c].bye THEN Forget(c) ELSE history
  /\ UNCHANGED <<server, settings, mark, client, used>>

\* "Client process unexpectedly exited" is written.
LogUnexpectedExit(c) ==
  /\ worker[c].pc = "log" /\ cs = NoOne
  /\ worker' = [worker EXCEPT ![c] = NewWorker("gone")]
  /\ history' = Forget(c)
  /\ UNCHANGED <<server, settings, mark, link, client, used>>

-----------------------------------------------------------------------------
(* Client_Worker of client p. *)

Listening == main \in {"run", "switch", "write", "set", "closing"}

\* The condition of the outer loop.
TestShutdown(p) ==
  /\ client[p].cworker = "top"
  /\ client' = [client EXCEPT ![p].cworker = IF client[p].signal_client_shutdown THEN "gone" ELSE "create"]
  /\ UNCHANGED <<server, settings, mark, worker, link, used, history>>

Create(p) ==
  /\ client[p].cworker = "create"
  /\ client' = [client EXCEPT ![p].cworker = "connect", ![p].sock = "created"]
  /\ UNCHANGED <<server, settings, mark, worker, link, used, history>>

CreateFails(p) ==
  /\ client[p].cworker = "create"
  /\ used.accidents < MaxAccidents
  /\ client' = [client EXCEPT ![p].cworker = "gone"]
  /\ used' = [used EXCEPT !.accidents = @ + 1]
  /\ UNCHANGED <<server, settings, mark, worker, link, history>>

Connect_LogonFirst(p) ==
  /\ client[p].cworker = "connect" /\ client[p].sock = "created"
  /\ Listening /\ client[p].last < MaxConns[p]
  /\ client' = [client EXCEPT ![p].cworker = "logon", ![p].sock = "connected", ![p].last = @ + 1]
  /\ LET c == <<p, client[p].last + 1>> IN
       /\ link' = [link EXCEPT ![c].serverEnd = "open", ![c].clientEnd = "open"]
       /\ worker' = [worker EXCEPT ![c].pc = "backlog"]
       /\ history' = IF main # "run" \/ client[p].ui \notin {"run", "menu", "logoff"}
                       THEN [history EXCEPT !.excused = @ \cup {c}] ELSE history
  /\ UNCHANGED <<server, settings, mark, used>>

\* The connection waits for the server to accept it.
Connect(p) ==
  /\ client[p].cworker = "connect" /\ client[p].sock = "created"
  /\ Listening /\ client[p].last < MaxConns[p]
  /\ client' = [client EXCEPT ![p].cworker = "auth", ![p].sock = "connected", ![p].last = @ + 1]
  /\ LET c == <<p, client[p].last + 1>> IN
       /\ link' = [link EXCEPT ![c].serverEnd = "open", ![c].clientEnd = "open"]
       /\ worker' = [worker EXCEPT ![c].pc = "backlog"]
       /\ history' = IF main # "run" \/ client[p].ui \notin {"run", "menu", "logoff"}
                       THEN [history EXCEPT !.excused = @ \cup {c}] ELSE history
  /\ UNCHANGED <<server, settings, mark, used>>

ConnectFails(p) ==
  /\ client[p].cworker = "connect"
  /\ client[p].sock = "none" \/ ~Listening \/ client[p].last = MaxConns[p]
  /\ client' = [client EXCEPT ![p].cworker = "close"]
  /\ UNCHANGED <<server, settings, mark, worker, link, used, history>>

\* The receive loop is entered, or gone on with, unless the client shuts down.
Inner(p) == IF client[p].signal_client_shutdown THEN "close" ELSE "recv"

SendAuth_TestInverted(p) ==
  /\ client[p].cworker = "auth"
  /\ \E ok \in BOOLEAN :
       /\ ClientSends(p, [id |-> "AUTH", val |-> FALSE], ok)
       /\ client' = [client EXCEPT ![p].cworker = IF ~ok THEN "gone"
                                                  ELSE IF ~client[p].flag_sent_username_once THEN Inner(p)
                                                  ELSE "logon"]
  /\ UNCHANGED <<server, settings, mark, worker, used, history>>

\* A failure ends the thread.
SendAuth(p) ==
  /\ client[p].cworker = "auth"
  /\ \E ok \in BOOLEAN :
       /\ ClientSends(p, [id |-> "AUTH", val |-> FALSE], ok)
       /\ client' = [client EXCEPT ![p].cworker = IF ~ok THEN "gone"
                                                  ELSE IF client[p].flag_sent_username_once THEN Inner(p)
                                                  ELSE "logon"]
  /\ UNCHANGED <<server, settings, mark, worker, used, history>>

SendLogon(p) ==
  /\ client[p].cworker = "logon"
  /\ \E ok \in BOOLEAN :
       /\ ClientSends(p, [id |-> "LOGON", val |-> FALSE], ok)
       /\ client' = [client EXCEPT ![p].cworker = IF ok THEN Inner(p) ELSE "gone",
                                   ![p].flag_sent_username_once = ok]
  /\ UNCHANGED <<server, settings, mark, worker, used, history>>

Receive_WholeMessage(p) ==
  LET c == LastConn(p)
      m == Head(link[c].down)
  IN
  /\ client[p].cworker = "recv" /\ client[p].sock = "connected" /\ link[c].down # <<>>
  /\ link' = [link EXCEPT ![c].down = Tail(@)]
  /\ client' = [client EXCEPT ![p].cworker = Inner(p),
                              ![p].copy = IF m.id = "SPAWN_SETTINGS" THEN m ELSE @,
                              ![p].viewers = IF m.id = "RECV_LOGDATA" THEN @ + 1 ELSE @]
  /\ UNCHANGED <<server, settings, mark, worker, used, history>>

Receive(p) ==
  LET c == LastConn(p)
      m == Head(link[c].down)
  IN
  /\ client[p].cworker = "recv" /\ client[p].sock = "connected" /\ link[c].down # <<>>
  /\ link' = [link EXCEPT ![c].down = Tail(@)]
  /\ client' = [client EXCEPT ![p].cworker = Inner(p),
                              ![p].copy = IF m.id = "SPAWN_SETTINGS" THEN m.set ELSE @,
                              ![p].viewers = IF m.id = "RECV_LOGDATA" THEN @ + 1 ELSE @]
  /\ UNCHANGED <<server, settings, mark, worker, used, history>>

\* The server has closed its end, or the main message queue thread this one.
Disconnected(p) ==
  /\ client[p].cworker = "recv"
  /\ \/ client[p].sock # "connected"
     \/ LET l == link[LastConn(p)] IN l.serverEnd = "closed" /\ (l.down = <<>> \/ l.reset)
  /\ client' = [client EXCEPT ![p].cworker = "close"]
  /\ UNCHANGED <<server, settings, mark, worker, link, used, history>>

\* Then it sleeps ten seconds and tries again.
Close(p) ==
  /\ client[p].cworker = "close"
  /\ client' = [client EXCEPT ![p].cworker = "top", ![p].sock = "none"]
  /\ link' = Closed(p)
  /\ history' = IF client[p].sock = "connected"
                  THEN Excuse(LastConn(p)) ELSE history
  /\ UNCHANGED <<server, settings, mark, worker, used>>

-----------------------------------------------------------------------------
(* Logtimer and the main message queue thread of client p. *)

\* A window has opened, closed or changed its caption.
WindowChanged(p) ==
  /\ client[p].timer = "idle" /\ client[p].copy.general /\ "LOGTHIS" \in Uses /\ used.uses < MaxUses
  /\ client' = [client EXCEPT ![p].timer = "wait"]
  /\ used' = [used EXCEPT !.uses = @ + 1]
  /\ UNCHANGED <<server, settings, mark, worker, link, history>>

\* WriteLog waits for a connection, whether or not AUTH has been sent on it.
WriteLog(p) ==
  /\ client[p].timer = "wait"
  /\ client[p].sock = "connected" \/ client[p].signal_client_shutdown
  /\ \E ok \in BOOLEAN : ClientSends(p, [id |-> "LOGTHIS", val |-> FALSE], ok) /\ SentEarly(p, ok)
  /\ client' = [client EXCEPT ![p].timer = "idle"]
  /\ UNCHANGED <<server, settings, mark, worker, used>>

TimerEnds(p) ==
  /\ client[p].timer = "idle" /\ client[p].signal_client_shutdown
  /\ client' = [client EXCEPT ![p].timer = "gone"]
  /\ UNCHANGED <<server, settings, mark, worker, link, used, history>>

ShowSystrayMenu(p) ==
  /\ client[p].ui = "run" /\ used.uses < MaxUses
  /\ client' = [client EXCEPT ![p].ui = "menu", ![p].shown = client[p].copy.general]
  /\ used' = [used EXCEPT !.uses = @ + 1]
  /\ UNCHANGED <<server, settings, mark, worker, link, history>>

\* The entries that are not grey, with what they send when they are chosen.
MenuMessages(p) ==
  {[id |-> "ACQUIRE_LOGDATA", val |-> FALSE], [id |-> "SET_LOGGING", val |-> ~client[p].shown]}
    \cup {[id |-> "SET_LOGCAPCHANGES", val |-> ~client[p].copy.capchanges] : g \in {TRUE} \cap {client[p].shown}}

ChooseEntry(p) ==
  /\ client[p].ui = "menu"
  /\ \E m \in MenuMessages(p), ok \in BOOLEAN : m.id \in Uses /\ ClientSends(p, m, ok) /\ SentEarly(p, ok)
  /\ client' = [client EXCEPT ![p].ui = "run", ![p].shown = FALSE]
  /\ UNCHANGED <<server, settings, mark, worker, used>>

\* WM_QUIT ends the menu's own message loop, and nothing else.
QuitInMenu(p) ==
  /\ client[p].ui = "menu" /\ used.quits < MaxQuits
  /\ client' = [client EXCEPT ![p].ui = "run", ![p].shown = FALSE]
  /\ used' = [used EXCEPT !.quits = @ + 1]
  /\ UNCHANGED <<server, settings, mark, worker, link, history>>

Quit_NoLogoff(p) ==
  /\ client[p].ui = "run" /\ used.quits < MaxQuits
  /\ client' = [client EXCEPT ![p].ui = "close", ![p].signal_client_shutdown = TRUE]
  /\ used' = [used EXCEPT !.quits = @ + 1]
  /\ UNCHANGED <<server, settings, mark, worker, link, history>>

\* WM_QUIT, posted by the destructor.
Quit(p) ==
  /\ client[p].ui = "run" /\ used.quits < MaxQuits
  /\ client' = [client EXCEPT ![p].ui = "logoff", ![p].signal_client_shutdown = TRUE]
  /\ used' = [used EXCEPT !.quits = @ + 1]
  /\ UNCHANGED <<server, settings, mark, worker, link, history>>

NotifyLogoff(p) ==
  /\ client[p].ui = "logoff"
  /\ IF client[p].sock = "connected"
       THEN \E ok \in BOOLEAN : ClientSends(p, [id |-> "LOGOFF", val |-> FALSE], ok) /\ SentEarly(p, ok)
       ELSE UNCHANGED <<link, history>>
  /\ client' = [client EXCEPT ![p].ui = "close"]
  /\ UNCHANGED <<server, settings, mark, worker, used>>

Interrupt_None(p) ==
  /\ client[p].ui = "close"
  /\ client' = [client EXCEPT ![p].ui = "await"]
  /\ UNCHANGED <<server, settings, mark, worker, link, used, history>>

\* Interrupts the receive loop.
Interrupt(p) ==
  /\ client[p].ui = "close"
  /\ client' = [client EXCEPT ![p].ui = "await", ![p].sock = "none"]
  /\ link' = Closed(p)
  /\ history' = IF client[p].sock = "connected" /\ link[LastConn(p)].down # <<>>
                  THEN Excuse(LastConn(p)) ELSE history
  /\ UNCHANGED <<server, settings, mark, worker, used>>

AwaitShutdown(p) ==
  /\ client[p].ui = "await"
  /\ client[p].cworker = "gone" /\ client[p].timer = "gone" /\ client[p].viewers = 0
  /\ client' = [client EXCEPT ![p].ui = "gone"]
  /\ UNCHANGED <<server, settings, mark, worker, link, used, history>>

\* The user closes Notepad; FileView_And_Deletor ends.
CloseViewer(p) ==
  /\ client[p].viewers > 0
  /\ client' = [client EXCEPT ![p].viewers = @ - 1]
  /\ UNCHANGED <<server, settings, mark, worker, link, used, history>>

Kill(p) ==
  /\ client[p].ui \notin {"gone", "killed"} /\ used.accidents < MaxAccidents
  /\ client' = [client EXCEPT ![p].ui = "killed", ![p].cworker = "gone", ![p].sock = "none",
                              ![p].timer = "gone", ![p].viewers = 0]
  /\ link' = Closed(p)
  /\ used' = [used EXCEPT !.accidents = @ + 1]
  /\ history' = IF client[p].sock = "connected"
                  THEN Excuse(LastConn(p)) ELSE history
  /\ UNCHANGED <<server, settings, mark, worker>>

-----------------------------------------------------------------------------
MainThread == (\E c \in Conns : Accept(c)) \/ MainSwitch \/ MainWrite \/ MainSet \/ CloseAll \/ Finish

WorkerThread(c) ==
  \/ Authenticate(c) \/ Reply(c) \/ Logon(c) \/ Logoff(c) \/ LogThis(c)
  \/ SetLogging(c) \/ Switch(c) \/ SetGeneral(c) \/ SetLogCapChanges(c)
  \/ EnterCS(c) \/ SpawnSettings(c) \/ LeaveCS(c) \/ ShowUserInfo(c)
  \/ AcquireLogData(c) \/ SendLogData(c) \/ InvalidNetdata(c)
  \/ ConnectionEnds(c) \/ RemoveEntry(c) \/ CloseClient(c) \/ LogUnexpectedExit(c)

ClientWorker(p) ==
  \/ TestShutdown(p) \/ Create(p) \/ Connect(p) \/ ConnectFails(p) \/ SendAuth(p) \/ SendLogon(p)
  \/ Receive(p) \/ Disconnected(p) \/ Close(p)

Logtimer(p) == WriteLog(p) \/ TimerEnds(p)

MessageQueue(p) == NotifyLogoff(p) \/ Interrupt(p) \/ AwaitShutdown(p)

\* What users, windows and the service do when they like.
Environment(p) ==
  \/ CreateFails(p) \/ WindowChanged(p) \/ ShowSystrayMenu(p) \/ ChooseEntry(p)
  \/ Quit(p) \/ QuitInMenu(p) \/ CloseViewer(p) \/ Kill(p)

Next ==
  \/ Stop \/ Restart \/ MainThread
  \/ \E c \in Conns : WorkerThread(c)
  \/ \E p \in Clients : ClientWorker(p) \/ Logtimer(p) \/ MessageQueue(p) \/ Environment(p)

Spec == Init /\ [][Next]_vars

\* Every thread runs on; nothing obliges a user or the service to do anything.
FairSpec ==
  /\ Spec
  /\ WF_vars(MainThread)
  /\ \A c \in Conns : WF_vars(WorkerThread(c))
  /\ \A p \in Clients : WF_vars(ClientWorker(p)) /\ WF_vars(Logtimer(p)) /\ WF_vars(MessageQueue(p))

-----------------------------------------------------------------------------
\* Nothing is under way between the server and client p, and no setting is being changed.
AtRest(p) ==
  /\ main = "run" /\ client[p].sock = "connected" /\ client[p].cworker = "recv"
  /\ LET c == LastConn(p)
     IN  worker[c].pc = "recv" /\ worker[c].auth /\ link[c].serverEnd = "open" /\ link[c].down = <<>>
  /\ \A c \in Conns : worker[c].pc \notin {"write", "set", "enter", "spawn"}

\* At rest a client's copies are the settings of the server, unless a broadcast overtook
\* the reply to its AUTH, which Server_Worker reads and sends outside cs.
CopiesConverge ==
  \A p \in Clients :
    AtRest(p) /\ LastConn(p) \notin history.overtaken => client[p].copy = Current

\* When nobody is between the two halves of Switch_LogGeneral, the last started/stopped
\* entry of the log tells whether logging is on, unless two switches have overlapped.
MarkTellsState == ~history.overlap /\ Switches = {} => mark = log_general

\* Server_Worker blames the client for an unexpected exit only when LOGOFF could not be
\* heard: the client was killed, left without sending it, sent something before AUTH,
\* closed with messages unread, or the service was stopping.
LogoffIsHeard ==
  \A c \in Conns : worker[c].pc = "log" => c \in history.excused \cup history.early

\* INVALID NETDATA is only logged for a client whose menu, Logtimer or shutdown sent
\* something between Connect and AUTH.
InvalidOnlyIfEarly == [][\A c \in Conns : InvalidNetdata(c) => c \in history.early]_vars

\* Entries about windows carry the user's name on a client's first connection.
WindowEntriesAreNamed ==
  [][\A c \in Conns : LogThis(c) /\ c[2] = 1 => worker[c].named]_vars

\* A client that is told to stop does so, as soon as the user has closed every Notepad.
ClientStops ==
  \A p \in Clients : client[p].ui = "logoff" ~> client[p].ui \in {"gone", "killed"} \/ client[p].viewers > 0

\* A server that is told to stop does so: no worker and no broadcast stays behind.
ServerStops == signal_server_shutdown ~> main = "gone"

\* Whoever of the two is told to stop does so, whatever the other is doing (AwaitShutdown of
\* both sides).
BothSidesStop == ClientStops /\ ServerStops

\* While the server runs a client gets connected and learns the settings, whatever
\* connections were lost before, unless its Client_Worker has given up.
ClientsGetConnected ==
  \A p \in Clients :
    client[p].ui \in {"run", "menu"} /\ main = "run" ~>
      \/ client[p].ui \notin {"run", "menu"} \/ main # "run" \/ client[p].cworker = "gone"
      \/ client[p].last = MaxConns[p]
      \/ client[p].cworker = "recv" /\ worker[LastConn(p)].auth

\* Once connected, Client_Worker only ends with the client: "Transfer finished or no connection, so close that socket and retry".
RetriesUntilShutdown ==
  \A p \in Clients :
    client[p].cworker = "gone" /\ client[p].last > 0 =>
      client[p].signal_client_shutdown \/ client[p].ui = "killed"
=============================================================================
