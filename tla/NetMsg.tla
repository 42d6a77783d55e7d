------------------------------- MODULE NetMsg -------------------------------
(***************************************************************************)
(* Network messages: a server in the service (src/NetMsg/NetMsg_Server.cpp) *)
(* and a client in each session (src/NetMsg/NetMsg_Client.cpp).            *)
(*                                                                         *)
(* The server keeps the list cds of who is connected, under the SOCKET     *)
(* value of each connection, and sends it to all clients when somebody     *)
(* logs on or leaves.  An administrator gives the password in a dialog of  *)
(* his client; the answer reaches the dialog through RespQueue, within a   *)
(* time limit.  In the main dialog he selects machines, confirms, and the  *)
(* server forwards the command to the connections that have the SOCKET     *)
(* values of the selected entries.                                         *)
(*                                                                         *)
(* A client has two threads: the main message queue, which also runs the   *)
(* dialogs, and Client_Worker.  What the server does inside cs is one      *)
(* step: it sends, but a send only touches its own connection.  How a      *)
(* worker gets its socket is in ServerPool, the framing in CSocket, the    *)
(* tray menu's own message loop in Syslog.                                 *)
(***************************************************************************)
EXTENDS Integers, Sequences, FiniteSets, SequencesExt

CONSTANTS
  Clients,       \* the client processes; also their machine\user names
  Admins,        \* those whose user may open the dialogs (bUserIsAdminMember)
  MaxConns,      \* bound: connections of each client
  Sockets,       \* SOCKET values of accepted connections on the server
  Unnamed,       \* the name of an entry whose client has not logged on
  NoEntry,       \* the name under a SOCKET value without an entry
  Plays          \* bounds: how often what users, the network and the service do may happen

ASSUME NetMsgAssumption ==
  /\ Admins \subseteq Clients
  /\ MaxConns \in [Clients -> Nat]
  /\ Unnamed # NoEntry /\ {Unnamed, NoEntry} \cap (Clients \cup Sockets) = {}
  /\ Plays \subseteq [tries : Nat, commands : Nat, breaks : Nat, quits : Nat, stops : Nat, conns : [Clients -> Nat]]
  /\ \A play \in Plays, p \in Clients : play.conns[p] <= MaxConns[p]

\* The n-th connection of client p is <<p, n>>.
Conns == UNION {{p} \X (1 .. MaxConns[p]) : p \in Clients}

\* The names of an Inifile section, by SOCKET value.
Lists == [Sockets -> Clients \cup {Unnamed, NoEntry}]

\* Network messages (NetMsg_vcomm).  Any text but the password resets the session, so the one the
\* closing dialog sends is "wrong" too.  The five INVOKE messages are handled alike.  A NetID
\* goes with a ghost, the name the administrator saw beside it.
Names == Clients \cup {Unnamed}
NetIDs == Sockets \X Names
ToServer == [id : {"AUTH", "LOGON", "ADMIN_PASSWORD", "INVOKE"}, pw : {"none", "right", "wrong"},
             to : SUBSET NetIDs]
ToClient == [id : {"SPAWN_MACHINES"}, list : Lists] \cup [id : {"INVOKE"}, meant : Names]
              \cup [id : {"ADMIN_PASSWORD_OK"}]

\* A message to the server; it has a password, a command's NetIDs, or neither.
Message(id) == [id |-> id, pw |-> "none", to |-> {}]
Password(pw) == [Message("ADMIN_PASSWORD") EXCEPT !.pw = pw]
Command(to) == [Message("INVOKE") EXCEPT !.to = to]

VARIABLES
  main,        \* where the server's main thread is
  netclients,  \* the SOCKET values of its connections
  cds,         \* its list
  worker,      \* its worker for each connection
  link,        \* the connections
  client,      \* the clients
  left,        \* of the bounds, what is left
  history      \* ghost: what the properties have to know of the past

vars == <<main, netclients, cds, worker, link, client, left, history>>

Worker == [pc : {"none", "backlog", "recv", "forward", "remove", "close", "gone"},
           auth : BOOLEAN,
           admin_password_verified : BOOLEAN,
           socket : Sockets \cup {NoEntry},         \* client.Get ()
           to : SUBSET NetIDs]                      \* those still to be served

Link == [up : Seq(ToServer), down : Seq(ToClient),     \* messages under way
         serverEnd : {"none", "open", "closed"},
         clientEnd : {"none", "open", "closed"},
         broken : BOOLEAN]                             \* by the network, or reset

Client == [ui : {"run", "wait", "main", "confirm", "close", "await", "gone"},
           tried : {"none", "right", "wrong"},         \* strPassword
           cworker : {"connect", "auth", "recv", "close", "gone"},
           connected : BOOLEAN,                        \* the csocket the threads share
           last : Nat,                                 \* the number of its last connection
           RespQueue : Nat,                            \* answers nobody has taken
           cds : Lists,
           signal_cds_update : BOOLEAN,
           shown : Lists,                              \* the list box
           picked : SUBSET NetIDs]                    \* strNetIDList

TypeOK ==
  /\ main \in {"run", "close", "await", "gone"}
  /\ netclients \in Seq(Sockets)
  /\ cds \in Lists
  /\ worker \in [Conns -> Worker]
  /\ link \in [Conns -> Link]
  /\ client \in [Clients -> Client]
  /\ left \in [tries : Nat, commands : Nat, breaks : Nat, quits : Nat, stops : Nat, conns : [Clients -> Nat]]
  /\ history \in [late : SUBSET Clients, unheard : SUBSET Conns, given : SUBSET Sockets,
                  reused : SUBSET Conns, ordered : SUBSET (Conns \X Conns)]

Empty == [s \in Sockets |-> NoEntry]

\* The local variables as a worker starts; they vanish when it ends.
NewWorker(pc) == [pc |-> pc, auth |-> FALSE, admin_password_verified |-> FALSE, socket |-> NoEntry,
                  to |-> {}]

NewLink == [up |-> <<>>, down |-> <<>>, serverEnd |-> "none", clientEnd |-> "none", broken |-> FALSE]

Init ==
  /\ main = "run" /\ netclients = <<>> /\ cds = Empty
  /\ worker = [c \in Conns |-> NewWorker("none")]
  /\ link = [c \in Conns |-> NewLink]
  /\ client = [p \in Clients |->
       [ui |-> "run", tried |-> "none", cworker |-> "connect", connected |-> FALSE, last |-> 0,
        RespQueue |-> 0, cds |-> Empty, signal_cds_update |-> FALSE, shown |-> Empty, picked |-> {}]]
  /\ left \in Plays
  /\ history = [late |-> {}, unheard |-> {}, given |-> {}, reused |-> {}, ordered |-> {}]

-----------------------------------------------------------------------------
(* Connections. *)

LastConn(p) == <<p, client[p].last>>

Alive(l) == l.serverEnd = "open" /\ l.clientEnd = "open" /\ ~l.broken

\* What a connection becomes when one of its open ends sends m.  To a closed end the send
\* provokes a reset, whatever it returned.
SentUp(l, m) == IF Alive(l) THEN [l EXCEPT !.up = Append(@, m)] ELSE [l EXCEPT !.broken = TRUE]
SentDown(l, m) == IF Alive(l) THEN [l EXCEPT !.down = Append(@, m)] ELSE [l EXCEPT !.broken = TRUE]

\* mod_send of one of client p's threads returns ok.
ClientSends(p, m, ok) ==
  LET c == LastConn(p) IN
  \/ ok /\ client[p].connected /\ link' = [link EXCEPT ![c] = SentUp(@, m)]
  \/ ~ok /\ (client[p].connected => ~Alive(link[c])) /\ UNCHANGED link

\* mod_send of the server on connection c returns ok.
ServerSends(c, m, ok) ==
  \/ ok /\ link[c].serverEnd = "open" /\ link' = [link EXCEPT ![c] = SentDown(@, m)]
  \/ ~ok /\ ~Alive(link[c]) /\ UNCHANGED link

\* Close of either end, with the messages it will not read.
ServerEndClosed(l) ==
  IF l.clientEnd = "open" THEN [l EXCEPT !.serverEnd = "closed", !.up = <<>>]
                          ELSE [NewLink EXCEPT !.serverEnd = "closed", !.clientEnd = "closed"]

ClientEndClosed(l) ==
  IF l.serverEnd = "open" THEN [l EXCEPT !.clientEnd = "closed", !.down = <<>>]
                          ELSE [NewLink EXCEPT !.serverEnd = "closed", !.clientEnd = "closed"]

\* The connections after Close of client p's csocket.
Closed(p) ==
  IF client[p].connected THEN [link EXCEPT ![LastConn(p)] = ClientEndClosed(@)] ELSE link

\* The connections that have a SOCKET value of the set; a value is free again after Close.
Holding(values) == {c \in Conns : link[c].serverEnd = "open" /\ worker[c].socket \in values}

-----------------------------------------------------------------------------
(* The server's main thread.  A definition with a suffix is a faulty variant of the one    *)
(* after it.                                                                             *)

\* The worker takes its socket while the main thread sleeps (ServerPool).
Accept(c) ==
  /\ main = "run" /\ worker[c].pc = "backlog"
  /\ \E s \in Sockets :
       /\ Holding({s}) = {}
       /\ worker' = [worker EXCEPT ![c].pc = "recv", ![c].socket = s]
       /\ netclients' = Append(netclients, s)
       /\ cds' = [cds EXCEPT ![s] = Unnamed]
       /\ history' = [history EXCEPT !.given = @ \cup {s}, !.reused = IF s \in history.given THEN @ \cup {c} ELSE @]
  /\ UNCHANGED <<main, link, client, left>>

\* WM_QUIT: the service stops.
Stop ==
  /\ main = "run" /\ left.stops > 0
  /\ main' = "close"
  /\ left' = [left EXCEPT !.stops = @ - 1]
  /\ UNCHANGED <<netclients, cds, worker, link, client, history>>

\* The listening socket is closed, with the connections nobody accepted, then every client's.
CloseAll ==
  LET ended == {c \in Conns : worker[c].pc = "backlog"} \cup Holding(ToSet(netclients))
  IN
  /\ main = "close"
  /\ main' = "await"
  /\ cds' = [s \in Sockets |-> IF s \in ToSet(netclients) THEN NoEntry ELSE cds[s]]
  /\ link' = [c \in Conns |-> IF c \in ended THEN ServerEndClosed(link[c]) ELSE link[c]]
  /\ worker' = [c \in Conns |-> IF worker[c].pc = "backlog" THEN NewWorker("gone") ELSE worker[c]]
  /\ UNCHANGED <<netclients, client, left, history>>

AwaitWorkers ==
  /\ main = "await"
  /\ \A c \in Conns : worker[c].pc \in {"none", "gone"}
  /\ main' = "gone"
  /\ UNCHANGED <<netclients, cds, worker, link, client, left, history>>

-----------------------------------------------------------------------------
(* Server_Worker. *)

signal_server_shutdown == main # "run"

\* The loop condition is tested after each message.
Continue == IF signal_server_shutdown THEN "remove" ELSE "recv"

\* EnterReceiveLoop returns a message with the id given; the link is what it leaves.
Receives(c, id) ==
  /\ worker[c].pc = "recv" /\ link[c].serverEnd = "open" /\ ~link[c].broken
  /\ link[c].up # <<>> /\ Head(link[c].up).id = id

Received(c) == [link EXCEPT ![c].up = Tail(@)]

Authenticate(c) ==
  /\ Receives(c, "AUTH")
  /\ link' = Received(c)
  /\ worker' = [worker EXCEPT ![c].auth = TRUE, ![c].pc = Continue]
  /\ UNCHANGED <<main, netclients, cds, client, left, history>>

\* Sends the list to the connections of a sequence of SOCKET values up to the n-th.
Told(l, list, n) ==
  LET reached == {netclients[i] : i \in 1 .. n}
  IN  [c \in Conns |-> IF l[c].serverEnd = "open" /\ worker[c].socket \in reached
                         THEN SentDown(l[c], [id |-> "SPAWN_MACHINES", list |-> list]) ELSE l[c]]

\* mod_send to the i-th connection may fail.
MayFail(i) == \E c \in Holding({netclients[i]}) : ~Alive(link[c])

\* Inside cs: the entry gets its name, and the list goes to all clients up to the first
\* failing send.
Logon(c) ==
  /\ Receives(c, "LOGON") /\ worker[c].auth
  /\ cds' = [cds EXCEPT ![worker[c].socket] = c[1]]
  /\ \E n \in 0 .. Len(netclients) :
       /\ n < Len(netclients) => MayFail(n + 1)
       /\ link' = Told(Received(c), cds', n)
  /\ worker' = [worker EXCEPT ![c].pc = Continue]
  /\ UNCHANGED <<main, netclients, client, left, history>>

AdminPassword_KeepsSession(c) ==
  LET m == Head(link[c].up)
      l == Received(c)
  IN
  /\ Receives(c, "ADMIN_PASSWORD") /\ worker[c].auth
  /\ \/ m.pw = "right" /\ link' = [l EXCEPT ![c] = SentDown(@, [id |-> "ADMIN_PASSWORD_OK"])]
        /\ worker' = [worker EXCEPT ![c].admin_password_verified = TRUE, ![c].pc = Continue]
     \/ m.pw # "right" /\ link' = l
        /\ worker' = [worker EXCEPT ![c].pc = Continue]
  /\ UNCHANGED <<main, netclients, cds, client, left, history>>

\* The right password is answered and opens the session, any other resets it.
AdminPassword(c) ==
  LET m == Head(link[c].up)
      l == Received(c)
  IN
  /\ Receives(c, "ADMIN_PASSWORD") /\ worker[c].auth
  /\ \/ m.pw = "right" /\ link' = [l EXCEPT ![c] = SentDown(@, [id |-> "ADMIN_PASSWORD_OK"])]
        /\ worker' = [worker EXCEPT ![c].admin_password_verified = TRUE, ![c].pc = Continue]
     \/ m.pw = "right" /\ ~Alive(link[c]) /\ link' = l
        /\ worker' = [worker EXCEPT ![c].pc = "remove"]
     \/ m.pw # "right" /\ link' = l
        /\ worker' = [worker EXCEPT ![c].admin_password_verified = FALSE, ![c].pc = Continue]
  /\ UNCHANGED <<main, netclients, cds, client, left, history>>

Invoke(c) ==
  LET m == Head(link[c].up) IN
  /\ Receives(c, "INVOKE") /\ worker[c].auth /\ worker[c].admin_password_verified
  /\ link' = Received(c)
  /\ worker' = [worker EXCEPT ![c].to = m.to, ![c].pc = "forward"]
  /\ UNCHANGED <<main, netclients, cds, client, left, history>>

Forward_ToNextSocket(c) ==
  /\ worker[c].pc = "forward"
  /\ \E n \in worker[c].to :
       /\ worker' = [worker EXCEPT ![c].to = @ \ {n}, ![c].pc = IF worker[c].to = {n} THEN Continue ELSE @]
       /\ \/ Holding(Sockets \ {n[1]}) = {} /\ UNCHANGED link
          \/ \E d \in Holding(Sockets \ {n[1]}), ok \in BOOLEAN :
               ServerSends(d, [id |-> "INVOKE", meant |-> n[2]], ok)
  /\ UNCHANGED <<main, netclients, cds, client, left, history>>

\* By SOCKET value, outside cs; a value without a connection is skipped.
Forward(c) ==
  /\ worker[c].pc = "forward"
  /\ \E n \in worker[c].to :
       /\ worker' = [worker EXCEPT ![c].to = @ \ {n}, ![c].pc = IF worker[c].to = {n} THEN Continue ELSE @]
       /\ \/ Holding({n[1]}) = {} /\ UNCHANGED link
          \/ \E d \in Holding({n[1]}), ok \in BOOLEAN :
               ServerSends(d, [id |-> "INVOKE", meant |-> n[2]], ok)
  /\ UNCHANGED <<main, netclients, cds, client, left, history>>

\* Anything else ends the connection: a message before AUTH, a command outside a session.
InvalidPacket(c) ==
  /\ \/ ~worker[c].auth /\ \E id \in {"LOGON", "ADMIN_PASSWORD", "INVOKE"} : Receives(c, id)
     \/ ~worker[c].admin_password_verified /\ Receives(c, "INVOKE")
  /\ link' = Received(c)
  /\ worker' = [worker EXCEPT ![c].pc = "remove"]
  /\ UNCHANGED <<main, netclients, cds, client, left, history>>

\* EnterReceiveLoop finds the client's end closed, the network broken, or this end closed by
\* the main thread.
ConnectionEnded(c) ==
  /\ worker[c].pc = "recv"
  /\ \/ link[c].clientEnd = "closed" /\ link[c].up = <<>>
     \/ link[c].broken
     \/ link[c].serverEnd = "closed"

\* The loop over netclients ends with the first entry that matches.
IsFirstEntry(i, s) == netclients[i] = s /\ \A j \in 1 .. i - 1 : netclients[j] # s

EntryRemoved(s) ==
  \/ /\ \E i \in 1 .. Len(netclients) : IsFirstEntry(i, s) /\ netclients' = RemoveAt(netclients, i)
     /\ cds' = [cds EXCEPT ![s] = NoEntry]
  \/ s \notin ToSet(netclients) /\ UNCHANGED <<netclients, cds>>

RemoveEntry_Silently(c) ==
  /\ worker[c].pc = "remove" \/ ConnectionEnded(c)
  /\ EntryRemoved(worker[c].socket)
  /\ worker' = [worker EXCEPT ![c] = [NewWorker("close") EXCEPT !.socket = worker[c].socket]]
  /\ UNCHANGED <<main, link, client, left, history>>

\* Inside cs: the entry goes, and the list is sent to all the others, whoever fails.
RemoveEntry(c) ==
  /\ worker[c].pc = "remove" \/ ConnectionEnded(c)
  /\ EntryRemoved(worker[c].socket)
  /\ \E failed \in SUBSET {d \in Holding(ToSet(netclients')) : ~Alive(link[d])} :
       link' = [d \in Conns |-> IF d \in Holding(ToSet(netclients')) \ failed
                                  THEN SentDown(link[d], [id |-> "SPAWN_MACHINES", list |-> cds']) ELSE link[d]]
  /\ worker' = [worker EXCEPT ![c] = [NewWorker("close") EXCEPT !.socket = worker[c].socket]]
  /\ UNCHANGED <<main, client, left, history>>

CloseClient(c) ==
  /\ worker[c].pc = "close"
  /\ link' = [link EXCEPT ![c] = ServerEndClosed(@)]
  /\ worker' = [worker EXCEPT ![c] = NewWorker("gone")]
  /\ history' = [history EXCEPT !.unheard = @ \ {c}, !.ordered = {o \in @ : c \notin {o[1], o[2]}}]
  /\ UNCHANGED <<main, netclients, cds, client, left>>

-----------------------------------------------------------------------------
(* Client_Worker of client p. *)

signal_client_shutdown(p) == client[p].ui \in {"close", "await", "gone"}

\* The condition of the outer loop, tested again after each attempt and ten seconds of sleep.
TestShutdown(p) ==
  /\ client[p].cworker = "connect" /\ signal_client_shutdown(p)
  /\ client' = [client EXCEPT ![p].cworker = "gone"]
  /\ UNCHANGED <<main, netclients, cds, worker, link, left, history>>

\* The condition, Create and Connect: the connection waits for the server to accept it.  An
\* attempt that fails changes nothing.
Connect(p) ==
  LET c == <<p, client[p].last + 1>> IN
  /\ client[p].cworker = "connect" /\ ~signal_client_shutdown(p)
  /\ main \in {"run", "close"} /\ left.conns[p] > 0
  /\ client' = [client EXCEPT ![p].cworker = "auth", ![p].connected = TRUE, ![p].last = @ + 1]
  /\ link' = [link EXCEPT ![c].serverEnd = "open", ![c].clientEnd = "open"]
  /\ worker' = [worker EXCEPT ![c].pc = "backlog"]
  /\ left' = [left EXCEPT !.conns[p] = @ - 1]
  /\ UNCHANGED <<main, netclients, cds, history>>

\* The condition of the receive loop.
Inner(p) == IF signal_client_shutdown(p) THEN "close" ELSE "recv"

\* AUTH, then LOGON; a failure of either ends the thread.
Introduce(p) ==
  LET c == LastConn(p)
      l == link[c]
  IN
  /\ client[p].cworker = "auth"
  /\ \/ /\ client[p].connected
        /\ link' = [link EXCEPT ![c] = SentUp(SentUp(l, Message("AUTH")), Message("LOGON"))]
        /\ client' = [client EXCEPT ![p].cworker = Inner(p)]
     \/ /\ client[p].connected => ~Alive(l)
        /\ client' = [client EXCEPT ![p].cworker = "gone"]
        /\ UNCHANGED link
  /\ UNCHANGED <<main, netclients, cds, worker, left, history>>

\* EnterReceiveLoop returns a message with the id given.
Hears(p, id) ==
  LET l == link[LastConn(p)] IN
  /\ client[p].cworker = "recv" /\ client[p].connected /\ ~l.broken
  /\ l.down # <<>> /\ Head(l.down).id = id
  /\ link' = [link EXCEPT ![LastConn(p)].down = Tail(@)]

SpawnMachines_WholeMessage(p) ==
  /\ Hears(p, "SPAWN_MACHINES")
  /\ client' = [client EXCEPT ![p].cds = Head(link[LastConn(p)].down), ![p].signal_cds_update = TRUE,
                              ![p].cworker = Inner(p)]
  /\ UNCHANGED <<main, netclients, cds, worker, left, history>>

SpawnMachines(p) ==
  /\ Hears(p, "SPAWN_MACHINES")
  /\ client' = [client EXCEPT ![p].cds = Head(link[LastConn(p)].down).list, ![p].signal_cds_update = TRUE,
                              ![p].cworker = Inner(p)]
  /\ UNCHANGED <<main, netclients, cds, worker, left, history>>

\* The machine restarts, shuts down, logs off, or the user gets the message.
Execute(p) ==
  /\ Hears(p, "INVOKE")
  /\ client' = [client EXCEPT ![p].cworker = Inner(p)]
  /\ history' = [history EXCEPT !.ordered = {o \in @ : o[2] # LastConn(p)}]
  /\ UNCHANGED <<main, netclients, cds, worker, left>>

AdminPasswordOK(p) ==
  /\ Hears(p, "ADMIN_PASSWORD_OK")
  /\ client' = [client EXCEPT ![p].RespQueue = @ + 1, ![p].cworker = Inner(p)]
  /\ UNCHANGED <<main, netclients, cds, worker, left, history>>

\* The receive loop ends: the server has closed its end, the network failed, the other thread
\* has closed this one, or the client shuts down.
Close(p) ==
  /\ \/ client[p].cworker = "close"
     \/ /\ client[p].cworker = "recv"
        /\ client[p].connected =>
             LET l == link[LastConn(p)] IN l.broken \/ (l.serverEnd = "closed" /\ l.down = <<>>)
  /\ client' = [client EXCEPT ![p].cworker = "connect", ![p].connected = FALSE]
  /\ link' = Closed(p)
  /\ UNCHANGED <<main, netclients, cds, worker, left, history>>

-----------------------------------------------------------------------------
(* The main message queue thread of client p, with the dialogs. *)

\* The right password of a try that is no longer waited for is still to be answered.
AnswerUnderWay(p) ==
  /\ client[p].connected
  /\ LET l == link[LastConn(p)] IN
       \/ \E i \in DOMAIN l.up : l.up[i].pw = "right"
       \/ \E i \in DOMAIN l.down : l.down[i].id = "ADMIN_PASSWORD_OK"

\* Whether the server will still hear of the session's end when the client thinks it has none.
Heard(c, pw) == IF pw = "right" THEN history.unheard ELSE history.unheard \ {c}

EnterPassword_QueueKept(p) ==
  /\ client[p].ui = "run" /\ p \in Admins /\ left.tries > 0
  /\ left' = [left EXCEPT !.tries = @ - 1]
  /\ \E pw \in {"right", "wrong"}, ok \in BOOLEAN :
       /\ ClientSends(p, Password(pw), ok)
       /\ client' = [client EXCEPT ![p].ui = IF ok THEN "wait" ELSE "run", ![p].tried = IF ok THEN pw ELSE "none"]
       /\ history' = [history EXCEPT !.late = IF AnswerUnderWay(p) THEN @ \cup {p} ELSE @ \ {p},
                                     !.unheard = IF ok THEN Heard(LastConn(p), pw) ELSE @]
  /\ UNCHANGED <<main, netclients, cds, worker>>

\* The password dialog, opened from the tray menu: EnterPW_IsPWCorrect up to the loop.  The queue is cleared, the password sent.
EnterPassword(p) ==
  /\ client[p].ui = "run" /\ p \in Admins /\ left.tries > 0
  /\ left' = [left EXCEPT !.tries = @ - 1]
  /\ \E pw \in {"right", "wrong"}, ok \in BOOLEAN :
       /\ ClientSends(p, Password(pw), ok)
       /\ client' = [client EXCEPT ![p].ui = IF ok THEN "wait" ELSE "run", ![p].tried = IF ok THEN pw ELSE "none",
                                   ![p].RespQueue = 0]
       /\ history' = [history EXCEPT !.late = IF AnswerUnderWay(p) THEN @ \cup {p} ELSE @ \ {p},
                                     !.unheard = IF ok THEN Heard(LastConn(p), pw) ELSE @]
  /\ UNCHANGED <<main, netclients, cds, worker>>

\* SearchAndRemove finds an answer; the main dialog opens.
Unlock(p) ==
  /\ client[p].ui = "wait" /\ client[p].RespQueue > 0
  /\ client' = [client EXCEPT ![p].ui = "main", ![p].RespQueue = @ - 1, ![p].tried = "none",
                              ![p].signal_cds_update = TRUE]
  /\ UNCHANGED <<main, netclients, cds, worker, link, left, history>>

\* CONNECTION_TIMEOUT: incorrect password or server unavailable.
GiveUp(p) ==
  /\ client[p].ui = "wait" /\ client[p].RespQueue = 0
  /\ client' = [client EXCEPT ![p].ui = "run", ![p].tried = "none"]
  /\ history' = [history EXCEPT !.unheard = IF AnswerUnderWay(p) THEN @ \cup {LastConn(p)} ELSE @]
  /\ UNCHANGED <<main, netclients, cds, worker, link, left>>

\* The timer of the main dialog, which also runs behind the confirmation box.
UpdateList(p) ==
  /\ client[p].ui \in {"main", "confirm"} /\ client[p].signal_cds_update
  /\ client' = [client EXCEPT ![p].shown = client[p].cds, ![p].signal_cds_update = FALSE]
  /\ UNCHANGED <<main, netclients, cds, worker, link, left, history>>

\* A button: the NetIDs of the selected entries are read before the user is asked.
Press(p) ==
  /\ client[p].ui = "main" /\ left.commands > 0
  /\ \E sel \in SUBSET {n \in NetIDs : client[p].shown[n[1]] = n[2]} :
       sel # {} /\ client' = [client EXCEPT ![p].ui = "confirm", ![p].picked = sel]
  /\ left' = [left EXCEPT !.commands = @ - 1]
  /\ UNCHANGED <<main, netclients, cds, worker, link, history>>

Decline(p) ==
  /\ client[p].ui = "confirm"
  /\ client' = [client EXCEPT ![p].ui = "main", ![p].picked = {}]
  /\ UNCHANGED <<main, netclients, cds, worker, link, left, history>>

\* The session is open and nothing under way will close it.
InSession(p) ==
  LET c == LastConn(p) IN
  /\ client[p].connected /\ Alive(link[c])
  /\ worker[c].pc = "recv" /\ worker[c].admin_password_verified /\ link[c].up = <<>>

\* UI_Send_Command, which waits for a connection no longer than CONNECTION_TIMEOUT.
Confirm(p) ==
  /\ client[p].ui = "confirm"
  /\ \E ok \in BOOLEAN :
       ClientSends(p, Command(client[p].picked), ok)
  /\ client' = [client EXCEPT ![p].ui = "main", ![p].picked = {}]
  /\ history' = [history EXCEPT !.ordered =
                   IF InSession(p) THEN @ \cup ({LastConn(p)} \X Holding({n[1] : n \in client[p].picked})) ELSE @]
  /\ UNCHANGED <<main, netclients, cds, worker, left>>

\* WM_CLOSE: a wrong password ends the session.
CloseMain(p) ==
  /\ client[p].ui = "main"
  /\ \E ok \in BOOLEAN :
       /\ ClientSends(p, Password("wrong"), ok)
       /\ history' = [history EXCEPT !.unheard = IF ok THEN Heard(LastConn(p), "wrong") ELSE @]
  /\ client' = [client EXCEPT ![p].ui = "run", ![p].shown = Empty]
  /\ UNCHANGED <<main, netclients, cds, worker, left>>

\* WM_QUIT, posted by the destructor, also ends the dialogs; the wait for the answer does not
\* look at messages.  The server is not told.
Quit(p) ==
  /\ client[p].ui \in {"run", "main", "confirm"} /\ left.quits > 0
  /\ client' = [client EXCEPT ![p].ui = "close", ![p].shown = Empty, ![p].picked = {}]
  /\ left' = [left EXCEPT !.quits = @ - 1]
  /\ UNCHANGED <<main, netclients, cds, worker, link, history>>

\* Interrupts the receive loop.
Interrupt(p) ==
  /\ client[p].ui = "close"
  /\ client' = [client EXCEPT ![p].ui = "await", ![p].connected = FALSE]
  /\ link' = Closed(p)
  /\ UNCHANGED <<main, netclients, cds, worker, left, history>>

AwaitShutdown(p) ==
  /\ client[p].ui = "await" /\ client[p].cworker = "gone"
  /\ client' = [client EXCEPT ![p].ui = "gone"]
  /\ UNCHANGED <<main, netclients, cds, worker, link, left, history>>

\* The network loses a connection, with what is under way on it.
Break(c) ==
  /\ Alive(link[c]) /\ left.breaks > 0
  /\ link' = [link EXCEPT ![c].broken = TRUE, ![c].up = <<>>, ![c].down = <<>>]
  /\ left' = [left EXCEPT !.breaks = @ - 1]
  /\ UNCHANGED <<main, netclients, cds, worker, client, history>>

-----------------------------------------------------------------------------
MainThread == (\E c \in Conns : Accept(c)) \/ CloseAll \/ AwaitWorkers

WorkerThread(c) ==
  \/ Authenticate(c) \/ Logon(c) \/ AdminPassword(c) \/ Invoke(c) \/ Forward(c)
  \/ InvalidPacket(c) \/ RemoveEntry(c) \/ CloseClient(c)

ClientWorker(p) ==
  \/ TestShutdown(p) \/ Connect(p) \/ Introduce(p)
  \/ SpawnMachines(p) \/ Execute(p) \/ AdminPasswordOK(p) \/ Close(p)

MessageQueue(p) ==
  \/ EnterPassword(p) \/ Unlock(p) \/ GiveUp(p) \/ UpdateList(p) \/ Press(p) \/ Decline(p) \/ Confirm(p)
  \/ CloseMain(p) \/ Quit(p) \/ Interrupt(p) \/ AwaitShutdown(p)

Next ==
  \/ Stop \/ MainThread
  \/ \E c \in Conns : WorkerThread(c) \/ Break(c)
  \/ \E p \in Clients : ClientWorker(p) \/ MessageQueue(p)

Spec == Init /\ [][Next]_vars

-----------------------------------------------------------------------------
\* Nothing is left to be done for connection c.
Settled(c) ==
  \/ worker[c].pc \in {"none", "gone"}
  \/ /\ worker[c].pc = "recv" /\ Alive(link[c]) /\ link[c].up = <<>>
     /\ cds[worker[c].socket] # Unnamed

\* When everything has been heard, every client's list, and the list its open dialog shows, is
\* the server's: a broadcast that ended at a lost connection is made good when the entry of
\* that connection is removed.
ListsConverge ==
  main = "run" /\ (\A c \in Conns : Settled(c)) =>
    \A p \in Clients :
      client[p].cworker = "recv" /\ Alive(link[LastConn(p)]) /\ link[LastConn(p)].down = <<>> =>
        /\ client[p].cds = cds
        /\ client[p].ui \in {"main", "confirm"} /\ ~client[p].signal_cds_update => client[p].shown = cds

\* A session ends with the main dialog: a worker that has heard everything serves an
\* administrator only while his dialog is open, unless he gave up before the answer came.
SessionEndsWithDialog ==
  \A c \in Conns :
    worker[c].admin_password_verified /\ worker[c].pc = "recv" /\ Alive(link[c]) /\ link[c].up = <<>> =>
      client[c[1]].ui # "run" \/ c \in history.unheard

\* The main dialog opens for the right password only: "Clear Response Queue. This avoids old
\* authentication acks to be present", unless the old answer was still under way then.
UnlockMeansPassword ==
  [][\A p \in Clients : Unlock(p) => client[p].tried = "right" \/ p \in history.late]_vars

\* A command sent in a session is executed at each selected connection, and by the client whose
\* name the administrator selected, unless the entry had no name yet or its SOCKET value had
\* belonged to another connection before (Server_Worker, MainDlg_WndProc).  None is outstanding when both ends have
\* heard everything, unless the connection or that of the administrator ends, or the service stops.
CommandsReachWhomTheyName ==
  /\ [](\A o \in history.ordered :
          /\ main = "run" /\ Alive(link[o[1]]) /\ Alive(link[o[2]])
          /\ worker[o[1]].pc = "recv" /\ link[o[1]].up = <<>>
          => link[o[2]].down # <<>>)
  /\ [][\A p \in Clients :
          Execute(p) =>
            \/ Head(link[LastConn(p)].down).meant \in {p, Unnamed}
            \/ LastConn(p) \in history.reused]_vars
=============================================================================
