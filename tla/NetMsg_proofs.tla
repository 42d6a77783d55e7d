---------------------------- MODULE NetMsg_proofs ----------------------------
(***************************************************************************)
(* For every number of clients, connections and SOCKET values, in every    *)
(* interleaving of the threads of the server and of the clients, whatever  *)
(* the network loses and whenever the service or a client ends.            *)
(*                                                                         *)
(* The inductive invariant Inv says of each property what has to hold of   *)
(* the messages under way for it to hold when they have arrived: what the  *)
(* last list among them is (Spread), whether the last password among them  *)
(* opens a session (Sessions), whether an answer is among them (Answers),  *)
(* where a command is (Ordered), and that a name never stands for a SOCKET *)
(* value which has been another client's (Addressed).  Phases and Entries  *)
(* tie workers, connections, entries and clients to one another.           *)
(***************************************************************************)
EXTENDS NetMsg, SequenceLemmas, TLAPS

\* Workers that have an entry, and those that still receive.
Listed(c) == worker[c].pc \in {"recv", "forward", "remove"}
Serving(c) == worker[c].pc \in {"recv", "forward"}

\* A connection exists from the moment its client makes it, and its client's end is the
\* csocket the client has.
Phases ==
  /\ \A p \in Clients :
       /\ client[p].last + left.conns[p] <= MaxConns[p]
       /\ client[p].cworker = "connect" => ~client[p].connected
       /\ client[p].connected \/ client[p].cworker \in {"auth", "recv", "close"} => client[p].last >= 1
  /\ \A c \in Conns :
       /\ worker[c].pc = "none" <=> c[2] > client[c[1]].last
       /\ worker[c].pc = "none" => link[c] = NewLink
       /\ worker[c].pc \in {"none", "backlog", "gone"} <=> worker[c].socket = NoEntry
       /\ worker[c].admin_password_verified => worker[c].auth
       /\ worker[c].auth => Listed(c)
       /\ worker[c].pc = "gone" => link[c].serverEnd = "closed"
       /\ worker[c].pc \notin {"none", "gone"} /\ main \in {"run", "close"} => link[c].serverEnd = "open"
       /\ link[c].clientEnd = "open" <=> client[c[1]].connected /\ c[2] = client[c[1]].last

\* No two connections have the same SOCKET value, and netclients has those of the listed ones.
Entries ==
  /\ \A c, d \in Conns : worker[c].socket = worker[d].socket /\ worker[c].socket # NoEntry => c = d
  /\ \A c \in Conns : Listed(c) => \E i \in 1 .. Len(netclients) : netclients[i] = worker[c].socket
  /\ main = "run" => \A i \in 1 .. Len(netclients) : \E c \in Conns : Listed(c) /\ worker[c].socket = netclients[i]
  /\ \A i, j \in 1 .. Len(netclients) : netclients[i] = netclients[j] => i = j
  /\ \A c \in Conns : worker[c].socket # NoEntry => worker[c].socket \in history.given

\* A name may stand beside a SOCKET value: whoever has the value has the name, or had to be
\* given a value that was used before.
Good(s, name) ==
  \/ name \in {NoEntry, Unnamed}
  \/ /\ s \in history.given
     /\ \A d \in Conns : worker[d].socket = s => d[1] = name \/ d \in history.reused

GoodList(l) == \A s \in Sockets : Good(s, l[s])
GoodIDs(N) == \A n \in N : Good(n[1], n[2])
GoodUp(m) == GoodIDs(m.to) /\ (m.pw # "none" => m.id = "ADMIN_PASSWORD")
GoodDown(c, m) ==
  /\ m.id = "SPAWN_MACHINES" => GoodList(m.list)
  /\ m.id = "INVOKE" => m.meant \in {c[1], Unnamed} \/ c \in history.reused

Addressed ==
  /\ GoodList(cds)
  /\ \A p \in Clients : GoodList(client[p].cds) /\ GoodList(client[p].shown) /\ GoodIDs(client[p].picked)
  /\ \A c \in Conns :
       /\ GoodIDs(worker[c].to)
       /\ \A m \in ToSet(link[c].up) : GoodUp(m)
       /\ \A m \in ToSet(link[c].down) : GoodDown(c, m)

\* A dialog that waits has no answer but to its own password.
Answered(p) ==
  client[p].ui = "wait" /\ p \notin history.late /\ client[p].tried # "right" =>
    client[p].RespQueue = 0 /\ ~AnswerUnderWay(p)

Answers == \A p \in Clients : Answered(p)

\* The server will take connection c for an administrator's when it has received all of up.
Verifies(up, v) ==
  \/ v /\ \A i \in 1 .. Len(up) : up[i].pw = "none"
  \/ \E i \in 1 .. Len(up) : up[i].pw = "right" /\ \A j \in i + 1 .. Len(up) : up[j].pw = "none"

Attended(c) ==
  /\ Alive(link[c]) /\ Verifies(link[c].up, worker[c].admin_password_verified) /\ c \notin history.unheard
  /\ worker[c].pc \in {"backlog", "recv", "forward"}
  => LET p == c[1] IN
     \/ client[p].ui \in {"main", "confirm", "close", "await", "gone"}
     \/ client[p].ui = "wait" /\ (client[p].RespQueue > 0 \/ AnswerUnderWay(p))

Sessions == \A c \in Conns : Attended(c)

\* A command that is not lost is under way to its client, or to the server, or being forwarded.
Outstanding(c, d) ==
  \/ \E m \in ToSet(link[d].down) : m.id = "INVOKE"
  \/ /\ worker[c].pc = "recv" /\ worker[c].admin_password_verified /\ link[c].up # <<>>
     /\ link[c].up[1].id = "INVOKE" /\ \E n \in link[c].up[1].to : n[1] = worker[d].socket
  \/ worker[c].pc = "forward" /\ \E n \in worker[c].to : n[1] = worker[d].socket

Ordered ==
  \A o \in history.ordered :
    /\ worker[o[1]].pc \notin {"none", "backlog"} /\ worker[o[2]].pc \notin {"none", "backlog", "gone"}
    /\ main = "run" /\ Alive(link[o[1]]) /\ Alive(link[o[2]]) /\ Serving(o[1]) => Outstanding(o[1], o[2])

\* What a client's list will be when it has received all of down.
Learns(down, copy, v) ==
  \/ (\A i \in 1 .. Len(down) : down[i].id # "SPAWN_MACHINES") /\ copy = v
  \/ \E i \in 1 .. Len(down) : /\ down[i].id = "SPAWN_MACHINES" /\ down[i].list = v
                               /\ \A j \in i + 1 .. Len(down) : down[j].id # "SPAWN_MACHINES"

\* Connection c will make the server send its list again.
Disturbs(c) == Listed(c) /\ (~Alive(link[c]) \/ worker[c].pc = "remove" \/ cds[worker[c].socket] = Unnamed)

Shows(p) ==
  client[p].ui \in {"main", "confirm"} /\ ~client[p].signal_cds_update => client[p].shown = client[p].cds

Spread ==
  /\ main = "run" /\ (\A c \in Conns : ~Disturbs(c)) =>
       \A d \in Conns : Alive(link[d]) /\ Serving(d) => Learns(link[d].down, client[d[1]].cds, cds)
  /\ \A p \in Clients : Shows(p)

Inv == TypeOK /\ Phases /\ Entries /\ Addressed /\ Answers /\ Sessions /\ Ordered /\ Spread

\* What a connection is, and what the assumption says of the constants.
LEMMA ConnsAre ==
  /\ \A c \in Conns : c[1] \in Clients /\ c[2] \in 1 .. MaxConns[c[1]] /\ c = <<c[1], c[2]>>
  /\ \A p \in Clients, n \in Nat : n >= 1 /\ n <= MaxConns[p] => <<p, n>> \in Conns
  /\ \A p \in Clients : MaxConns[p] \in Nat
  BY NetMsgAssumption DEF Conns

LEMMA NamesAre ==
  /\ Unnamed # NoEntry /\ NoEntry \notin Sockets /\ NoEntry \notin Clients
  /\ Unnamed \notin Clients
  /\ Empty \in Lists /\ \A s \in Sockets : Empty[s] = NoEntry
  BY NetMsgAssumption DEF Empty, Lists

LEMMA MessagesAre ==
  /\ \A id \in {"AUTH", "LOGON", "ADMIN_PASSWORD", "INVOKE"} :
       /\ Message(id) \in ToServer /\ Message(id).id = id /\ Message(id).pw = "none" /\ Message(id).to = {}
  /\ \A pw \in {"right", "wrong"} :
       /\ Password(pw) \in ToServer /\ Password(pw).id = "ADMIN_PASSWORD" /\ Password(pw).pw = pw
       /\ Password(pw).to = {}
  /\ \A to \in SUBSET NetIDs :
       /\ Command(to) \in ToServer /\ Command(to).id = "INVOKE" /\ Command(to).pw = "none" /\ Command(to).to = to
  BY DEF Message, Password, Command, ToServer

\* The connection of a client.
LEMMA LastConnIs ==
  ASSUME Inv, NEW p \in Clients, client[p].last >= 1
  PROVE  /\ LastConn(p) \in Conns /\ LastConn(p)[1] = p /\ LastConn(p)[2] = client[p].last
         /\ worker[LastConn(p)].pc # "none"
         /\ \A c \in Conns : c[1] = p /\ link[c].clientEnd = "open" => c = LastConn(p)
<1>1. client[p].last \in Nat /\ client[p].last <= MaxConns[p] /\ left.conns[p] \in Nat
  BY ConnsAre DEF Inv, TypeOK, Client, Phases
<1>2. LastConn(p) \in Conns /\ LastConn(p)[1] = p /\ LastConn(p)[2] = client[p].last
  BY <1>1, ConnsAre DEF LastConn
<1>3. worker[LastConn(p)].pc # "none"
  BY <1>1, <1>2 DEF Inv, Phases
<1>4. ASSUME NEW c \in Conns, c[1] = p, link[c].clientEnd = "open" PROVE c = LastConn(p)
  <2>1. c[2] = client[p].last /\ c = <<c[1], c[2]>>
    BY <1>4, ConnsAre DEF Inv, Phases
  <2>2. QED
    BY <1>4, <2>1 DEF LastConn
<1>5. QED
  BY <1>2, <1>3, <1>4

-----------------------------------------------------------------------------
(* Queues. *)

LEMMA VerifiesLess ==
  ASSUME NEW q \in Seq(ToServer), NEW m \in ToServer, NEW v, Verifies(Append(q, m), v)
  PROVE  m.pw # "wrong" /\ (m.pw = "none" => Verifies(q, v))
<1> DEFINE r == Append(q, m)
<1>1. /\ Len(r) = Len(q) + 1 /\ Len(q) \in Nat /\ r[Len(q) + 1] = m
      /\ \A i \in 1 .. Len(q) : r[i] = q[i]
  BY Appended
<1>2. Verifies(r, v)
  OBVIOUS
<1> HIDE DEF r
<1>3. CASE v /\ \A i \in 1 .. Len(r) : r[i].pw = "none"
  <2>1. m.pw = "none"
    BY <1>1, <1>3
  <2>2. \A i \in 1 .. Len(q) : q[i].pw = "none"
    BY <1>1, <1>3
  <2>3. QED
    BY <1>3, <2>1, <2>2 DEF Verifies
<1>4. CASE \E i \in 1 .. Len(r) : r[i].pw = "right" /\ \A j \in i + 1 .. Len(r) : r[j].pw = "none"
  <2>1. PICK i \in 1 .. Len(r) : r[i].pw = "right" /\ \A j \in i + 1 .. Len(r) : r[j].pw = "none"
    BY <1>4
  <2>2. CASE i = Len(q) + 1
    BY <1>1, <2>1, <2>2
  <2>3. CASE i \in 1 .. Len(q)
    <3>1. m.pw = "none"
      BY <1>1, <2>1, <2>3
    <3>2. \A j \in i + 1 .. Len(q) : q[j].pw = "none"
      BY <1>1, <2>1, <2>3
    <3>3. q[i].pw = "right"
      BY <1>1, <2>1, <2>3
    <3>4. QED
      BY <2>3, <3>1, <3>2, <3>3 DEF Verifies
  <2>4. QED
    BY <1>1, <2>2, <2>3
<1>5. QED
  BY <1>2, <1>3, <1>4 DEF Verifies

LEMMA VerifiesBefore ==
  ASSUME NEW q \in Seq(ToServer), q # <<>>, NEW v, NEW w, Verifies(Tail(q), w),
         w => Head(q).pw = "right" \/ (v /\ Head(q).pw = "none")
  PROVE  Verifies(q, v)
<1> DEFINE r == Tail(q)
<1>1. /\ Head(q) = q[1] /\ Len(q) \in Nat /\ Len(q) >= 1 /\ Len(r) = Len(q) - 1
      /\ \A i \in 1 .. Len(q) - 1 : r[i] = q[i + 1]
  BY Taken
<1>2. Verifies(r, w)
  OBVIOUS
<1> HIDE DEF r
<1>3. CASE w /\ \A i \in 1 .. Len(r) : r[i].pw = "none"
  <2>1. \A i \in 2 .. Len(q) : q[i].pw = "none"
    <3> TAKE i \in 2 .. Len(q)
    <3>1. i - 1 \in 1 .. Len(r) /\ i - 1 \in 1 .. Len(q) - 1 /\ i - 1 + 1 = i
      BY <1>1
    <3>2. QED
      BY <1>1, <1>3, <3>1
  <2>2. CASE q[1].pw = "right"
    BY <1>1, <2>1, <2>2 DEF Verifies
  <2>3. CASE v /\ q[1].pw = "none"
    <3>1. \A i \in 1 .. Len(q) : q[i].pw = "none"
      BY <1>1, <2>1, <2>3
    <3>2. QED
      BY <2>3, <3>1 DEF Verifies
  <2>4. QED
    BY <1>1, <1>3, <2>2, <2>3
<1>4. CASE \E i \in 1 .. Len(r) : r[i].pw = "right" /\ \A j \in i + 1 .. Len(r) : r[j].pw = "none"
  <2>1. PICK i \in 1 .. Len(r) : r[i].pw = "right" /\ \A j \in i + 1 .. Len(r) : r[j].pw = "none"
    BY <1>4
  <2>2. i + 1 \in 1 .. Len(q) /\ q[i + 1].pw = "right"
    BY <1>1, <2>1
  <2>3. \A j \in i + 2 .. Len(q) : q[j].pw = "none"
    <3> TAKE j \in i + 2 .. Len(q)
    <3>1. j - 1 \in i + 1 .. Len(r) /\ j - 1 \in 1 .. Len(q) - 1 /\ j - 1 + 1 = j
      BY <1>1, <2>1
    <3>2. QED
      BY <1>1, <2>1, <3>1
  <2>4. QED
    BY <2>1, <2>2, <2>3 DEF Verifies
<1>5. QED
  BY <1>2, <1>3, <1>4 DEF Verifies

LEMMA LearnsMore ==
  ASSUME NEW q \in Seq(ToClient), NEW m \in ToClient, NEW copy, NEW v,
         IF m.id = "SPAWN_MACHINES" THEN m.list = v ELSE Learns(q, copy, v)
  PROVE  Learns(Append(q, m), copy, v)
<1> DEFINE r == Append(q, m)
<1>1. /\ Len(r) = Len(q) + 1 /\ Len(q) \in Nat /\ r[Len(q) + 1] = m
      /\ \A i \in 1 .. Len(q) : r[i] = q[i]
  BY Appended
<1> HIDE DEF r
<1>2. CASE m.id = "SPAWN_MACHINES"
  <2>1. Len(q) + 1 \in 1 .. Len(r) /\ \A j \in Len(q) + 2 .. Len(r) : FALSE
    BY <1>1
  <2>2. Learns(r, copy, v)
    BY <1>1, <1>2, <2>1 DEF Learns
  <2>3. QED
    BY <2>2 DEF r
<1>3. CASE m.id # "SPAWN_MACHINES"
  <2>1. CASE (\A i \in 1 .. Len(q) : q[i].id # "SPAWN_MACHINES") /\ copy = v
    <3>1. \A i \in 1 .. Len(r) : r[i].id # "SPAWN_MACHINES"
      BY <1>1, <1>3, <2>1
    <3>2. QED
      BY <2>1, <3>1 DEF Learns, r
  <2>2. CASE \E i \in 1 .. Len(q) : /\ q[i].id = "SPAWN_MACHINES" /\ q[i].list = v
                                    /\ \A j \in i + 1 .. Len(q) : q[j].id # "SPAWN_MACHINES"
    <3>1. PICK i \in 1 .. Len(q) : /\ q[i].id = "SPAWN_MACHINES" /\ q[i].list = v
                                   /\ \A j \in i + 1 .. Len(q) : q[j].id # "SPAWN_MACHINES"
      BY <2>2
    <3>2. i \in 1 .. Len(r) /\ r[i] = q[i]
      BY <1>1, <3>1
    <3>3. \A j \in i + 1 .. Len(r) : r[j].id # "SPAWN_MACHINES"
      BY <1>1, <1>3, <3>1
    <3>4. QED
      BY <3>1, <3>2, <3>3 DEF Learns, r
  <2>3. QED
    BY <1>3, <2>1, <2>2 DEF Learns
<1>4. QED
  BY <1>2, <1>3

LEMMA LearnsTaken ==
  ASSUME NEW q \in Seq(ToClient), q # <<>>, NEW copy, NEW new, NEW v, Learns(q, copy, v),
         new = IF Head(q).id = "SPAWN_MACHINES" THEN Head(q).list ELSE copy
  PROVE  Learns(Tail(q), new, v)
<1> DEFINE r == Tail(q)
<1>1. /\ Head(q) = q[1] /\ Len(q) \in Nat /\ Len(q) >= 1 /\ Len(r) = Len(q) - 1
      /\ \A i \in 1 .. Len(q) - 1 : r[i] = q[i + 1]
  BY Taken
<1> HIDE DEF r
<1>2. ASSUME \A i \in 2 .. Len(q) : q[i].id # "SPAWN_MACHINES", new = v PROVE Learns(r, new, v)
  <2>1. \A i \in 1 .. Len(r) : r[i].id # "SPAWN_MACHINES"
    BY <1>1, <1>2
  <2>2. QED
    BY <1>2, <2>1 DEF Learns
<1>3. CASE (\A i \in 1 .. Len(q) : q[i].id # "SPAWN_MACHINES") /\ copy = v
  BY <1>1, <1>2, <1>3 DEF r
<1>4. CASE \E i \in 1 .. Len(q) : /\ q[i].id = "SPAWN_MACHINES" /\ q[i].list = v
                                  /\ \A j \in i + 1 .. Len(q) : q[j].id # "SPAWN_MACHINES"
  <2>1. PICK i \in 1 .. Len(q) : /\ q[i].id = "SPAWN_MACHINES" /\ q[i].list = v
                                 /\ \A j \in i + 1 .. Len(q) : q[j].id # "SPAWN_MACHINES"
    BY <1>4
  <2>2. CASE i = 1
    <3>1. \A j \in 2 .. Len(q) : q[j].id # "SPAWN_MACHINES"
      BY <2>1, <2>2
    <3>2. new = v
      BY <1>1, <2>1, <2>2
    <3>3. QED
      BY <1>2, <3>1, <3>2 DEF r
  <2>3. CASE i # 1
    <3>1. i - 1 \in 1 .. Len(r) /\ r[i - 1] = q[i]
      BY <1>1, <2>1, <2>3
    <3>2. \A j \in i .. Len(r) : r[j].id # "SPAWN_MACHINES"
      BY <1>1, <2>1
    <3>3. i - 1 + 1 = i
      BY <2>1
    <3>4. Learns(r, new, v)
      BY <2>1, <3>1, <3>2, <3>3 DEF Learns
    <3>5. QED
      BY <3>4 DEF r
  <2>4. QED
    BY <2>2, <2>3
<1>5. QED
  BY <1>3, <1>4 DEF Learns

\* The answer that is under way is in one of the two queues.
LEMMA AnswerIs ==
  ASSUME NEW p
  PROVE  AnswerUnderWay(p) <=>
           /\ client[p].connected
           /\ \/ \E m \in ToSet(link[LastConn(p)].up) : m.pw = "right"
              \/ \E m \in ToSet(link[LastConn(p)].down) : m.id = "ADMIN_PASSWORD_OK"
BY DEF AnswerUnderWay, ToSet

-----------------------------------------------------------------------------
LEMMA NewLinkIs ==
  /\ NewLink \in Link /\ NewLink.up = <<>> /\ NewLink.down = <<>> /\ ~Alive(NewLink)
  /\ ToSet(NewLink.up) = {} /\ ToSet(NewLink.down) = {}
  /\ NewLink.serverEnd = "none" /\ NewLink.clientEnd = "none" /\ ~NewLink.broken
<1>1. NewLink \in Link /\ NewLink.up = <<>> /\ NewLink.down = <<>> /\ ~Alive(NewLink)
  BY EmptySeq DEF NewLink, Link, Alive
<1>2. ToSet(<<>>) = {}
  BY DEF ToSet
<1>3. QED
  BY <1>1, <1>2 DEF NewLink

LEMMA InitHolds == Init => Inv
<1> SUFFICES ASSUME Init PROVE Inv
  OBVIOUS
<1>1. /\ main = "run" /\ netclients = <<>> /\ Len(netclients) = 0 /\ cds = Empty
      /\ \A c \in Conns : worker[c] = NewWorker("none") /\ link[c] = NewLink
      /\ \A p \in Clients : client[p] =
           [ui |-> "run", tried |-> "none", cworker |-> "connect", connected |-> FALSE, last |-> 0,
            RespQueue |-> 0, cds |-> Empty, signal_cds_update |-> FALSE, shown |-> Empty, picked |-> {}]
      /\ history = [late |-> {}, unheard |-> {}, given |-> {}, reused |-> {}, ordered |-> {}]
  BY DEF Init
<1>2. \A pc \in {"none", "gone"} :
        /\ NewWorker(pc) \in Worker /\ NewWorker(pc).pc = pc /\ NewWorker(pc).socket = NoEntry
        /\ ~NewWorker(pc).auth /\ ~NewWorker(pc).admin_password_verified /\ NewWorker(pc).to = {}
  BY DEF NewWorker, Worker
<1>3. /\ left \in [tries : Nat, commands : Nat, breaks : Nat, quits : Nat, stops : Nat, conns : [Clients -> Nat]]
      /\ \A p \in Clients : left.conns[p] <= MaxConns[p] /\ left.conns[p] \in Nat
  BY NetMsgAssumption DEF Init
<1>4. TypeOK
  <2>1. worker \in [Conns -> Worker] /\ link \in [Conns -> Link]
    BY <1>2, NewLinkIs DEF Init
  <2>2. client \in [Clients -> Client]
    <3>1. [ui |-> "run", tried |-> "none", cworker |-> "connect", connected |-> FALSE, last |-> 0,
           RespQueue |-> 0, cds |-> Empty, signal_cds_update |-> FALSE, shown |-> Empty, picked |-> {}] \in Client
      BY NamesAre DEF Client
    <3>2. QED
      BY <3>1 DEF Init
  <2>3. netclients \in Seq(Sockets)
    BY <1>1, EmptySeq
  <2>4. QED
    BY <1>1, <1>3, <2>1, <2>2, <2>3, NamesAre DEF TypeOK
<1>5. Phases
  <2>1. \A c \in Conns : c[2] > 0 /\ c[1] \in Clients
    BY ConnsAre
  <2>2. \A p \in Clients : client[p].last = 0 /\ client[p].cworker = "connect" /\ ~client[p].connected
    BY <1>1
  <2>3. \A p \in Clients : client[p].last + left.conns[p] <= MaxConns[p]
    BY <1>3, <2>2
  <2>4. QED
    BY <1>1, <1>2, <2>1, <2>2, <2>3, NewLinkIs DEF Phases, Listed
<1>6. Entries
  BY <1>1, <1>2 DEF Entries, Listed
<1>7. Addressed
  BY <1>1, <1>2, NamesAre, NewLinkIs, ConnsAre DEF Addressed, GoodList, Good, GoodIDs
<1>8. Answers /\ Sessions /\ Ordered
  BY <1>1, <1>2, NewLinkIs DEF Answers, Answered, Sessions, Attended, Ordered
<1>9. Spread
  BY <1>1, <1>2, NewLinkIs DEF Spread, Shows
<1>10. QED
  BY <1>4, <1>5, <1>6, <1>7, <1>8, <1>9 DEF Inv

\* No connection gets the SOCKET value of another unnoticed: what was good stays so.
Noticed ==
  /\ history.given \subseteq history'.given /\ history.reused \subseteq history'.reused
  /\ \A d \in Conns : \/ worker'[d].socket = worker[d].socket
                      \/ worker'[d].socket \in history.given => d \in history'.reused

LEMMA GoodStays ==
  ASSUME Noticed
  PROVE  /\ \A s, name : Good(s, name) => Good(s, name)'
         /\ \A l : GoodList(l) => GoodList(l)'
         /\ \A N : GoodIDs(N) => GoodIDs(N)'
         /\ \A m : GoodUp(m) => GoodUp(m)'
         /\ \A c, m : GoodDown(c, m) => GoodDown(c, m)'
<1>1. \A s, name : Good(s, name) => Good(s, name)'
  BY DEF Noticed, Good
<1>2. /\ \A l : GoodList(l) => GoodList(l)'
      /\ \A N : GoodIDs(N) => GoodIDs(N)'
  BY <1>1 DEF GoodList, GoodIDs
<1>3. \A m : GoodUp(m) => GoodUp(m)'
  BY <1>2 DEF GoodUp
<1>4. \A c, m : GoodDown(c, m) => GoodDown(c, m)'
  BY <1>2 DEF Noticed, GoodDown
<1>5. QED
  BY <1>1, <1>2, <1>3, <1>4

-----------------------------------------------------------------------------
(* The threads of a client, as long as they use the same connection. *)

\* A connection on which its client has sent.
Upped(l, k) ==
  /\ k.down = l.down /\ k.serverEnd = l.serverEnd /\ k.clientEnd = l.clientEnd
  /\ l.broken => k.broken
  /\ l.up # <<>> => k.up # <<>> /\ k.up[1] = l.up[1]
  /\ \A m \in ToSet(l.up) : m \in ToSet(k.up)

\* What a send of client p changes, by its outcome.
LEMMA SendIs ==
  ASSUME Inv, NEW p \in Clients, NEW m \in ToServer, NEW ok \in BOOLEAN, ClientSends(p, m, ok)
  PROVE  /\ link' \in [Conns -> Link]
         /\ \A c \in Conns : link'[c] = link[c] \/ (client[p].connected /\ c = LastConn(p))
         /\ ok => client[p].connected
         /\ client[p].connected =>
              LET l == link[LastConn(p)]
                  k == link'[LastConn(p)]
              IN  /\ Upped(l, k)
                  /\ \/ ~Alive(k) /\ k.up = l.up
                     \/ Alive(l) /\ ok /\ k.up = Append(l.up, m) /\ k.up # <<>> /\ ToSet(k.up) = ToSet(l.up) \cup {m}
<1>1. link \in [Conns -> Link]
  BY DEF Inv, TypeOK
<1>2. CASE ~client[p].connected
  BY <1>1, <1>2 DEF ClientSends
<1>3. CASE client[p].connected
  <2> DEFINE c == LastConn(p)
  <2>1. c \in Conns
    BY <1>3, LastConnIs DEF Inv, Phases
  <2>2. link[c].up \in Seq(ToServer) /\ link[c] \in Link /\ link[c].broken \in BOOLEAN
    BY <1>1, <2>1 DEF Link
  <2>3. CASE ~ok
    BY <1>1, <1>3, <2>1, <2>3 DEF ClientSends, Upped
  <2>4. CASE ok /\ Alive(link[c])
    <3>1. link' = [link EXCEPT ![c].up = Append(@, m)]
      BY <1>1, <1>3, <2>1, <2>4 DEF ClientSends, SentUp
    <3>2. /\ Append(link[c].up, m) \in Seq(ToServer) /\ Append(link[c].up, m) # <<>>
          /\ link[c].up # <<>> => Append(link[c].up, m)[1] = link[c].up[1]
          /\ ToSet(Append(link[c].up, m)) = ToSet(link[c].up) \cup {m}
      BY <2>2, Appended, InQueue
    <3>3. link'[c] = [link[c] EXCEPT !.up = Append(link[c].up, m)]
      BY <1>1, <2>1, <3>1
    <3>4. link'[c] \in Link
      BY <2>2, <3>2, <3>3 DEF Link
    <3>5. Upped(link[c], link'[c]) /\ link'[c].up = Append(link[c].up, m)
      BY <2>2, <3>2, <3>3 DEF Upped, Link
    <3>6. \A d \in Conns : d # c => link'[d] = link[d]
      BY <1>1, <3>1
    <3>7. link' \in [Conns -> Link]
      BY <1>1, <3>1, <3>4
    <3>8. QED
      BY <1>3, <2>4, <3>2, <3>5, <3>6, <3>7
  <2>5. CASE ok /\ ~Alive(link[c])
    <3>1. link' = [link EXCEPT ![c].broken = TRUE]
      BY <1>1, <1>3, <2>1, <2>5 DEF ClientSends, SentUp
    <3>2. link'[c] = [link[c] EXCEPT !.broken = TRUE]
      BY <1>1, <2>1, <3>1
    <3>3. link'[c] \in Link /\ Upped(link[c], link'[c]) /\ ~Alive(link'[c]) /\ link'[c].up = link[c].up
      BY <2>2, <3>2 DEF Link, Upped, Alive
    <3>4. \A d \in Conns : d # c => link'[d] = link[d]
      BY <1>1, <3>1
    <3>5. link' \in [Conns -> Link]
      BY <1>1, <3>1, <3>3
    <3>6. QED
      BY <1>3, <3>3, <3>4, <3>5
  <2>6. QED
    BY <2>3, <2>4, <2>5
<1>4. QED
  BY <1>2, <1>3

\* A step of a client on the connection it has, if any.  (The last five conjuncts are what it
\* has to see to itself.)
Speaks(p) ==
  /\ client' \in [Clients -> Client] /\ link' \in [Conns -> Link] /\ \A q \in Clients \ {p} : client'[q] = client[q]
  /\ UNCHANGED <<main, netclients, cds, worker>>
  /\ left'.conns = left.conns
  /\ client'[p].last = client[p].last /\ client'[p].connected = client[p].connected /\ client'[p].cds = client[p].cds
  /\ \/ client'[p].cworker = client[p].cworker
     \/ client'[p].cworker = "gone"
     \/ client[p].cworker = "auth" /\ client'[p].cworker \in {"recv", "close"}
  /\ \A c \in Conns : link'[c] = link[c] \/ (client[p].connected /\ c = LastConn(p))
  /\ client[p].connected => Upped(link[LastConn(p)], link'[LastConn(p)])
  /\ history'.given = history.given /\ history'.reused = history.reused
  /\ \A q \in Clients : q # p => (q \in history'.late <=> q \in history.late)
  /\ \A c \in Conns : c[1] # p => (c \in history'.unheard <=> c \in history.unheard)
  /\ GoodList(client'[p].shown) /\ GoodIDs(client'[p].picked)
     /\ (client[p].connected => \A m \in ToSet(link'[LastConn(p)].up) : GoodUp(m))
  /\ Answered(p)'
  /\ \A c \in Conns : client[p].connected /\ c = LastConn(p) => Attended(c)'
  /\ Shows(p)'
  /\ \A o \in history'.ordered \ history.ordered :
       /\ worker[o[1]].pc \notin {"none", "backlog"} /\ worker[o[2]].pc \notin {"none", "backlog", "gone"}
       /\ main = "run" /\ Alive(link'[o[1]]) /\ Alive(link'[o[2]]) /\ Serving(o[1]) => Outstanding(o[1], o[2])'

LEMMA ClientSpeaks ==
  ASSUME Inv, NEW p \in Clients, TypeOK', Speaks(p)
  PROVE  Inv'
<1> DEFINE L == LastConn(p)
<1>1. /\ \A q \in Clients : /\ client'[q].last = client[q].last /\ client'[q].connected = client[q].connected
                            /\ client'[q].cds = client[q].cds
                            /\ LastConn(q)' = LastConn(q)
                            /\ q # p => client'[q] = client[q]
      /\ main' = main /\ netclients' = netclients /\ cds' = cds /\ worker' = worker
      /\ history'.given = history.given /\ history'.reused = history.reused
      /\ left'.conns = left.conns
  BY DEF Speaks, LastConn
<1>2. client[p].connected => L \in Conns /\ L[1] = p
  BY LastConnIs DEF Inv, Phases
<1>3. \A c \in Conns : /\ link'[c] = link[c] \/ (client[p].connected /\ c = L /\ Upped(link[c], link'[c]))
                       /\ link'[c].serverEnd = link[c].serverEnd /\ link'[c].clientEnd = link[c].clientEnd
                       /\ link'[c].down = link[c].down
                       /\ link[c].broken => link'[c].broken
                       /\ Alive(link'[c]) => Alive(link[c])
                       /\ link[c].up # <<>> => link'[c].up # <<>> /\ link'[c].up[1] = link[c].up[1]
                       /\ c[1] # p => link'[c] = link[c]
                       /\ c[1] \in Clients
  BY <1>2, ConnsAre DEF Speaks, Upped, Alive
<1> HIDE DEF L
<1>4. Phases'
  <2>1. \A q \in Clients :
          /\ client'[q].last + left'.conns[q] <= MaxConns[q]
          /\ client'[q].cworker = "connect" => ~client'[q].connected
          /\ client'[q].connected \/ client'[q].cworker \in {"auth", "recv", "close"} => client'[q].last >= 1
    BY <1>1 DEF Inv, Phases, Speaks
  <2>2. \A c \in Conns : worker[c].pc = "none" => link'[c] = link[c]
    BY <1>3, LastConnIs DEF Inv, Phases, L
  <2>3. \A c \in Conns :
       /\ worker[c].pc = "none" <=> c[2] > client'[c[1]].last
       /\ worker[c].pc = "none" => link'[c] = NewLink
       /\ worker[c].pc = "gone" => link'[c].serverEnd = "closed"
       /\ worker[c].pc \notin {"none", "gone"} /\ main \in {"run", "close"} => link'[c].serverEnd = "open"
       /\ link'[c].clientEnd = "open" <=> client'[c[1]].connected /\ c[2] = client'[c[1]].last
    BY <1>1, <1>3, <2>2, ConnsAre DEF Inv, Phases
  <2>4. QED
    BY <1>1, <2>1, <2>3 DEF Inv, Phases, Listed
<1>5. Entries'
  BY <1>1 DEF Inv, Entries, Listed
<1>6. /\ \A l : GoodList(l) => GoodList(l)'
      /\ \A N : GoodIDs(N) => GoodIDs(N)'
      /\ \A m : GoodUp(m) => GoodUp(m)'
      /\ \A c, m : GoodDown(c, m) => GoodDown(c, m)'
  <2>1. Noticed
    BY <1>1 DEF Noticed
  <2>2. QED
    BY <2>1, GoodStays
<1>7. Addressed'
  <2>1. \A q \in Clients : GoodList(client'[q].cds) /\ GoodList(client'[q].shown) /\ GoodIDs(client'[q].picked)
    BY <1>1 DEF Inv, Addressed, Speaks
  <2>2. \A c \in Conns : \A m \in ToSet(link'[c].up) : GoodUp(m)
    BY <1>3 DEF Inv, Addressed, Speaks, L
  <2>3. \A c \in Conns : \A m \in ToSet(link'[c].down) : GoodDown(c, m)
    BY <1>3 DEF Inv, Addressed
  <2>4. GoodList(cds) /\ \A c \in Conns : GoodIDs(worker[c].to)
    BY DEF Inv, Addressed
  <2>5. QED
    BY <1>1, <1>6, <2>1, <2>2, <2>3, <2>4 DEF Addressed
<1>8. Answers'
  <2> SUFFICES ASSUME NEW q \in Clients, q # p PROVE Answered(q)'
    BY DEF Answers, Speaks
  <2>1. Answered(q)
    BY DEF Inv, Answers
  <2>2. AnswerUnderWay(q)' <=> AnswerUnderWay(q)
    <3>1. client[q].connected => link'[LastConn(q)] = link[LastConn(q)]
      BY <1>3, LastConnIs DEF Inv, Phases
    <3>2. QED
      BY <1>1, <3>1 DEF AnswerUnderWay
  <2>3. QED
    BY <1>1, <2>1, <2>2 DEF Answered, Speaks
<1>9. Sessions'
  <2> SUFFICES ASSUME NEW c \in Conns, ~(client[p].connected /\ c = L) PROVE Attended(c)'
    BY DEF Sessions, Speaks, L
  <2>1. Attended(c) /\ link'[c] = link[c]
    BY <1>3 DEF Inv, Sessions
  <2>2. CASE c[1] = p
    <3>1. ~Alive(link[c])
      BY <1>2, <2>2, LastConnIs DEF Inv, Phases, Alive, L
    <3>2. QED
      BY <2>1, <3>1 DEF Attended
  <2>3. CASE c[1] # p
    <3>1. AnswerUnderWay(c[1])' <=> AnswerUnderWay(c[1])
      <4>1. client[c[1]].connected => link'[LastConn(c[1])] = link[LastConn(c[1])]
        BY <1>3, <2>3, LastConnIs DEF Inv, Phases
      <4>2. QED
        BY <1>1, <1>3, <4>1 DEF AnswerUnderWay
    <3>2. QED
      BY <1>1, <1>3, <2>1, <2>3, <3>1 DEF Attended, Speaks
  <2>4. QED
    BY <2>2, <2>3
<1>10. Ordered'
  <2> SUFFICES ASSUME NEW o \in history.ordered
               PROVE  /\ worker[o[1]].pc \notin {"none", "backlog"} /\ worker[o[2]].pc \notin {"none", "backlog", "gone"}
                      /\ main = "run" /\ Alive(link'[o[1]]) /\ Alive(link'[o[2]]) /\ Serving(o[1])
                           => Outstanding(o[1], o[2])'
    BY <1>1 DEF Ordered, Speaks, Serving
  <2>1. o[1] \in Conns /\ o[2] \in Conns
    BY DEF Inv, TypeOK
  <2>2. Outstanding(o[1], o[2]) => Outstanding(o[1], o[2])'
    BY <1>1, <1>3, <2>1 DEF Outstanding
  <2>3. QED
    BY <1>3, <2>1, <2>2 DEF Inv, Ordered
<1>11. Spread'
  <2>1. \A c \in Conns : Disturbs(c) => Disturbs(c)'
    BY <1>1, <1>3 DEF Disturbs, Listed
  <2>2. \A q \in Clients : Shows(q)'
    BY <1>1 DEF Speaks, Inv, Spread, Shows
  <2>3. QED
    BY <1>1, <1>3, <2>1, <2>2 DEF Inv, Spread, Serving
<1>12. QED
  BY <1>4, <1>5, <1>7, <1>8, <1>9, <1>10, <1>11 DEF Inv

\* The bounds.
Left == [tries : Nat, commands : Nat, breaks : Nat, quits : Nat, stops : Nat, conns : [Clients -> Nat]]

LEMMA LeftIs ==
  ASSUME TypeOK,
         \/ left' = left
         \/ left.tries > 0 /\ left' = [left EXCEPT !.tries = @ - 1]
         \/ left.commands > 0 /\ left' = [left EXCEPT !.commands = @ - 1]
         \/ left.breaks > 0 /\ left' = [left EXCEPT !.breaks = @ - 1]
         \/ left.quits > 0 /\ left' = [left EXCEPT !.quits = @ - 1]
         \/ left.stops > 0 /\ left' = [left EXCEPT !.stops = @ - 1]
  PROVE  left' \in Left /\ left'.conns = left.conns
<1>1. left \in Left
  BY DEF TypeOK, Left
<1>2. QED
  BY <1>1 DEF Left

\* What the properties know of the past.
History == [late : SUBSET Clients, unheard : SUBSET Conns, given : SUBSET Sockets, reused : SUBSET Conns,
            ordered : SUBSET (Conns \X Conns)]

LEMMA UppedItself == ASSUME NEW l PROVE Upped(l, l)
BY DEF Upped

\* AUTH or LOGON is not sent.
IntroduceFails(p) ==
  Introduce(p) /\ UNCHANGED link /\ client' = [client EXCEPT ![p].cworker = "gone"]

\* The steps that send nothing.
LEMMA QuietSteps ==
  ASSUME Inv, NEW p \in Clients,
         \/ TestShutdown(p) \/ IntroduceFails(p) \/ Unlock(p) \/ GiveUp(p) \/ UpdateList(p)
         \/ Press(p) \/ Decline(p) \/ Quit(p) \/ AwaitShutdown(p)
  PROVE  Inv'
<1> SUFFICES TypeOK' /\ Speaks(p)
  BY ClientSpeaks
<1>1. client \in [Clients -> Client] /\ client[p] \in Client
  BY DEF Inv, TypeOK
<1>2. client' = [client EXCEPT ![p] = client'[p]] /\ UNCHANGED <<main, netclients, cds, worker, link>>
  BY <1>1 DEF TestShutdown, IntroduceFails, Introduce, Unlock, GiveUp, UpdateList, Press, Decline, Quit, AwaitShutdown
<1>3. left' \in Left /\ left'.conns = left.conns
  BY LeftIs DEF Inv, TestShutdown, IntroduceFails, Introduce, Unlock, GiveUp, UpdateList, Press, Decline, Quit, AwaitShutdown
<1>4. /\ history' = history \/ (client[p].connected /\ history' = [history EXCEPT !.unheard = @ \cup {LastConn(p)}])
      /\ history \in History
  BY DEF Inv, TypeOK, History, TestShutdown, IntroduceFails, Introduce, Unlock, GiveUp, UpdateList, Press, Decline, Quit,
     AwaitShutdown, AnswerUnderWay
<1>5. client[p].connected => client[p].last >= 1 /\ LastConn(p) \in Conns /\ LastConn(p)[1] = p
  BY LastConnIs DEF Inv, Phases
<1>6. history' \in History /\ history'.given = history.given /\ history'.reused = history.reused
      /\ history'.late = history.late /\ history'.ordered = history.ordered
      /\ \A c \in Conns : /\ c \in history.unheard => c \in history'.unheard
                          /\ c[1] # p => (c \in history'.unheard <=> c \in history.unheard)
  BY <1>4, <1>5 DEF History
<1>7. GoodList(client[p].cds) /\ GoodList(client[p].shown) /\ GoodIDs(client[p].picked)
      /\ GoodList(Empty) /\ GoodIDs({})
  BY NamesAre DEF Inv, Addressed, GoodList, GoodIDs, Good
<1> DEFINE Kept == /\ client'[p] \in Client
                   /\ client'[p].last = client[p].last /\ client'[p].connected = client[p].connected
                   /\ client'[p].cds = client[p].cds
                   /\ client'[p].cworker = client[p].cworker \/ client'[p].cworker = "gone"
                   /\ GoodList(client'[p].shown) /\ GoodIDs(client'[p].picked)
                   /\ Shows(p)'
           Wait == /\ client'[p].ui = client[p].ui /\ client'[p].tried = client[p].tried
                   /\ client'[p].RespQueue = client[p].RespQueue
           Open == client'[p].ui \in {"main", "confirm", "close", "await", "gone"}
<1>8. Shows(p)
  BY DEF Inv, Spread
<1>9. Kept /\ (Wait \/ Open \/ GiveUp(p))
  <2>1. CASE TestShutdown(p)
    <3>1. client' = [client EXCEPT ![p].cworker = "gone"]
      BY <2>1 DEF TestShutdown
    <3>2. client'[p] = [client[p] EXCEPT !.cworker = "gone"]
      BY <1>1, <3>1
    <3>3. QED
      BY <1>1, <1>7, <1>8, <2>1, <3>2 DEF Client, Shows
  <2>2. CASE IntroduceFails(p)
    <3>1. client' = [client EXCEPT ![p].cworker = "gone"]
      BY <2>2 DEF IntroduceFails
    <3>2. client'[p] = [client[p] EXCEPT !.cworker = "gone"]
      BY <1>1, <3>1
    <3>3. QED
      BY <1>1, <1>7, <1>8, <2>2, <3>2 DEF Client, Shows
  <2>3. CASE Unlock(p)
    <3>1. client' = [client EXCEPT ![p].ui = "main", ![p].RespQueue = @ - 1, ![p].tried = "none", ![p].signal_cds_update = TRUE]
      BY <2>3 DEF Unlock
    <3>2. client'[p] = [client[p] EXCEPT !.ui = "main", !.RespQueue = client[p].RespQueue - 1, !.tried = "none", !.signal_cds_update = TRUE]
      BY <1>1, <3>1
    <3>3. QED
      BY <1>1, <1>7, <1>8, <2>3, <3>2 DEF Client, Shows, Unlock
  <2>4. CASE GiveUp(p)
    <3>1. client' = [client EXCEPT ![p].ui = "run", ![p].tried = "none"]
      BY <2>4 DEF GiveUp
    <3>2. client'[p] = [client[p] EXCEPT !.ui = "run", !.tried = "none"]
      BY <1>1, <3>1
    <3>3. QED
      BY <1>1, <1>7, <1>8, <2>4, <3>2 DEF Client, Shows
  <2>5. CASE UpdateList(p)
    <3>1. client' = [client EXCEPT ![p].shown = client[p].cds, ![p].signal_cds_update = FALSE]
      BY <2>5 DEF UpdateList
    <3>2. client'[p] = [client[p] EXCEPT !.shown = client[p].cds, !.signal_cds_update = FALSE]
      BY <1>1, <3>1
    <3>3. QED
      BY <1>1, <1>7, <1>8, <2>5, <3>2 DEF Client, Shows, UpdateList
  <2>6. CASE Press(p)
    <3>1. PICK sel \in SUBSET {n \in NetIDs : client[p].shown[n[1]] = n[2]} :
            client' = [client EXCEPT ![p].ui = "confirm", ![p].picked = sel]
      BY <2>6 DEF Press
    <3>2. client'[p] = [client[p] EXCEPT !.ui = "confirm", !.picked = sel] /\ client[p].ui = "main"
      BY <1>1, <2>6, <3>1 DEF Press
    <3>3. GoodIDs(sel) /\ sel \subseteq NetIDs
      BY <1>7 DEF GoodIDs, GoodList, NetIDs
    <3>4. QED
      BY <1>1, <1>7, <1>8, <3>2, <3>3 DEF Client, Shows
  <2>7. CASE Decline(p)
    <3>1. client' = [client EXCEPT ![p].ui = "main", ![p].picked = {}]
      BY <2>7 DEF Decline
    <3>2. client'[p] = [client[p] EXCEPT !.ui = "main", !.picked = {}]
      BY <1>1, <3>1
    <3>3. QED
      BY <1>1, <1>7, <1>8, <2>7, <3>2 DEF Client, Shows, Decline
  <2>8. CASE Quit(p)
    <3>1. client' = [client EXCEPT ![p].ui = "close", ![p].shown = Empty, ![p].picked = {}]
      BY <2>8 DEF Quit
    <3>2. client'[p] = [client[p] EXCEPT !.ui = "close", !.shown = Empty, !.picked = {}]
      BY <1>1, <3>1
    <3>3. QED
      BY <1>1, <1>7, <1>8, <2>8, <3>2, NamesAre DEF Client, Shows
  <2>9. CASE AwaitShutdown(p)
    <3>1. client' = [client EXCEPT ![p].ui = "gone"]
      BY <2>9 DEF AwaitShutdown
    <3>2. client'[p] = [client[p] EXCEPT !.ui = "gone"]
      BY <1>1, <3>1
    <3>3. QED
      BY <1>1, <1>7, <1>8, <2>9, <3>2 DEF Client, Shows
  <2>10. QED
    BY <2>1, <2>2, <2>3, <2>4, <2>5, <2>6, <2>7, <2>8, <2>9
<1>10. GiveUp(p) => /\ client[p].ui = "wait" /\ client[p].RespQueue = 0 /\ client'[p].ui = "run"
                    /\ AnswerUnderWay(p) => LastConn(p) \in history'.unheard
  BY <1>1, <1>4 DEF GiveUp, History
<1>11. /\ LastConn(p)' = LastConn(p) /\ (AnswerUnderWay(p)' <=> AnswerUnderWay(p))
       /\ client'[p].connected = client[p].connected
  BY <1>2, <1>9 DEF LastConn, AnswerUnderWay
<1>12. Answered(p)'
  BY <1>6, <1>9, <1>10, <1>11 DEF Inv, Answers, Answered
<1>13. ASSUME NEW c \in Conns, client[p].connected, c = LastConn(p) PROVE Attended(c)'
  <2>1. Attended(c) /\ c[1] = p
    BY <1>5, <1>13 DEF Inv, Sessions
  <2>2. QED
    BY <1>2, <1>6, <1>9, <1>10, <1>11, <1>13, <2>1 DEF Attended
<1>14. client' \in [Clients -> Client] /\ \A q \in Clients \ {p} : client'[q] = client[q]
  BY <1>1, <1>2, <1>9
<1>15. TypeOK'
  BY <1>2, <1>3, <1>6, <1>14 DEF Inv, TypeOK, Left, History
<1>16. client[p].connected => \A m \in ToSet(link'[LastConn(p)].up) : GoodUp(m)
  BY <1>2, <1>5 DEF Inv, Addressed
<1>17. Speaks(p)
  BY <1>2, <1>3, <1>6, <1>9, <1>12, <1>13, <1>14, <1>15, <1>16, UppedItself DEF Speaks, TypeOK
<1>18. QED
  BY <1>15, <1>17

\* The steps that send a message m.
LEMMA ClientSays ==
  ASSUME Inv, NEW p \in Clients, NEW m \in ToServer, NEW ok \in BOOLEAN, ClientSends(p, m, ok), GoodUp(m),
         client' = [client EXCEPT ![p] = client'[p]], client'[p] \in Client,
         UNCHANGED <<main, netclients, cds, worker>>, left' \in Left, left'.conns = left.conns,
         client'[p].last = client[p].last, client'[p].connected = client[p].connected,
         client'[p].cds = client[p].cds, client'[p].cworker = client[p].cworker,
         GoodList(client'[p].shown), GoodIDs(client'[p].picked), Shows(p)',
         history' \in History, history'.given = history.given, history'.reused = history.reused,
         \A q \in Clients : q # p => (q \in history'.late <=> q \in history.late),
         history'.unheard = history.unheard \/ (ok /\ history'.unheard = history.unheard \ {LastConn(p)}),
         Answered(p)',
         \A c \in Conns : client[p].connected /\ c = LastConn(p) => Attended(c)',
         \A o \in history'.ordered \ history.ordered :
           /\ worker[o[1]].pc \notin {"none", "backlog"} /\ worker[o[2]].pc \notin {"none", "backlog", "gone"}
           /\ main = "run" /\ Alive(link'[o[1]]) /\ Alive(link'[o[2]]) /\ Serving(o[1]) => Outstanding(o[1], o[2])'
  PROVE  Inv'
<1>1. client \in [Clients -> Client]
  BY DEF Inv, TypeOK
<1>2. /\ link' \in [Conns -> Link]
      /\ \A c \in Conns : link'[c] = link[c] \/ (client[p].connected /\ c = LastConn(p))
      /\ ok => client[p].connected
      /\ client[p].connected => Upped(link[LastConn(p)], link'[LastConn(p)])
  BY SendIs
<1>3. client' \in [Clients -> Client] /\ \A q \in Clients \ {p} : client'[q] = client[q]
  BY <1>1
<1>4. TypeOK'
  BY <1>2, <1>3 DEF Inv, TypeOK, Left, History
<1>5. client[p].connected => LastConn(p) \in Conns /\ LastConn(p)[1] = p
  BY LastConnIs DEF Inv, Phases
<1>6. ASSUME client[p].connected PROVE \A n \in ToSet(link'[LastConn(p)].up) : GoodUp(n)
  <2>1. \A n \in ToSet(link[LastConn(p)].up) : GoodUp(n)
    BY <1>5, <1>6 DEF Inv, Addressed
  <2>2. \/ link'[LastConn(p)].up = link[LastConn(p)].up
        \/ ToSet(link'[LastConn(p)].up) = ToSet(link[LastConn(p)].up) \cup {m}
    BY <1>6, SendIs
  <2>3. QED
    BY <2>1, <2>2
<1>7. \A c \in Conns : c[1] # p => (c \in history'.unheard <=> c \in history.unheard)
  BY <1>2, <1>5
<1>8. Speaks(p)
  BY <1>2, <1>3, <1>6, <1>7 DEF Speaks
<1>9. QED
  BY <1>4, <1>8, ClientSpeaks

\* The password is sent: only the right one may be taken for one that opens a session, and then
\* its answer is to come.
LEMMA EnterPasswordKeeps == ASSUME Inv, NEW p \in Clients, EnterPassword(p) PROVE Inv'
<1>1. PICK pw \in {"right", "wrong"}, ok \in BOOLEAN :
        /\ ClientSends(p, Password(pw), ok)
        /\ client' = [client EXCEPT ![p].ui = IF ok THEN "wait" ELSE "run", ![p].tried = IF ok THEN pw ELSE "none",
                                    ![p].RespQueue = 0]
        /\ history' = [history EXCEPT !.late = IF AnswerUnderWay(p) THEN @ \cup {p} ELSE @ \ {p},
                                      !.unheard = IF ok THEN Heard(LastConn(p), pw) ELSE @]
  BY DEF EnterPassword
<1> DEFINE m == Password(pw)
           L == LastConn(p)
<1>2. /\ client \in [Clients -> Client] /\ client[p] \in Client /\ history \in History
      /\ UNCHANGED <<main, netclients, cds, worker>>
  BY DEF Inv, TypeOK, History, EnterPassword
<1>3. m \in ToServer /\ m.pw = pw /\ GoodUp(m)
  BY MessagesAre DEF GoodUp, GoodIDs
<1>4. PICK ui, tried : /\ ui = IF ok THEN "wait" ELSE "run"
                       /\ tried = IF ok THEN pw ELSE "none"
  OBVIOUS
<1>5. client'[p] = [client[p] EXCEPT !.ui = ui, !.tried = tried, !.RespQueue = 0]
  BY <1>1, <1>2, <1>4
<1>6. ui \in {"run", "wait"} /\ tried \in {"none", "right", "wrong"}
  BY <1>4
<1>7. /\ client'[p] \in Client /\ client' = [client EXCEPT ![p] = client'[p]]
      /\ client'[p].ui = ui /\ client'[p].tried = tried /\ client'[p].RespQueue = 0
      /\ client'[p].last = client[p].last /\ client'[p].connected = client[p].connected
      /\ client'[p].cds = client[p].cds /\ client'[p].cworker = client[p].cworker
      /\ client'[p].shown = client[p].shown /\ client'[p].picked = client[p].picked
  <2>1. client' = [client EXCEPT ![p] = client'[p]]
    BY <1>1, <1>2
  <2>2. DOMAIN client[p] = {"ui", "tried", "cworker", "connected", "last", "RespQueue", "cds", "signal_cds_update",
                            "shown", "picked"}
    BY <1>2 DEF Client
  <2>3. /\ client'[p].ui = ui /\ client'[p].tried = tried /\ client'[p].RespQueue = 0
        /\ \A f \in DOMAIN client[p] \ {"ui", "tried", "RespQueue"} : client'[p][f] = client[p][f]
    BY <1>5, <2>2
  <2>4. client'[p] \in Client
    <3> DEFINE a == [client[p] EXCEPT !.ui = ui]
               b == [a EXCEPT !.tried = tried]
    <3>1. a \in Client
      BY <1>2, <1>6 DEF Client
    <3> HIDE DEF a
    <3>2. b \in Client
      BY <1>6, <3>1 DEF Client
    <3> HIDE DEF b
    <3>3. [b EXCEPT !.RespQueue = 0] \in Client
      BY <3>2 DEF Client
    <3>4. client'[p] = [b EXCEPT !.RespQueue = 0]
      BY <1>5 DEF a, b
    <3>5. QED
      BY <3>3, <3>4
  <2>5. QED
    BY <2>1, <2>2, <2>3, <2>4
<1>8. left' \in Left /\ left'.conns = left.conns
  BY LeftIs DEF Inv, EnterPassword
<1>9. GoodList(client'[p].shown) /\ GoodIDs(client'[p].picked) /\ Shows(p)'
  BY <1>6, <1>7 DEF Inv, Addressed, Shows
<1>10. /\ history' \in History /\ history'.given = history.given /\ history'.reused = history.reused
       /\ history'.ordered = history.ordered
       /\ \A q \in Clients : q # p => (q \in history'.late <=> q \in history.late)
       /\ p \in history'.late <=> AnswerUnderWay(p)
       /\ history'.unheard = history.unheard \/ (ok /\ history'.unheard = history.unheard \ {L})
  <2>1. PICK late, unheard : /\ late = IF AnswerUnderWay(p) THEN history.late \cup {p} ELSE history.late \ {p}
                             /\ unheard = IF ok THEN Heard(L, pw) ELSE history.unheard
    OBVIOUS
  <2>2. history' = [history EXCEPT !.late = late, !.unheard = unheard]
    BY <1>1, <1>2, <2>1 DEF History
  <2>3. /\ late \subseteq Clients /\ \A q \in Clients : q # p => (q \in late <=> q \in history.late)
        /\ p \in late <=> AnswerUnderWay(p)
    BY <1>2, <2>1 DEF History
  <2>4. unheard = history.unheard \/ (ok /\ unheard = history.unheard \ {L})
    BY <2>1 DEF Heard
  <2>5. QED
    BY <1>2, <2>2, <2>3, <2>4 DEF History
<1>11. client[p].connected => L \in Conns /\ L[1] = p /\ link[L].up \in Seq(ToServer)
  BY LastConnIs DEF Inv, Phases, TypeOK, Link
<1>12. /\ ok => client[p].connected
       /\ client[p].connected =>
            /\ link'[L].down = link[L].down
            /\ \/ ~Alive(link'[L]) /\ link'[L].up = link[L].up
               \/ /\ ok /\ link'[L].up = Append(link[L].up, m)
                  /\ ToSet(link'[L].up) = ToSet(link[L].up) \cup {m}
  BY <1>1, <1>3, SendIs DEF Upped
<1>13. LastConn(p)' = L
  BY <1>7 DEF LastConn
<1> HIDE DEF m, L
<1>14. AnswerUnderWay(p)' <=>
         /\ client'[p].connected
         /\ \/ \E n \in ToSet(link'[L].up) : n.pw = "right"
            \/ \E n \in ToSet(link'[L].down) : n.id = "ADMIN_PASSWORD_OK"
  BY <1>13 DEF AnswerUnderWay, ToSet
<1>15. Answered(p)'
  <2>1. ASSUME ok, pw = "wrong", ~AnswerUnderWay(p) PROVE ~AnswerUnderWay(p)'
    BY <1>3, <1>7, <1>12, <1>14, <2>1, AnswerIs DEF L
  <2>2. QED
    BY <1>4, <1>7, <1>10, <1>12, <2>1 DEF Answered
<1>16. ASSUME NEW c \in Conns, client[p].connected, c = L PROVE Attended(c)'
  <2>1. CASE ~Alive(link'[L])
    BY <1>16, <2>1 DEF Attended
  <2>2. CASE ok /\ pw = "wrong" /\ link'[L].up = Append(link[L].up, m)
    <3>1. ~Verifies(link'[L].up, worker[c].admin_password_verified)
      BY <1>3, <1>11, <1>16, <2>2, VerifiesLess
    <3>2. QED
      BY <1>2, <1>16, <3>1 DEF Attended
  <2>3. CASE ok /\ pw = "right" /\ ToSet(link'[L].up) = ToSet(link[L].up) \cup {m}
    <3>1. AnswerUnderWay(p)' /\ client'[p].ui = "wait"
      BY <1>3, <1>4, <1>7, <1>14, <1>16, <2>3
    <3>2. QED
      BY <1>11, <1>16, <3>1 DEF Attended
  <2>4. QED
    BY <1>12, <1>16, <2>1, <2>2, <2>3
<1>17. QED
  BY <1>1, <1>2, <1>3, <1>7, <1>8, <1>9, <1>10, <1>15, <1>16, ClientSays DEF m, L

\* The session ends: none of the passwords under way opens one.
LEMMA CloseMainKeeps == ASSUME Inv, NEW p \in Clients, CloseMain(p) PROVE Inv'
<1>1. PICK ok \in BOOLEAN :
        /\ ClientSends(p, Password("wrong"), ok)
        /\ history' = [history EXCEPT !.unheard = IF ok THEN Heard(LastConn(p), "wrong") ELSE @]
  BY DEF CloseMain
<1> DEFINE m == Password("wrong")
           L == LastConn(p)
<1>2. /\ client \in [Clients -> Client] /\ client[p] \in Client /\ history \in History
      /\ UNCHANGED <<main, netclients, cds, worker, left>> /\ left \in Left
      /\ client' = [client EXCEPT ![p].ui = "run", ![p].shown = Empty]
  BY DEF Inv, TypeOK, History, Left, CloseMain
<1>3. m \in ToServer /\ m.pw = "wrong" /\ GoodUp(m)
  BY MessagesAre DEF GoodUp, GoodIDs
<1>4. client'[p] = [client[p] EXCEPT !.ui = "run", !.shown = Empty]
  BY <1>2
<1>5. /\ client'[p] \in Client /\ client' = [client EXCEPT ![p] = client'[p]]
      /\ client'[p].ui = "run" /\ client'[p].shown = Empty
      /\ client'[p].last = client[p].last /\ client'[p].connected = client[p].connected
      /\ client'[p].cds = client[p].cds /\ client'[p].cworker = client[p].cworker
      /\ client'[p].picked = client[p].picked
  BY <1>2, <1>4, NamesAre DEF Client
<1>6. GoodList(client'[p].shown) /\ GoodIDs(client'[p].picked) /\ Shows(p)'
  BY <1>5, NamesAre DEF Inv, Addressed, GoodList, Good, Shows
<1>7. /\ history' \in History /\ history'.given = history.given /\ history'.reused = history.reused
      /\ history'.ordered = history.ordered /\ history'.late = history.late
      /\ history'.unheard = history.unheard \/ (ok /\ history'.unheard = history.unheard \ {L})
  BY <1>1, <1>2 DEF History, Heard
<1>8. client[p].connected => L \in Conns /\ link[L].up \in Seq(ToServer)
  BY LastConnIs DEF Inv, Phases, TypeOK, Link
<1>9. client[p].connected => ~Alive(link'[L]) \/ link'[L].up = Append(link[L].up, m)
  BY <1>1, <1>3, SendIs
<1> HIDE DEF m, L
<1>10. Answered(p)'
  BY <1>5 DEF Answered
<1>11. ASSUME NEW c \in Conns, client[p].connected, c = L PROVE Attended(c)'
  <2>1. CASE ~Alive(link'[L])
    BY <1>11, <2>1 DEF Attended
  <2>2. CASE link'[L].up = Append(link[L].up, m)
    <3>1. ~Verifies(link'[L].up, worker[c].admin_password_verified)
      BY <1>3, <1>8, <1>11, <2>2, VerifiesLess
    <3>2. QED
      BY <1>2, <1>11, <3>1 DEF Attended
  <2>3. QED
    BY <1>9, <1>11, <2>1, <2>2
<1>12. QED
  BY <1>1, <1>2, <1>3, <1>5, <1>6, <1>7, <1>10, <1>11, ClientSays DEF m, L

\* A command is sent in a session: it is then the only message on its way to the server.
LEMMA ConfirmKeeps == ASSUME Inv, NEW p \in Clients, Confirm(p) PROVE Inv'
<1> DEFINE m == Command(client[p].picked)
           L == LastConn(p)
           D == Holding({n[1] : n \in client[p].picked})
<1>1. PICK ok \in BOOLEAN : ClientSends(p, m, ok)
  BY DEF Confirm
<1>2. /\ client \in [Clients -> Client] /\ client[p] \in Client /\ history \in History
      /\ UNCHANGED <<main, netclients, cds, worker, left>> /\ left \in Left
      /\ client' = [client EXCEPT ![p].ui = "main", ![p].picked = {}]
      /\ history' = [history EXCEPT !.ordered = IF InSession(p) THEN @ \cup ({L} \X D) ELSE @]
      /\ client[p].picked \subseteq NetIDs /\ client[p].ui = "confirm"
  BY DEF Inv, TypeOK, History, Left, Client, Confirm
<1>3. m \in ToServer /\ GoodUp(m) /\ m.id = "INVOKE" /\ m.to = client[p].picked
  BY <1>2, MessagesAre DEF Inv, Addressed, GoodUp
<1>4. client'[p] = [client[p] EXCEPT !.ui = "main", !.picked = {}]
  BY <1>2
<1>5. /\ client'[p] \in Client /\ client' = [client EXCEPT ![p] = client'[p]]
      /\ client'[p].ui = "main" /\ client'[p].shown = client[p].shown
      /\ client'[p].last = client[p].last /\ client'[p].connected = client[p].connected
      /\ client'[p].cds = client[p].cds /\ client'[p].cworker = client[p].cworker
      /\ client'[p].picked = {} /\ client'[p].signal_cds_update = client[p].signal_cds_update
  BY <1>2, <1>4 DEF Client
<1>6. GoodList(client'[p].shown) /\ GoodIDs(client'[p].picked) /\ Shows(p)'
  BY <1>2, <1>5 DEF Inv, Addressed, GoodIDs, Spread, Shows
<1>7. client[p].connected =>
        /\ L \in Conns /\ L[1] = p /\ link[L].up \in Seq(ToServer)
        /\ \/ ~Alive(link'[L])
           \/ link'[L].up = Append(link[L].up, m) /\ link'[L].up # <<>>
  <2> SUFFICES ASSUME client[p].connected
               PROVE  /\ L \in Conns /\ L[1] = p /\ link[L].up \in Seq(ToServer)
                      /\ \/ ~Alive(link'[L])
                         \/ link'[L].up = Append(link[L].up, m) /\ link'[L].up # <<>>
    OBVIOUS
  <2>1. L \in Conns /\ L[1] = p /\ link[L].up \in Seq(ToServer)
    BY LastConnIs DEF Inv, Phases, TypeOK, Link
  <2>2. m \in ToServer /\ ClientSends(p, m, ok)
    BY <1>1, <1>3
  <2> HIDE DEF m
  <2>3. \/ ~Alive(link'[L])
        \/ link'[L].up = Append(link[L].up, m) /\ link'[L].up # <<>>
    BY <2>2, SendIs
  <2>4. QED
    BY <2>1, <2>3
<1> HIDE DEF m, L, D
<1>8. /\ history' \in History /\ history'.given = history.given /\ history'.reused = history.reused
      /\ history'.late = history.late /\ history'.unheard = history.unheard
      /\ \A o \in history'.ordered \ history.ordered : InSession(p) /\ o[1] = L /\ o[2] \in D
  <2>1. D \subseteq Conns /\ (InSession(p) => L \in Conns)
    BY <1>7 DEF D, Holding, InSession
  <2>2. CASE InSession(p)
    <3>1. history' = [history EXCEPT !.ordered = @ \cup ({L} \X D)] /\ {L} \X D \subseteq Conns \X Conns
      BY <1>2, <2>1, <2>2
    <3>2. history'.ordered = history.ordered \cup ({L} \X D)
      BY <1>2, <3>1 DEF History
    <3>3. history.ordered \cup ({L} \X D) \subseteq Conns \X Conns
      BY <1>2, <3>1 DEF History
    <3>4. /\ history' \in History /\ history'.given = history.given /\ history'.reused = history.reused
          /\ history'.late = history.late /\ history'.unheard = history.unheard
      BY <1>2, <3>1, <3>3 DEF History
    <3>5. QED
      BY <2>2, <3>2, <3>4
  <2>3. CASE ~InSession(p)
    <3>1. history' = history
      BY <1>2, <2>3 DEF History
    <3>2. QED
      BY <1>2, <3>1
  <2>4. QED
    BY <2>2, <2>3
<1>9. Answered(p)' /\ \A c \in Conns : client[p].connected /\ c = L => Attended(c)'
  <2>1. Answered(p)'
    BY <1>5 DEF Answered
  <2>2. \A c \in Conns : client[p].connected /\ c = L => client'[c[1]].ui = "main"
    BY <1>5, <1>7
  <2>3. QED
    BY <2>1, <2>2 DEF Attended
<1>10. ASSUME NEW o \in history'.ordered \ history.ordered
       PROVE  /\ worker[o[1]].pc \notin {"none", "backlog"} /\ worker[o[2]].pc \notin {"none", "backlog", "gone"}
              /\ main = "run" /\ Alive(link'[o[1]]) /\ Alive(link'[o[2]]) /\ Serving(o[1])
                   => Outstanding(o[1], o[2])'
  <2>1. /\ o[1] = L /\ o[2] \in Conns /\ worker[o[2]].socket \in {n[1] : n \in client[p].picked}
        /\ worker[L].pc = "recv" /\ worker[L].admin_password_verified /\ link[L].up = <<>>
        /\ client[p].connected
    BY <1>8 DEF D, Holding, InSession, L
  <2>2. worker[o[2]].pc \notin {"none", "backlog", "gone"}
    <3>1. worker[o[2]].socket \in Sockets
      BY <1>2, <2>1 DEF NetIDs
    <3>2. QED
      BY <2>1, <3>1, NamesAre DEF Inv, Phases
  <2>3. ASSUME Alive(link'[L]) PROVE Outstanding(o[1], o[2])'
    <3>1. link'[L].up = Append(<<>>, m) /\ link'[L].up # <<>>
      BY <1>7, <2>1, <2>3
    <3>2. link'[L].up[1] = m
      BY <3>1
    <3>3. \E n \in m.to : n[1] = worker[o[2]].socket
      BY <1>3, <2>1
    <3>4. QED
      BY <1>2, <1>3, <2>1, <3>1, <3>2, <3>3 DEF Outstanding
  <2>4. QED
    BY <2>1, <2>2, <2>3
<1>11. QED
  BY <1>1, <1>2, <1>3, <1>5, <1>6, <1>8, <1>9, <1>10, ClientSays DEF m, L

\* A connection on which one end has sent.
LEMMA SentUpIs ==
  ASSUME NEW l \in Link, NEW m \in ToServer
  PROVE  /\ SentUp(l, m) \in Link /\ Upped(l, SentUp(l, m)) /\ (Alive(SentUp(l, m)) <=> Alive(l))
         /\ IF Alive(l) THEN /\ SentUp(l, m).up = Append(l.up, m)
                             /\ ToSet(SentUp(l, m).up) = ToSet(l.up) \cup {m}
                        ELSE SentUp(l, m).up = l.up
<1>1. CASE Alive(l)
  <2>1. SentUp(l, m) = [l EXCEPT !.up = Append(l.up, m)] /\ l.up \in Seq(ToServer)
    BY <1>1 DEF SentUp, Link
  <2>2. /\ Append(l.up, m) \in Seq(ToServer) /\ Append(l.up, m) # <<>>
        /\ l.up # <<>> => Append(l.up, m)[1] = l.up[1]
        /\ ToSet(Append(l.up, m)) = ToSet(l.up) \cup {m}
    BY <2>1, Appended, InQueue
  <2>3. SentUp(l, m) \in Link
    BY <2>1, <2>2 DEF Link
  <2>4. SentUp(l, m).up = Append(l.up, m)
    BY <2>1 DEF Link
  <2>5. Upped(l, SentUp(l, m)) /\ Alive(SentUp(l, m))
    BY <1>1, <2>1, <2>2 DEF Link, Upped, Alive
  <2>6. QED
    BY <1>1, <2>2, <2>3, <2>4, <2>5
<1>2. CASE ~Alive(l)
  <2>1. SentUp(l, m) = [l EXCEPT !.broken = TRUE]
    BY <1>2 DEF SentUp
  <2>2. QED
    BY <1>2, <2>1 DEF Link, Upped, Alive
<1>3. QED
  BY <1>1, <1>2

LEMMA IntroduceKeeps == ASSUME Inv, NEW p \in Clients, Introduce(p) PROVE Inv'
<1> DEFINE L == LastConn(p)
           k == SentUp(link[L], Message("AUTH"))
           j == SentUp(k, Message("LOGON"))
<1>1. CASE client' = [client EXCEPT ![p].cworker = "gone"] /\ UNCHANGED link
  BY <1>1, QuietSteps DEF IntroduceFails
<1>2. CASE client[p].connected /\ link' = [link EXCEPT ![L] = j] /\ client' = [client EXCEPT ![p].cworker = Inner(p)]
  <2>1. /\ client \in [Clients -> Client] /\ client[p] \in Client /\ link \in [Conns -> Link]
        /\ UNCHANGED <<main, netclients, cds, worker, left, history>> /\ client[p].cworker = "auth"
    BY DEF Inv, TypeOK, Introduce
  <2>2. /\ L \in Conns /\ L[1] = p /\ link[L] \in Link /\ link[L].up \in Seq(ToServer)
        /\ \A m \in ToSet(link[L].up) : GoodUp(m)
    BY <1>2, <2>1, LastConnIs DEF Inv, Phases, Link, Addressed
  <2>3. /\ Message("AUTH") \in ToServer /\ GoodUp(Message("AUTH")) /\ Message("AUTH").pw = "none"
        /\ Message("LOGON") \in ToServer /\ GoodUp(Message("LOGON")) /\ Message("LOGON").pw = "none"
    BY MessagesAre DEF GoodUp, GoodIDs
  <2> HIDE DEF L
  <2>4. /\ k \in Link /\ Upped(link[L], k) /\ (Alive(k) <=> Alive(link[L]))
        /\ Alive(link[L]) => k.up = Append(link[L].up, Message("AUTH"))
        /\ ToSet(k.up) \subseteq ToSet(link[L].up) \cup {Message("AUTH")}
    BY <2>2, <2>3, SentUpIs
  <2> HIDE DEF k
  <2>5. /\ j \in Link /\ Upped(k, j) /\ (Alive(j) <=> Alive(k))
        /\ Alive(k) => j.up = Append(k.up, Message("LOGON"))
        /\ ToSet(j.up) \subseteq ToSet(k.up) \cup {Message("LOGON")}
    BY <2>3, <2>4, SentUpIs
  <2> HIDE DEF j
  <2>6. /\ Upped(link[L], j) /\ \A m \in ToSet(j.up) : GoodUp(m)
        /\ \A m \in ToSet(j.up) : m.pw # "none" => m \in ToSet(link[L].up)
    BY <2>2, <2>3, <2>4, <2>5 DEF Upped
  <2>7. ASSUME NEW v, Alive(j), Verifies(j.up, v) PROVE Verifies(link[L].up, v)
    <3>1. k.up \in Seq(ToServer)
      BY <2>4 DEF Link
    <3>2. Verifies(k.up, v)
      BY <2>3, <2>5, <2>7, <3>1, VerifiesLess
    <3>3. QED
      BY <2>2, <2>3, <2>4, <2>5, <2>7, <3>2, VerifiesLess
  <2>8. PICK w \in {"recv", "close"} : client' = [client EXCEPT ![p].cworker = w]
    BY <1>2 DEF Inner
  <2>9. client'[p] = [client[p] EXCEPT !.cworker = w]
    BY <2>1, <2>8
  <2>10. /\ client'[p] \in Client /\ client'[p].cworker = w
         /\ client'[p].last = client[p].last /\ client'[p].connected = client[p].connected
         /\ client'[p].cds = client[p].cds /\ client'[p].ui = client[p].ui /\ client'[p].tried = client[p].tried
         /\ client'[p].shown = client[p].shown /\ client'[p].picked = client[p].picked
         /\ client'[p].RespQueue = client[p].RespQueue /\ client'[p].signal_cds_update = client[p].signal_cds_update
    BY <2>1, <2>9 DEF Client
  <2>11. client' \in [Clients -> Client] /\ link' \in [Conns -> Link] /\ link'[L] = j
         /\ (\A q \in Clients \ {p} : client'[q] = client[q]) /\ \A c \in Conns : c # L => link'[c] = link[c]
    BY <1>2, <2>1, <2>2, <2>5, <2>8, <2>10
  <2>12. LastConn(p)' = L /\ (AnswerUnderWay(p)' <=> AnswerUnderWay(p))
    <3>1. LastConn(p)' = L
      BY <2>10 DEF LastConn, L
    <3>2. /\ j.down = link[L].down
          /\ (\E m \in ToSet(j.up) : m.pw = "right") <=> (\E m \in ToSet(link[L].up) : m.pw = "right")
      BY <2>6 DEF Upped
    <3>3. AnswerUnderWay(p)' <=>
            /\ client'[p].connected
            /\ \/ \E m \in ToSet(link'[L].up) : m.pw = "right"
               \/ \E m \in ToSet(link'[L].down) : m.id = "ADMIN_PASSWORD_OK"
      BY <3>1 DEF AnswerUnderWay, ToSet
    <3>4. QED
      BY <2>10, <2>11, <3>1, <3>2, <3>3, AnswerIs DEF L
  <2>13. Answered(p)' /\ Shows(p)'
    BY <2>1, <2>10, <2>12 DEF Inv, Answers, Answered, Spread, Shows
  <2>14. Attended(L)
    BY <2>2 DEF Inv, Sessions
  <2>15. ASSUME NEW c \in Conns, c = L PROVE Attended(c)'
    BY <2>1, <2>2, <2>4, <2>5, <2>7, <2>10, <2>11, <2>12, <2>14, <2>15 DEF Attended
  <2>16. GoodList(client'[p].shown) /\ GoodIDs(client'[p].picked)
    BY <2>10 DEF Inv, Addressed
  <2>17. TypeOK'
    BY <2>1, <2>11 DEF Inv, TypeOK
  <2>18. Speaks(p)
    BY <1>2, <2>1, <2>6, <2>10, <2>11, <2>13, <2>15, <2>16 DEF Speaks, L
  <2>19. QED
    BY <2>17, <2>18, ClientSpeaks
<1>3. QED
  BY <1>1, <1>2 DEF Introduce

-----------------------------------------------------------------------------
(* What a client hears. *)

\* The message heard has its effect, and is no longer under way.
LEMMA HearingSteps ==
  ASSUME Inv, NEW p \in Clients, SpawnMachines(p) \/ Execute(p) \/ AdminPasswordOK(p)
  PROVE  Inv'
<1> DEFINE L == LastConn(p)
           m == Head(link[L].down)
<1>1. /\ client \in [Clients -> Client] /\ client[p] \in Client /\ link \in [Conns -> Link] /\ history \in History
      /\ UNCHANGED <<main, netclients, cds, worker, left>>
      /\ client[p].cworker = "recv" /\ client[p].connected /\ link[L].down # <<>>
      /\ link' = [link EXCEPT ![L].down = Tail(@)]
  BY DEF Inv, TypeOK, History, SpawnMachines, Execute, AdminPasswordOK, Hears
<1>2. /\ L \in Conns /\ L[1] = p /\ L[2] = client[p].last /\ link[L] \in Link /\ link[L].down \in Seq(ToClient)
      /\ \A c \in Conns : c[1] = p /\ link[c].clientEnd = "open" => c = L
      /\ link[L].clientEnd = "open"
  BY <1>1, LastConnIs DEF Inv, Phases, Link
<1> HIDE DEF L
<1>3. /\ Tail(link[L].down) \in Seq(ToClient) /\ m \in ToClient
      /\ ToSet(link[L].down) = ToSet(Tail(link[L].down)) \cup {m}
  BY <1>1, <1>2, Taken, InQueue
<1>4. link'[L] = [link[L] EXCEPT !.down = Tail(link[L].down)] /\ \A c \in Conns : c # L => link'[c] = link[c]
  BY <1>1, <1>2
<1>5. /\ link' \in [Conns -> Link] /\ link'[L].down = Tail(link[L].down)
      /\ \A c \in Conns : /\ link'[c].up = link[c].up /\ link'[c].broken = link[c].broken
                          /\ link'[c].serverEnd = link[c].serverEnd /\ link'[c].clientEnd = link[c].clientEnd
                          /\ Alive(link'[c]) <=> Alive(link[c])
  <2>1. link'[L] \in Link /\ link'[L].down = Tail(link[L].down)
        /\ link'[L].up = link[L].up /\ link'[L].broken = link[L].broken
        /\ link'[L].serverEnd = link[L].serverEnd /\ link'[L].clientEnd = link[L].clientEnd
    BY <1>2, <1>3, <1>4 DEF Link
  <2>2. QED
    BY <1>1, <1>2, <1>4, <2>1 DEF Alive
<1> HIDE DEF m
<1>6. PICK w \in {"recv", "close"} :
        \/ /\ m.id = "SPAWN_MACHINES" /\ history' = history
           /\ client' = [client EXCEPT ![p].cds = m.list, ![p].signal_cds_update = TRUE, ![p].cworker = w]
        \/ /\ m.id = "INVOKE" /\ history' = [history EXCEPT !.ordered = {o \in @ : o[2] # L}]
           /\ client' = [client EXCEPT ![p].cworker = w]
        \/ /\ m.id = "ADMIN_PASSWORD_OK" /\ history' = history
           /\ client' = [client EXCEPT ![p].RespQueue = @ + 1, ![p].cworker = w]
  BY DEF SpawnMachines, Execute, AdminPasswordOK, Hears, Inner, m, L
<1>7. m.id = "SPAWN_MACHINES" => m.list \in Lists
  BY <1>3 DEF ToClient
<1>8. /\ client'[p] \in Client /\ client' \in [Clients -> Client] /\ \A q \in Clients \ {p} : client'[q] = client[q]
      /\ client'[p].cworker = w /\ client'[p].last = client[p].last /\ client'[p].connected = client[p].connected
      /\ client'[p].ui = client[p].ui /\ client'[p].tried = client[p].tried
      /\ client'[p].shown = client[p].shown /\ client'[p].picked = client[p].picked
      /\ client'[p].cds = IF m.id = "SPAWN_MACHINES" THEN m.list ELSE client[p].cds
      /\ m.id = "SPAWN_MACHINES" => client'[p].signal_cds_update
      /\ m.id # "SPAWN_MACHINES" => client'[p].signal_cds_update = client[p].signal_cds_update
      /\ client'[p].RespQueue = IF m.id = "ADMIN_PASSWORD_OK" THEN client[p].RespQueue + 1 ELSE client[p].RespQueue
  <2>1. CASE m.id = "SPAWN_MACHINES"
    <3>1. client' = [client EXCEPT ![p].cds = m.list, ![p].signal_cds_update = TRUE, ![p].cworker = w]
      BY <1>6, <2>1
    <3>2. client'[p] = [client[p] EXCEPT !.cds = m.list, !.signal_cds_update = TRUE, !.cworker = w]
      BY <1>1, <3>1
    <3>3. m.list \in Lists
      BY <1>7, <2>1
    <3>4. client'[p] \in Client
      BY <1>1, <3>2, <3>3 DEF Client
    <3>5. client' \in [Clients -> Client] /\ \A q \in Clients \ {p} : client'[q] = client[q]
      BY <1>1, <3>1, <3>4
    <3>6. QED
      BY <1>1, <2>1, <3>2, <3>4, <3>5 DEF Client
  <2>2. CASE m.id = "INVOKE"
    <3>1. client' = [client EXCEPT ![p].cworker = w]
      BY <1>6, <2>2
    <3>2. client'[p] = [client[p] EXCEPT !.cworker = w]
      BY <1>1, <3>1
    <3>3. client'[p] \in Client
      BY <1>1, <3>2 DEF Client
    <3>4. client' \in [Clients -> Client] /\ \A q \in Clients \ {p} : client'[q] = client[q]
      BY <1>1, <3>1, <3>3
    <3>5. QED
      BY <1>1, <2>2, <3>2, <3>3, <3>4 DEF Client
  <2>3. CASE m.id = "ADMIN_PASSWORD_OK"
    <3>1. client' = [client EXCEPT ![p].RespQueue = @ + 1, ![p].cworker = w]
      BY <1>6, <2>3
    <3>2. client'[p] = [client[p] EXCEPT !.RespQueue = client[p].RespQueue + 1, !.cworker = w]
      BY <1>1, <3>1
    <3>3. client'[p] \in Client
      <4>1. client[p].RespQueue + 1 \in Nat
        BY <1>1 DEF Client
      <4>2. PICK n \in Nat : n = client[p].RespQueue + 1
        BY <4>1
      <4>3. client'[p] = [client[p] EXCEPT !.RespQueue = n, !.cworker = w]
        BY <3>2, <4>2
      <4>4. QED
        BY <1>1, <4>3 DEF Client
    <3>4. client' \in [Clients -> Client] /\ \A q \in Clients \ {p} : client'[q] = client[q]
      BY <1>1, <3>1, <3>3
    <3>5. QED
      BY <1>1, <2>3, <3>2, <3>3, <3>4 DEF Client
  <2>4. QED
    BY <1>6, <2>1, <2>2, <2>3
<1>9. /\ history' \in History /\ history'.late = history.late /\ history'.unheard = history.unheard
      /\ history'.given = history.given /\ history'.reused = history.reused
      /\ history'.ordered = IF m.id = "INVOKE" THEN {o \in history.ordered : o[2] # L} ELSE history.ordered
  <2>1. CASE m.id = "INVOKE"
    <3>1. PICK ordered : ordered = {o \in history.ordered : o[2] # L}
      OBVIOUS
    <3>2. history' = [history EXCEPT !.ordered = ordered] /\ ordered \subseteq Conns \X Conns
      BY <1>1, <1>6, <2>1, <3>1 DEF History
    <3>3. QED
      BY <1>1, <2>1, <3>1, <3>2 DEF History
  <2>2. CASE m.id # "INVOKE"
    BY <1>1, <1>6, <2>2
  <2>3. QED
    BY <2>1, <2>2
<1>10. \A q \in Clients : LastConn(q)' = LastConn(q) /\ client'[q].connected = client[q].connected
                          /\ client'[q].last = client[q].last
  BY <1>8 DEF LastConn
<1>11. TypeOK'
  BY <1>1, <1>5, <1>8, <1>9 DEF Inv, TypeOK, History
<1>12. Phases'
  <2>1. \A q \in Clients :
          /\ client'[q].last + left'.conns[q] <= MaxConns[q]
          /\ client'[q].cworker = "connect" => ~client'[q].connected
          /\ client'[q].connected \/ client'[q].cworker \in {"auth", "recv", "close"} => client'[q].last >= 1
    BY <1>1, <1>8 DEF Inv, Phases
  <2>2. \A c \in Conns : worker[c].pc = "none" => link'[c] = link[c]
    BY <1>2, <1>4, NewLinkIs DEF Inv, Phases
  <2>3. QED
    BY <1>1, <1>5, <1>10, <2>1, <2>2, ConnsAre DEF Inv, Phases, Listed
<1>13. Entries'
  BY <1>1, <1>9 DEF Inv, Entries, Listed
<1>14. Addressed'
  <2>1. /\ \A l : GoodList(l) => GoodList(l)'
        /\ \A N : GoodIDs(N) => GoodIDs(N)'
        /\ \A n : GoodUp(n) => GoodUp(n)'
        /\ \A c, n : GoodDown(c, n) => GoodDown(c, n)'
    <3>1. Noticed
      BY <1>1, <1>9 DEF Noticed
    <3>2. QED
      BY <3>1, GoodStays
  <2>2. \A n \in ToSet(link[L].down) : GoodDown(L, n)
    BY <1>2 DEF Inv, Addressed
  <2>3. GoodList(client'[p].cds) /\ GoodList(client'[p].shown) /\ GoodIDs(client'[p].picked)
    BY <1>3, <1>8, <2>2 DEF Inv, Addressed, GoodDown
  <2>4. \A q \in Clients : GoodList(client'[q].cds) /\ GoodList(client'[q].shown) /\ GoodIDs(client'[q].picked)
    BY <1>8, <2>3 DEF Inv, Addressed
  <2>5. \A c \in Conns : \A n \in ToSet(link'[c].down) : GoodDown(c, n)
    BY <1>3, <1>4, <1>5, <2>2 DEF Inv, Addressed
  <2>6. GoodList(cds) /\ \A c \in Conns : GoodIDs(worker[c].to) /\ \A n \in ToSet(link'[c].up) : GoodUp(n)
    BY <1>5 DEF Inv, Addressed
  <2>7. QED
    BY <1>1, <2>1, <2>4, <2>5, <2>6 DEF Addressed
<1>15. /\ \A q \in Clients : AnswerUnderWay(q)' => AnswerUnderWay(q)
       /\ \A q \in Clients : AnswerUnderWay(q) => AnswerUnderWay(q)' \/ (q = p /\ m.id = "ADMIN_PASSWORD_OK")
       /\ m.id = "ADMIN_PASSWORD_OK" => AnswerUnderWay(p)
  <2>1. m.id = "ADMIN_PASSWORD_OK" => AnswerUnderWay(p)
    BY <1>1, <1>3, AnswerIs DEF L
  <2>2. ASSUME NEW q \in Clients, q # p PROVE AnswerUnderWay(q)' <=> AnswerUnderWay(q)
    <3>1. client[q].connected => link'[LastConn(q)] = link[LastConn(q)]
      BY <1>2, <1>4, <2>2, LastConnIs DEF Inv, Phases
    <3>2. QED
      BY <1>10, <3>1 DEF AnswerUnderWay
  <2>3. AnswerUnderWay(p)' <=>
          /\ client'[p].connected
          /\ \/ \E n \in ToSet(link'[L].up) : n.pw = "right"
             \/ \E n \in ToSet(link'[L].down) : n.id = "ADMIN_PASSWORD_OK"
    BY <1>10 DEF AnswerUnderWay, ToSet, L
  <2>4. AnswerUnderWay(p) <=>
          /\ client[p].connected
          /\ \/ \E n \in ToSet(link[L].up) : n.pw = "right"
             \/ \E n \in ToSet(link[L].down) : n.id = "ADMIN_PASSWORD_OK"
    BY AnswerIs DEF L
  <2>5. QED
    BY <1>2, <1>3, <1>5, <1>10, <2>1, <2>2, <2>3, <2>4
<1>16. Answers'
  BY <1>8, <1>9, <1>15 DEF Inv, Answers, Answered
<1>17. Sessions'
  <2> SUFFICES ASSUME NEW c \in Conns PROVE Attended(c)'
    BY DEF Sessions
  <2>1. Attended(c) /\ c[1] \in Clients
    BY ConnsAre DEF Inv, Sessions
  <2>2. client[p].RespQueue \in Nat
    BY <1>1 DEF Client
  <2>3. client'[c[1]].ui = client[c[1]].ui /\ client'[c[1]].RespQueue >= client[c[1]].RespQueue
        /\ (c[1] = p /\ m.id = "ADMIN_PASSWORD_OK" => client'[p].RespQueue > 0)
        /\ client[c[1]].RespQueue \in Nat
    BY <1>1, <1>8, <2>1, <2>2 DEF Client
  <2>4. client'[c[1]].RespQueue \in Nat
    BY <1>8, <2>1 DEF Client
  <2>5. (client[c[1]].RespQueue > 0 \/ AnswerUnderWay(c[1])) => client'[c[1]].RespQueue > 0 \/ AnswerUnderWay(c[1])'
    BY <1>15, <2>1, <2>3, <2>4
  <2>6. QED
    BY <1>1, <1>5, <1>9, <2>1, <2>3, <2>5 DEF Attended
<1>18. Ordered'
  <2> SUFFICES ASSUME NEW o \in history.ordered, m.id = "INVOKE" => o[2] # L
               PROVE  /\ worker[o[1]].pc \notin {"none", "backlog"} /\ worker[o[2]].pc \notin {"none", "backlog", "gone"}
                      /\ main = "run" /\ Alive(link'[o[1]]) /\ Alive(link'[o[2]]) /\ Serving(o[1])
                           => Outstanding(o[1], o[2])'
    BY <1>1, <1>9 DEF Ordered, Serving
  <2>1. o[1] \in Conns /\ o[2] \in Conns
    BY DEF Inv, TypeOK
  <2>2. (\E n \in ToSet(link[o[2]].down) : n.id = "INVOKE") => \E n \in ToSet(link'[o[2]].down) : n.id = "INVOKE"
    BY <1>3, <1>4, <1>5, <2>1
  <2>3. Outstanding(o[1], o[2]) => Outstanding(o[1], o[2])'
    BY <1>1, <1>5, <2>1, <2>2 DEF Outstanding
  <2>4. QED
    BY <1>5, <2>1, <2>3 DEF Inv, Ordered
<1>19. Spread'
  <2>1. \A c \in Conns : Disturbs(c) <=> Disturbs(c)'
    BY <1>1, <1>5 DEF Disturbs, Listed
  <2>2. \A q \in Clients : Shows(q)'
    BY <1>8 DEF Inv, Spread, Shows
  <2>3. ASSUME NEW d \in Conns, Alive(link[d]), Learns(link[d].down, client[d[1]].cds, cds)
        PROVE  Learns(link'[d].down, client'[d[1]].cds, cds)
    <3>1. CASE d = L
      <4>1. Learns(Tail(link[L].down), client'[p].cds, cds)
        BY <1>1, <1>2, <1>8, <2>3, <3>1, LearnsTaken DEF m
      <4>2. QED
        BY <1>2, <1>5, <3>1, <4>1
    <3>2. CASE d # L
      <4>1. d[1] # p /\ d[1] \in Clients
        BY <1>2, <2>3, <3>2, ConnsAre DEF Alive
      <4>2. QED
        BY <1>4, <1>8, <2>3, <3>2, <4>1
    <3>3. QED
      BY <3>1, <3>2
  <2>4. QED
    BY <1>1, <1>5, <2>1, <2>2, <2>3 DEF Inv, Spread, Serving
<1>20. QED
  BY <1>11, <1>12, <1>13, <1>14, <1>16, <1>17, <1>18, <1>19 DEF Inv

-----------------------------------------------------------------------------
(* Connections come and go. *)

LEMMA ClientEndClosedIs ==
  ASSUME NEW l \in Link
  PROVE  LET k == ClientEndClosed(l) IN
         /\ k \in Link /\ ~Alive(k) /\ k.clientEnd = "closed"
         /\ k.serverEnd = IF l.serverEnd = "open" THEN "open" ELSE "closed"
         /\ ToSet(k.up) \subseteq ToSet(l.up) /\ ToSet(k.down) = {}
<1>1. ToSet(<<>>) = {}
  BY DEF ToSet
<1>2. CASE l.serverEnd = "open"
  <2>1. ClientEndClosed(l) = [l EXCEPT !.clientEnd = "closed", !.down = <<>>]
    BY <1>2 DEF ClientEndClosed
  <2>2. QED
    BY <1>1, <1>2, <2>1, EmptySeq DEF Link, Alive
<1>3. CASE l.serverEnd # "open"
  <2>1. ClientEndClosed(l) = [NewLink EXCEPT !.serverEnd = "closed", !.clientEnd = "closed"]
    BY <1>3 DEF ClientEndClosed
  <2>2. QED
    BY <1>1, <1>3, <2>1, NewLinkIs DEF Link, Alive
<1>4. QED
  BY <1>2, <1>3

\* A client closes its end.
LEMMA ClosingSteps == ASSUME Inv, NEW p \in Clients, Close(p) \/ Interrupt(p) PROVE Inv'
<1> DEFINE L == LastConn(p)
<1>1. /\ client \in [Clients -> Client] /\ client[p] \in Client /\ link \in [Conns -> Link]
      /\ UNCHANGED <<main, netclients, cds, worker, left, history>> /\ link' = Closed(p)
      /\ \/ client' = [client EXCEPT ![p].cworker = "connect", ![p].connected = FALSE]
         \/ client' = [client EXCEPT ![p].ui = "await", ![p].connected = FALSE]
  BY DEF Inv, TypeOK, Close, Interrupt
<1>2. /\ client'[p] \in Client /\ client' \in [Clients -> Client] /\ \A q \in Clients \ {p} : client'[q] = client[q]
      /\ client'[p].last = client[p].last /\ client'[p].connected = FALSE
      /\ client'[p].cworker \in {client[p].cworker, "connect"} /\ client'[p].ui \in {client[p].ui, "await"}
      /\ client'[p].tried = client[p].tried /\ client'[p].RespQueue = client[p].RespQueue
      /\ client'[p].shown = client[p].shown /\ client'[p].picked = client[p].picked
      /\ client'[p].cds = client[p].cds /\ client'[p].signal_cds_update = client[p].signal_cds_update
  <2>1. CASE client' = [client EXCEPT ![p].cworker = "connect", ![p].connected = FALSE]
    <3>1. client'[p] = [client[p] EXCEPT !.cworker = "connect", !.connected = FALSE]
      BY <1>1, <2>1
    <3>2. client'[p] \in Client
      BY <1>1, <3>1 DEF Client
    <3>3. QED
      BY <1>1, <2>1, <3>1, <3>2 DEF Client
  <2>2. CASE client' = [client EXCEPT ![p].ui = "await", ![p].connected = FALSE]
    <3>1. client'[p] = [client[p] EXCEPT !.ui = "await", !.connected = FALSE]
      BY <1>1, <2>2
    <3>2. client'[p] \in Client
      BY <1>1, <3>1 DEF Client
    <3>3. QED
      BY <1>1, <2>2, <3>1, <3>2 DEF Client
  <2>3. QED
    BY <1>1, <2>1, <2>2
<1>3. /\ client[p].connected => L \in Conns /\ L[1] = p /\ worker[L].pc # "none"
      /\ \A c \in Conns : c[1] = p /\ link[c].clientEnd = "open" => client[p].connected /\ c = L
  BY LastConnIs DEF Inv, Phases
<1> HIDE DEF L
<1>4. /\ link' \in [Conns -> Link]
      /\ \A c \in Conns :
           /\ link'[c] = link[c] \/ (client[p].connected /\ c = L)
           /\ ToSet(link'[c].up) \subseteq ToSet(link[c].up) /\ ToSet(link'[c].down) \subseteq ToSet(link[c].down)
           /\ link[c].serverEnd \in {"open", "closed"} => link'[c].serverEnd = link[c].serverEnd
           /\ link'[c].clientEnd = "open" <=> link[c].clientEnd = "open" /\ c[1] # p
           /\ c[1] # p => link'[c] = link[c]
           /\ Alive(link'[c]) => Alive(link[c]) /\ c[1] # p
  <2>1. CASE ~client[p].connected
    BY <1>1, <1>3, <2>1 DEF Closed, Alive
  <2>2. CASE client[p].connected
    <3>1. /\ link'[L] = ClientEndClosed(link[L]) /\ link[L] \in Link
          /\ link' = [link EXCEPT ![L] = ClientEndClosed(link[L])]
      BY <1>1, <1>3, <2>2 DEF Closed, L
    <3>2. /\ link'[L] \in Link /\ ~Alive(link'[L]) /\ link'[L].clientEnd = "closed"
          /\ link'[L].serverEnd = IF link[L].serverEnd = "open" THEN "open" ELSE "closed"
          /\ ToSet(link'[L].up) \subseteq ToSet(link[L].up) /\ ToSet(link'[L].down) = {}
      BY <3>1, ClientEndClosedIs
    <3>3. link' \in [Conns -> Link] /\ \A c \in Conns : c # L => link'[c] = link[c]
      BY <1>1, <3>1, <3>2
    <3>4. QED
      BY <1>3, <2>2, <3>2, <3>3 DEF Alive
  <2>3. QED
    BY <2>1, <2>2
<1>5. \A q \in Clients : /\ LastConn(q)' = LastConn(q) /\ client'[q].last = client[q].last
                         /\ q # p => client'[q] = client[q]
                         /\ client'[q].cds = client[q].cds
  BY <1>2 DEF LastConn
<1>6. TypeOK'
  BY <1>1, <1>2, <1>4 DEF Inv, TypeOK
<1>7. Phases'
  <2>1. \A q \in Clients :
          /\ client'[q].last + left'.conns[q] <= MaxConns[q]
          /\ client'[q].cworker = "connect" => ~client'[q].connected
          /\ client'[q].connected \/ client'[q].cworker \in {"auth", "recv", "close"} => client'[q].last >= 1
    BY <1>1, <1>2 DEF Inv, Phases
  <2>2. \A c \in Conns : worker[c].pc = "none" => link'[c] = link[c]
    BY <1>3, <1>4
  <2>3. \A c \in Conns : link'[c].clientEnd = "open" <=> client'[c[1]].connected /\ c[2] = client'[c[1]].last
    BY <1>2, <1>4, <1>5, ConnsAre DEF Inv, Phases
  <2>4. \A c \in Conns :
       /\ worker[c].pc = "none" <=> c[2] > client'[c[1]].last
       /\ worker[c].pc = "gone" => link'[c].serverEnd = "closed"
       /\ worker[c].pc \notin {"none", "gone"} /\ main \in {"run", "close"} => link'[c].serverEnd = "open"
    BY <1>4, <1>5, ConnsAre DEF Inv, Phases
  <2>5. QED
    BY <1>1, <2>1, <2>2, <2>3, <2>4 DEF Inv, Phases, Listed
<1>8. Entries'
  BY <1>1 DEF Inv, Entries, Listed
<1>9. Addressed'
  <2>1. /\ \A l : GoodList(l) => GoodList(l)'
        /\ \A N : GoodIDs(N) => GoodIDs(N)'
        /\ \A n : GoodUp(n) => GoodUp(n)'
        /\ \A c, n : GoodDown(c, n) => GoodDown(c, n)'
    <3>1. Noticed
      BY <1>1 DEF Noticed
    <3>2. QED
      BY <3>1, GoodStays
  <2>2. \A q \in Clients : GoodList(client'[q].cds) /\ GoodList(client'[q].shown) /\ GoodIDs(client'[q].picked)
    BY <1>2 DEF Inv, Addressed
  <2>3. \A c \in Conns : /\ \A n \in ToSet(link'[c].up) : GoodUp(n)
                         /\ \A n \in ToSet(link'[c].down) : GoodDown(c, n)
    BY <1>4 DEF Inv, Addressed
  <2>4. GoodList(cds) /\ \A c \in Conns : GoodIDs(worker[c].to)
    BY DEF Inv, Addressed
  <2>5. QED
    BY <1>1, <2>1, <2>2, <2>3, <2>4 DEF Addressed
<1>10. ASSUME NEW q \in Clients, q # p PROVE AnswerUnderWay(q)' <=> AnswerUnderWay(q)
  <2>1. client[q].connected => link'[LastConn(q)] = link[LastConn(q)]
    BY <1>4, <1>10, LastConnIs DEF Inv, Phases
  <2>2. QED
    BY <1>5, <1>10, <2>1 DEF AnswerUnderWay
<1>11. Answers'
  <2> SUFFICES ASSUME NEW q \in Clients PROVE Answered(q)'
    BY DEF Answers
  <2>1. Answered(q)
    BY DEF Inv, Answers
  <2>2. ~AnswerUnderWay(p)'
    BY <1>2 DEF AnswerUnderWay
  <2>3. QED
    BY <1>1, <1>2, <1>10, <2>1, <2>2 DEF Answered
<1>12. Sessions'
  <2> SUFFICES ASSUME NEW c \in Conns PROVE Attended(c)'
    BY DEF Sessions
  <2>1. Attended(c) /\ c[1] \in Clients
    BY ConnsAre DEF Inv, Sessions
  <2>2. QED
    BY <1>1, <1>4, <1>5, <1>10, <2>1 DEF Attended
<1>13. Ordered'
  <2> SUFFICES ASSUME NEW o \in history.ordered
               PROVE  main = "run" /\ Alive(link'[o[1]]) /\ Alive(link'[o[2]]) /\ Serving(o[1])
                        => Outstanding(o[1], o[2])'
    BY <1>1 DEF Inv, Ordered, Serving
  <2>1. o[1] \in Conns /\ o[2] \in Conns
    BY DEF Inv, TypeOK
  <2>2. Alive(link'[o[1]]) /\ Alive(link'[o[2]]) => link'[o[1]] = link[o[1]] /\ link'[o[2]] = link[o[2]]
    BY <1>4, <2>1
  <2>3. QED
    BY <1>1, <2>1, <2>2 DEF Inv, Ordered, Outstanding
<1>14. Spread'
  <2>1. \A c \in Conns : Disturbs(c) => Disturbs(c)'
    BY <1>1, <1>4 DEF Disturbs, Listed
  <2>2. \A q \in Clients : Shows(q)'
    BY <1>2 DEF Inv, Spread, Shows
  <2>3. \A d \in Conns : Alive(link'[d]) => Alive(link[d]) /\ link'[d] = link[d] /\ client'[d[1]].cds = client[d[1]].cds
    BY <1>4, <1>5, ConnsAre
  <2>4. QED
    BY <1>1, <2>1, <2>2, <2>3 DEF Inv, Spread, Serving
<1>15. QED
  BY <1>6, <1>7, <1>8, <1>9, <1>11, <1>12, <1>13, <1>14 DEF Inv

\* The network loses a connection.
LEMMA BreakKeeps == ASSUME Inv, NEW b \in Conns, Break(b) PROVE Inv'
<1>1. /\ link \in [Conns -> Link] /\ link[b] \in Link
      /\ UNCHANGED <<main, netclients, cds, worker, client, history>>
      /\ link' = [link EXCEPT ![b].broken = TRUE, ![b].up = <<>>, ![b].down = <<>>]
      /\ link[b].serverEnd = "open"
  BY DEF Inv, TypeOK, Break, Alive
<1>2. left' \in Left /\ left'.conns = left.conns
  BY LeftIs DEF Inv, Break
<1>3. link'[b] = [link[b] EXCEPT !.broken = TRUE, !.up = <<>>, !.down = <<>>] /\ ToSet(<<>>) = {}
  BY <1>1 DEF ToSet
<1>4. /\ link' \in [Conns -> Link]
      /\ \A c \in Conns :
           /\ c # b => link'[c] = link[c]
           /\ ToSet(link'[c].up) \subseteq ToSet(link[c].up) /\ ToSet(link'[c].down) \subseteq ToSet(link[c].down)
           /\ link'[c].serverEnd = link[c].serverEnd /\ link'[c].clientEnd = link[c].clientEnd
           /\ Alive(link'[c]) => Alive(link[c]) /\ c # b
  <2>1. /\ link'[b] \in Link /\ ~Alive(link'[b]) /\ link'[b].up = <<>> /\ link'[b].down = <<>>
        /\ link'[b].serverEnd = link[b].serverEnd /\ link'[b].clientEnd = link[b].clientEnd
    BY <1>1, <1>3, EmptySeq DEF Link, Alive
  <2>2. link' \in [Conns -> Link] /\ \A c \in Conns : c # b => link'[c] = link[c]
    BY <1>1, <2>1
  <2>3. QED
    BY <1>3, <2>1, <2>2
<1>5. TypeOK'
  BY <1>1, <1>2, <1>4 DEF Inv, TypeOK, Left
<1>6. Phases'
  <2>1. \A c \in Conns : worker[c].pc = "none" => link'[c] = link[c]
    BY <1>1, <1>4, NewLinkIs DEF Inv, Phases
  <2>2. \A q \in Clients : client[q].last + left'.conns[q] <= MaxConns[q]
    BY <1>2 DEF Inv, Phases
  <2>3. \A c \in Conns :
       /\ worker[c].pc = "gone" => link'[c].serverEnd = "closed"
       /\ worker[c].pc \notin {"none", "gone"} /\ main \in {"run", "close"} => link'[c].serverEnd = "open"
       /\ link'[c].clientEnd = "open" <=> client[c[1]].connected /\ c[2] = client[c[1]].last
    BY <1>4 DEF Inv, Phases
  <2>4. main' = main /\ worker' = worker /\ client' = client
    BY <1>1
  <2>5. QED
    BY <2>1, <2>2, <2>3, <2>4 DEF Inv, Phases, Listed
<1>7. Entries'
  BY <1>1 DEF Inv, Entries, Listed
<1>8. Addressed'
  <2>1. /\ \A l : GoodList(l) => GoodList(l)'
        /\ \A N : GoodIDs(N) => GoodIDs(N)'
        /\ \A n : GoodUp(n) => GoodUp(n)'
        /\ \A c, n : GoodDown(c, n) => GoodDown(c, n)'
    <3>1. Noticed
      BY <1>1 DEF Noticed
    <3>2. QED
      BY <3>1, GoodStays
  <2>2. \A c \in Conns : /\ \A n \in ToSet(link'[c].up) : GoodUp(n)
                         /\ \A n \in ToSet(link'[c].down) : GoodDown(c, n)
    BY <1>4 DEF Inv, Addressed
  <2>3. /\ GoodList(cds) /\ \A c \in Conns : GoodIDs(worker[c].to)
        /\ \A q \in Clients : GoodList(client[q].cds) /\ GoodList(client[q].shown) /\ GoodIDs(client[q].picked)
    BY DEF Inv, Addressed
  <2>4. QED
    BY <1>1, <2>1, <2>2, <2>3 DEF Addressed
<1>9. \A q \in Clients : LastConn(q)' = LastConn(q)
  BY <1>1 DEF LastConn
<1>10. ASSUME NEW q \in Clients
       PROVE  /\ AnswerUnderWay(q)' => AnswerUnderWay(q)
              /\ LastConn(q) # b => (AnswerUnderWay(q)' <=> AnswerUnderWay(q))
  <2>1. CASE LastConn(q) # b /\ client[q].connected
    <3>1. link'[LastConn(q)] = link[LastConn(q)]
      BY <1>4, <2>1, LastConnIs DEF Inv, Phases
    <3>2. QED
      BY <1>1, <1>9, <3>1 DEF AnswerUnderWay
  <2>2. CASE LastConn(q) = b
    <3>1. link'[b].up = <<>> /\ link'[b].down = <<>>
      BY <1>1, <1>3 DEF Link
    <3>2. ~AnswerUnderWay(q)'
      BY <1>9, <2>2, <3>1 DEF AnswerUnderWay
    <3>3. QED
      BY <2>2, <3>2
  <2>3. CASE ~client[q].connected
    BY <1>1, <2>3 DEF AnswerUnderWay
  <2>4. QED
    BY <2>1, <2>2, <2>3
<1>11. Answers'
  BY <1>1, <1>10 DEF Inv, Answers, Answered
<1>12. Sessions'
  <2> SUFFICES ASSUME NEW c \in Conns, c # b, Alive(link[c]) PROVE Attended(c)'
    BY <1>4 DEF Sessions, Attended
  <2>1. Attended(c) /\ c[1] \in Clients /\ LastConn(c[1]) = c
    <3>1. c[1] \in Clients /\ client[c[1]].connected
      BY ConnsAre DEF Inv, Phases, Alive
    <3>2. client[c[1]].last >= 1
      BY <3>1 DEF Inv, Phases
    <3>3. LastConn(c[1]) = c
      BY <3>1, <3>2, LastConnIs DEF Alive
    <3>4. QED
      BY <3>1, <3>3 DEF Inv, Sessions
  <2>2. QED
    BY <1>1, <1>4, <1>10, <2>1 DEF Attended
<1>13. Ordered'
  <2> SUFFICES ASSUME NEW o \in history.ordered
               PROVE  main = "run" /\ Alive(link'[o[1]]) /\ Alive(link'[o[2]]) /\ Serving(o[1])
                        => Outstanding(o[1], o[2])'
    BY <1>1 DEF Inv, Ordered, Serving
  <2>1. o[1] \in Conns /\ o[2] \in Conns
    BY DEF Inv, TypeOK
  <2>2. Alive(link'[o[1]]) /\ Alive(link'[o[2]]) => link'[o[1]] = link[o[1]] /\ link'[o[2]] = link[o[2]]
    BY <1>4, <2>1
  <2>3. QED
    BY <1>1, <2>1, <2>2 DEF Inv, Ordered, Outstanding
<1>14. Spread'
  <2>1. \A c \in Conns : Disturbs(c) => Disturbs(c)'
    BY <1>1, <1>4 DEF Disturbs, Listed
  <2>2. \A q \in Clients : Shows(q)'
    BY <1>1 DEF Inv, Spread, Shows
  <2>3. \A d \in Conns : Alive(link'[d]) => Alive(link[d]) /\ link'[d] = link[d]
    BY <1>4
  <2>4. QED
    BY <1>1, <2>1, <2>2, <2>3 DEF Inv, Spread, Serving
<1>15. QED
  BY <1>5, <1>6, <1>7, <1>8, <1>11, <1>12, <1>13, <1>14 DEF Inv

LEMMA ConnectKeeps == ASSUME Inv, NEW p \in Clients, Connect(p) PROVE Inv'
<1> DEFINE N == <<p, client[p].last + 1>>
<1>1. /\ client \in [Clients -> Client] /\ client[p] \in Client /\ link \in [Conns -> Link] /\ left \in Left
      /\ worker \in [Conns -> Worker] /\ client[p].last \in Nat /\ left.conns \in [Clients -> Nat]
      /\ UNCHANGED <<main, netclients, cds, history>> /\ main \in {"run", "close"}
      /\ client' = [client EXCEPT ![p].cworker = "auth", ![p].connected = TRUE, ![p].last = @ + 1]
      /\ link' = [link EXCEPT ![N].serverEnd = "open", ![N].clientEnd = "open"]
      /\ worker' = [worker EXCEPT ![N].pc = "backlog"]
      /\ left' = [left EXCEPT !.conns[p] = @ - 1]
      /\ left.conns[p] > 0 /\ client[p].cworker = "connect"
  BY DEF Inv, TypeOK, Client, Left, Connect
<1>2. /\ N \in Conns /\ N[1] = p /\ N[2] = client[p].last + 1 /\ client[p].last + 1 <= MaxConns[p]
      /\ ~client[p].connected
  <2>1. client[p].last + left.conns[p] <= MaxConns[p] /\ left.conns[p] \in Nat /\ MaxConns[p] \in Nat
        /\ ~client[p].connected
    BY <1>1, ConnsAre DEF Inv, Phases
  <2>2. client[p].last + 1 \in Nat /\ client[p].last + 1 >= 1 /\ client[p].last + 1 <= MaxConns[p]
    BY <1>1, <2>1
  <2>3. QED
    BY <2>1, <2>2, ConnsAre
<1> HIDE DEF N
<1>3. /\ worker[N].pc = "none" /\ link[N] = NewLink /\ worker[N].socket = NoEntry
      /\ ~worker[N].auth /\ ~worker[N].admin_password_verified
  BY <1>1, <1>2, SMTT(30) DEF Inv, Phases, Listed
<1>4. /\ client'[p] \in Client /\ client' \in [Clients -> Client] /\ \A q \in Clients \ {p} : client'[q] = client[q]
      /\ client'[p].last = client[p].last + 1 /\ client'[p].connected /\ client'[p].cworker = "auth"
      /\ client'[p].ui = client[p].ui /\ client'[p].tried = client[p].tried
      /\ client'[p].RespQueue = client[p].RespQueue
      /\ client'[p].shown = client[p].shown /\ client'[p].picked = client[p].picked
      /\ client'[p].cds = client[p].cds /\ client'[p].signal_cds_update = client[p].signal_cds_update
  <2>1. PICK n \in Nat : n = client[p].last + 1
    BY <1>1
  <2>2. client'[p] = [client[p] EXCEPT !.cworker = "auth", !.connected = TRUE, !.last = n]
    BY <1>1, <2>1
  <2>3. client'[p] \in Client
    BY <1>1, <2>2 DEF Client
  <2>4. client' \in [Clients -> Client] /\ \A q \in Clients \ {p} : client'[q] = client[q]
    BY <1>1, <2>3
  <2>5. QED
    BY <1>1, <2>1, <2>2, <2>3, <2>4 DEF Client
<1>5. /\ link' \in [Conns -> Link] /\ \A c \in Conns : c # N => link'[c] = link[c]
      /\ link'[N].up = <<>> /\ link'[N].down = <<>> /\ ToSet(link'[N].up) = {} /\ ToSet(link'[N].down) = {}
      /\ link'[N].serverEnd = "open" /\ link'[N].clientEnd = "open"
  <2>1. link'[N] = [NewLink EXCEPT !.serverEnd = "open", !.clientEnd = "open"]
    BY <1>1, <1>2, <1>3
  <2>2. /\ link'[N] \in Link /\ link'[N].up = <<>> /\ link'[N].down = <<>>
        /\ link'[N].serverEnd = "open" /\ link'[N].clientEnd = "open"
    BY <2>1, NewLinkIs DEF Link, NewLink
  <2>3. link' \in [Conns -> Link] /\ \A c \in Conns : c # N => link'[c] = link[c]
    BY <1>1, <2>2
  <2>4. ToSet(<<>>) = {}
    BY DEF ToSet
  <2>5. QED
    BY <2>2, <2>3, <2>4
<1>6. /\ worker' \in [Conns -> Worker] /\ \A c \in Conns : c # N => worker'[c] = worker[c]
      /\ worker'[N].pc = "backlog" /\ worker'[N].to = worker[N].to /\ worker'[N].socket = NoEntry
      /\ ~worker'[N].auth /\ ~worker'[N].admin_password_verified
      /\ \A c \in Conns : worker'[c].socket = worker[c].socket /\ worker'[c].to = worker[c].to
  <2>1. worker'[N] = [worker[N] EXCEPT !.pc = "backlog"] /\ worker[N] \in Worker
    BY <1>1, <1>2
  <2>2. /\ worker'[N] \in Worker /\ worker'[N].pc = "backlog" /\ worker'[N].to = worker[N].to
        /\ worker'[N].socket = worker[N].socket /\ worker'[N].auth = worker[N].auth
        /\ worker'[N].admin_password_verified = worker[N].admin_password_verified
    BY <2>1 DEF Worker
  <2>3. worker' \in [Conns -> Worker] /\ \A c \in Conns : c # N => worker'[c] = worker[c]
    BY <1>1, <2>2
  <2>4. QED
    BY <1>3, <2>2, <2>3
<1>7. /\ left' \in Left /\ left'.conns[p] = left.conns[p] - 1
      /\ \A q \in Clients \ {p} : left'.conns[q] = left.conns[q]
  <2>1. PICK conns : conns = [left.conns EXCEPT ![p] = @ - 1]
    OBVIOUS
  <2>2. /\ conns \in [Clients -> Nat] /\ conns[p] = left.conns[p] - 1
        /\ \A q \in Clients \ {p} : conns[q] = left.conns[q]
    BY <1>1, <2>1
  <2>3. left' = [left EXCEPT !.conns = conns]
    BY <1>1, <2>1
  <2>4. left' \in Left /\ left'.conns = conns
    BY <1>1, <2>2, <2>3 DEF Left
  <2>5. QED
    BY <2>2, <2>4
<1>8. \A q \in Clients : q # p => LastConn(q)' = LastConn(q)
  BY <1>4 DEF LastConn
<1>9. \A c \in Conns : c[1] \in Clients /\ c[2] \in Nat /\ (c[1] = p /\ c[2] = client[p].last + 1 => c = N)
                       /\ client[c[1]].last \in Nat
  BY <1>1, ConnsAre DEF N, Client
<1>10. TypeOK'
  BY <1>1, <1>4, <1>5, <1>6, <1>7 DEF Inv, TypeOK, Left
<1>11. Phases'
  <2>1. \A q \in Clients :
          /\ client'[q].last + left'.conns[q] <= MaxConns[q]
          /\ client'[q].cworker = "connect" => ~client'[q].connected
          /\ client'[q].connected \/ client'[q].cworker \in {"auth", "recv", "close"} => client'[q].last >= 1
    <3> TAKE q \in Clients
    <3>1. CASE q = p
      <4>1. client[p].last + left.conns[p] <= MaxConns[p] /\ left.conns[p] \in Nat
        BY <1>1 DEF Inv, Phases
      <4>2. QED
        BY <1>1, <1>4, <1>7, <3>1, <4>1
    <3>2. CASE q # p
      BY <1>4, <1>7, <3>2 DEF Inv, Phases
    <3>3. QED
      BY <3>1, <3>2
  <2>2. \A c \in Conns :
          /\ worker'[c].pc = "none" <=> c[2] > client'[c[1]].last
          /\ link'[c].clientEnd = "open" <=> client'[c[1]].connected /\ c[2] = client'[c[1]].last
    <3> TAKE c \in Conns
    <3>1. CASE c = N
      BY <1>1, <1>2, <1>4, <1>5, <1>6, <3>1
    <3>2. CASE c # N /\ c[1] = p
      <4>1. c[2] # client[p].last + 1 /\ c[2] \in Nat /\ client[p].last \in Nat
        BY <1>1, <1>9, <3>2
      <4>2. worker[c].pc = "none" <=> c[2] > client[p].last
        BY <3>2 DEF Inv, Phases
      <4>3. link[c].clientEnd # "open"
        BY <1>2, <3>2 DEF Inv, Phases
      <4>4. c[2] > client[p].last <=> c[2] > client[p].last + 1
        BY <4>1
      <4>5. QED
        BY <1>4, <1>5, <1>6, <3>2, <4>1, <4>2, <4>3, <4>4
    <3>3. CASE c[1] # p
      <4>1. c # N
        BY <1>2, <3>3
      <4>2. QED
        BY <1>4, <1>5, <1>6, <1>9, <3>3, <4>1 DEF Inv, Phases
    <3>4. QED
      BY <3>1, <3>2, <3>3
  <2>3. \A c \in Conns :
          /\ worker'[c].pc = "none" => link'[c] = NewLink
          /\ worker'[c].pc \in {"none", "backlog", "gone"} <=> worker'[c].socket = NoEntry
          /\ worker'[c].admin_password_verified => worker'[c].auth
          /\ worker'[c].auth => Listed(c)'
          /\ worker'[c].pc = "gone" => link'[c].serverEnd = "closed"
          /\ worker'[c].pc \notin {"none", "gone"} /\ main \in {"run", "close"} => link'[c].serverEnd = "open"
    <3> TAKE c \in Conns
    <3>1. CASE c = N
      BY <1>5, <1>6, <3>1
    <3>2. CASE c # N
      BY <1>5, <1>6, <3>2 DEF Inv, Phases, Listed
    <3>3. QED
      BY <3>1, <3>2
  <2>4. QED
    BY <1>1, <2>1, <2>2, <2>3 DEF Phases
<1>12. \A c \in Conns : (Listed(c)' <=> Listed(c)) /\ (Serving(c)' <=> Serving(c))
  BY <1>3, <1>6 DEF Listed, Serving
<1>13. Entries'
  BY <1>1, <1>6, <1>12 DEF Inv, Entries
<1>14. Addressed'
  <2>1. /\ \A l : GoodList(l) => GoodList(l)'
        /\ \A M : GoodIDs(M) => GoodIDs(M)'
        /\ \A n : GoodUp(n) => GoodUp(n)'
        /\ \A c, n : GoodDown(c, n) => GoodDown(c, n)'
    <3>1. Noticed
      BY <1>1, <1>6 DEF Noticed
    <3>2. QED
      BY <3>1, GoodStays
  <2>2. \A q \in Clients : GoodList(client'[q].cds) /\ GoodList(client'[q].shown) /\ GoodIDs(client'[q].picked)
    BY <1>4 DEF Inv, Addressed
  <2>3. \A c \in Conns : /\ GoodIDs(worker'[c].to)
                         /\ \A n \in ToSet(link'[c].up) : GoodUp(n)
                         /\ \A n \in ToSet(link'[c].down) : GoodDown(c, n)
    BY <1>5, <1>6 DEF Inv, Addressed
  <2>4. GoodList(cds)
    BY DEF Inv, Addressed
  <2>5. QED
    BY <1>1, <2>1, <2>2, <2>3, <2>4 DEF Addressed
<1>15. ASSUME NEW q \in Clients, q # p PROVE AnswerUnderWay(q)' <=> AnswerUnderWay(q)
  <2>1. client[q].connected => link'[LastConn(q)] = link[LastConn(q)]
    <3> SUFFICES ASSUME client[q].connected PROVE link'[LastConn(q)] = link[LastConn(q)]
      OBVIOUS
    <3>1. LastConn(q) \in Conns /\ LastConn(q)[1] = q
      BY LastConnIs DEF Inv, Phases
    <3>2. LastConn(q) # N
      BY <1>2, <1>15, <3>1
    <3>3. QED
      BY <1>5, <3>1, <3>2
  <2>2. QED
    BY <1>4, <1>8, <1>15, <2>1 DEF AnswerUnderWay
<1>16. Answers'
  <2> SUFFICES ASSUME NEW q \in Clients PROVE Answered(q)'
    BY DEF Answers
  <2>1. Answered(q)
    BY DEF Inv, Answers
  <2>2. CASE q = p
    <3>1. LastConn(p)' = N
      BY <1>4 DEF LastConn, N
    <3>2. ~AnswerUnderWay(p)'
      BY <1>5, <3>1 DEF AnswerUnderWay
    <3>3. QED
      BY <1>1, <1>4, <2>1, <2>2, <3>2 DEF Answered
  <2>3. CASE q # p
    BY <1>1, <1>4, <1>15, <2>1, <2>3 DEF Answered
  <2>4. QED
    BY <2>2, <2>3
<1>17. Sessions'
  <2> SUFFICES ASSUME NEW c \in Conns PROVE Attended(c)'
    BY DEF Sessions
  <2>1. CASE c = N
    <3>1. ~Verifies(link'[N].up, worker'[N].admin_password_verified)
      BY <1>5, <1>6 DEF Verifies
    <3>2. QED
      BY <2>1, <3>1 DEF Attended
  <2>2. CASE c # N /\ c[1] = p
    <3>1. ~Alive(link'[c])
      BY <1>2, <1>5, <2>2 DEF Inv, Phases, Alive
    <3>2. QED
      BY <3>1 DEF Attended
  <2>3. CASE c[1] # p
    <3>1. c # N
      BY <1>2, <2>3
    <3>2. Attended(c)
      BY DEF Inv, Sessions
    <3>3. QED
      BY <1>1, <1>4, <1>5, <1>6, <1>9, <1>15, <2>3, <3>1, <3>2 DEF Attended
  <2>4. QED
    BY <2>1, <2>2, <2>3
<1>18. Ordered'
  <2> SUFFICES ASSUME NEW o \in history.ordered
               PROVE  /\ worker'[o[1]].pc \notin {"none", "backlog"} /\ worker'[o[2]].pc \notin {"none", "backlog", "gone"}
                      /\ main = "run" /\ Alive(link'[o[1]]) /\ Alive(link'[o[2]]) /\ Serving(o[1])'
                        => Outstanding(o[1], o[2])'
    BY <1>1 DEF Ordered
  <2>1. o[1] \in Conns /\ o[2] \in Conns
    BY DEF Inv, TypeOK
  <2>2. o[1] # N /\ o[2] # N
    BY <1>3 DEF Inv, Ordered
  <2>3. /\ link'[o[1]] = link[o[1]] /\ link'[o[2]] = link[o[2]]
        /\ worker'[o[1]] = worker[o[1]] /\ worker'[o[2]] = worker[o[2]]
    BY <1>5, <1>6, <2>1, <2>2
  <2>4. Outstanding(o[1], o[2]) => Outstanding(o[1], o[2])'
    BY <2>3 DEF Outstanding
  <2>5. Serving(o[1])' <=> Serving(o[1])
    BY <1>12, <2>1
  <2>6. QED
    BY <1>1, <2>3, <2>4, <2>5 DEF Inv, Ordered
<1>19. Spread'
  <2>1. \A c \in Conns : Disturbs(c) => Disturbs(c)'
    BY <1>1, <1>3, <1>5, <1>6, <1>12 DEF Disturbs, Listed
  <2>2. \A q \in Clients : Shows(q)'
    BY <1>4 DEF Inv, Spread, Shows
  <2>3. \A d \in Conns : Serving(d) => link'[d] = link[d] /\ client'[d[1]].cds = client[d[1]].cds
    BY <1>3, <1>4, <1>5, <1>9 DEF Serving
  <2>4. QED
    BY <1>1, <1>12, <2>1, <2>2, <2>3 DEF Inv, Spread
<1>20. QED
  BY <1>10, <1>11, <1>13, <1>14, <1>16, <1>17, <1>18, <1>19 DEF Inv

-----------------------------------------------------------------------------
(* The server closes connections. *)

LEMMA ServerEndClosedIs ==
  ASSUME NEW l \in Link
  PROVE  LET k == ServerEndClosed(l) IN
         /\ k \in Link /\ ~Alive(k) /\ k.serverEnd = "closed"
         /\ k.clientEnd = "open" <=> l.clientEnd = "open"
         /\ ToSet(k.up) \subseteq ToSet(l.up) /\ ToSet(k.down) \subseteq ToSet(l.down)
<1>1. ToSet(<<>>) = {}
  BY DEF ToSet
<1>2. CASE l.clientEnd = "open"
  <2>1. ServerEndClosed(l) = [l EXCEPT !.serverEnd = "closed", !.up = <<>>]
    BY <1>2 DEF ServerEndClosed
  <2>2. QED
    BY <1>1, <1>2, <2>1, EmptySeq DEF Link, Alive
<1>3. CASE l.clientEnd # "open"
  <2>1. ServerEndClosed(l) = [NewLink EXCEPT !.serverEnd = "closed", !.clientEnd = "closed"]
    BY <1>3 DEF ServerEndClosed
  <2>2. QED
    BY <1>1, <1>3, <2>1, NewLinkIs DEF Link, Alive
<1>4. QED
  BY <1>2, <1>3

LEMMA GoneIs ==
  LET w == NewWorker("gone") IN
  /\ w \in Worker /\ w.pc = "gone" /\ w.socket = NoEntry /\ ~w.auth /\ ~w.admin_password_verified
  /\ w.to = {} /\ GoodIDs(w.to)
BY DEF NewWorker, Worker, GoodIDs

\* A step that closes the connections of the set E, ends workers among theirs, or stops the server.
Closes(E) ==
  /\ UNCHANGED <<netclients, client>> /\ left'.conns = left.conns
  /\ main' = main \/ main' \in {"await", "gone"} \/ (main = "run" /\ main' = "close")
  /\ cds' = cds \/ (main' # "run" /\ GoodList(cds'))
  /\ \A c \in Conns \ E : worker'[c] = worker[c] /\ link'[c] = link[c]
  /\ \A c \in E :
       /\ worker[c].pc # "none" /\ link'[c] = ServerEndClosed(link[c])
       /\ \/ worker'[c] = worker[c] /\ main' = "await"
          \/ worker[c].pc \in {"backlog", "close"} /\ worker'[c] = NewWorker("gone")
  /\ history'.late = history.late /\ history'.given = history.given /\ history'.reused = history.reused
  /\ \A c \in Conns \ E : c \in history'.unheard <=> c \in history.unheard
  /\ history'.ordered \subseteq history.ordered
  /\ \A o \in history'.ordered : worker'[o[1]] = worker[o[1]] /\ worker'[o[2]] = worker[o[2]]

LEMMA ServerCloses ==
  ASSUME Inv, TypeOK', NEW E \in SUBSET Conns, Closes(E)
  PROVE  Inv'
<1>1. /\ worker \in [Conns -> Worker] /\ link \in [Conns -> Link]
      /\ client' = client /\ netclients' = netclients
      /\ history.ordered \subseteq Conns \X Conns /\ history.given \subseteq Sockets
  BY DEF Inv, TypeOK, Closes
<1>2. \A c \in Conns :
        /\ ToSet(link'[c].up) \subseteq ToSet(link[c].up) /\ ToSet(link'[c].down) \subseteq ToSet(link[c].down)
        /\ link'[c].clientEnd = "open" <=> link[c].clientEnd = "open"
        /\ c \in E => link'[c].serverEnd = "closed"
        /\ c \notin E => link'[c] = link[c]
        /\ Alive(link'[c]) => Alive(link[c]) /\ c \notin E
  <2> TAKE c \in Conns
  <2>1. CASE c \in E
    <3>1. link'[c] = ServerEndClosed(link[c]) /\ link[c] \in Link
      BY <1>1, <2>1 DEF Closes
    <3>2. PICK k : k = ServerEndClosed(link[c])
      OBVIOUS
    <3>3. /\ ~Alive(k) /\ k.serverEnd = "closed" /\ (k.clientEnd = "open" <=> link[c].clientEnd = "open")
          /\ ToSet(k.up) \subseteq ToSet(link[c].up) /\ ToSet(k.down) \subseteq ToSet(link[c].down)
      BY <3>1, <3>2, ServerEndClosedIs
    <3>4. QED
      BY <2>1, <3>1, <3>2, <3>3
  <2>2. CASE c \notin E
    BY <2>2 DEF Closes
  <2>3. QED
    BY <2>1, <2>2
<1>3. \A c \in Conns :
        /\ \/ worker'[c] = worker[c] /\ (c \in E => main' = "await")
           \/ /\ worker[c].pc \in {"backlog", "close"} /\ worker'[c].pc = "gone" /\ worker'[c].socket = NoEntry
              /\ ~worker'[c].auth /\ ~worker'[c].admin_password_verified /\ GoodIDs(worker'[c].to) /\ c \in E
        /\ worker[c].pc = "none" <=> worker'[c].pc = "none"
        /\ worker[c].pc = "none" => c \notin E
        /\ worker'[c].socket = worker[c].socket \/ worker'[c].socket = NoEntry
        /\ GoodIDs(worker'[c].to)
        /\ Listed(c)' <=> Listed(c)
        /\ Serving(c)' <=> Serving(c)
        /\ Listed(c) => worker'[c].socket = worker[c].socket
  BY GoneIs DEF Closes, Listed, Serving, Inv, Addressed
<1>4. main' = main \/ main' # "run"
  BY DEF Closes
<1>5. Phases'
  <2>1. \A q \in Clients : client[q].last + left'.conns[q] <= MaxConns[q]
    BY DEF Inv, Phases, Closes
  <2>2. \A c \in Conns :
          /\ worker'[c].pc = "none" <=> c[2] > client[c[1]].last
          /\ worker'[c].pc = "none" => link'[c] = NewLink
          /\ link'[c].clientEnd = "open" <=> client[c[1]].connected /\ c[2] = client[c[1]].last
    BY <1>2, <1>3 DEF Inv, Phases
  <2>3. \A c \in Conns :
          /\ worker'[c].pc \in {"none", "backlog", "gone"} <=> worker'[c].socket = NoEntry
          /\ worker'[c].admin_password_verified => worker'[c].auth
          /\ worker'[c].auth => Listed(c)'
    BY <1>3 DEF Inv, Phases
  <2>4. \A c \in Conns :
          /\ worker'[c].pc = "gone" => link'[c].serverEnd = "closed"
          /\ worker'[c].pc \notin {"none", "gone"} /\ main' \in {"run", "close"} => link'[c].serverEnd = "open"
    BY <1>2, <1>3 DEF Inv, Phases, Closes
  <2>5. QED
    BY <1>1, <2>1, <2>2, <2>3, <2>4 DEF Inv, Phases
<1>6. Entries'
  <2>1. \A c, d \in Conns : worker'[c].socket = worker'[d].socket /\ worker'[c].socket # NoEntry => c = d
    BY <1>3 DEF Inv, Entries
  <2>2. \A c \in Conns : Listed(c) => \E i \in 1 .. Len(netclients) : netclients[i] = worker'[c].socket
    BY <1>3 DEF Inv, Entries
  <2>3. main' = "run" => \A i \in 1 .. Len(netclients) : \E c \in Conns : Listed(c) /\ worker'[c].socket = netclients[i]
    BY <1>3, <1>4 DEF Inv, Entries
  <2>4. \A c \in Conns : worker'[c].socket # NoEntry => worker'[c].socket \in history'.given
    BY <1>3 DEF Inv, Entries, Closes
  <2>5. \A i, j \in 1 .. Len(netclients) : netclients[i] = netclients[j] => i = j
    BY DEF Inv, Entries
  <2>6. QED
    BY <1>1, <1>3, <2>1, <2>2, <2>3, <2>4, <2>5 DEF Entries
<1>7. Addressed'
  <2>1. /\ \A l : GoodList(l) => GoodList(l)'
        /\ \A N : GoodIDs(N) => GoodIDs(N)'
        /\ \A n : GoodUp(n) => GoodUp(n)'
        /\ \A c, n : GoodDown(c, n) => GoodDown(c, n)'
    <3>1. Noticed
      BY <1>1, <1>3, NamesAre DEF Noticed, Closes
    <3>2. QED
      BY <3>1, GoodStays
  <2>2. \A c \in Conns : /\ \A n \in ToSet(link'[c].up) : GoodUp(n)
                         /\ \A n \in ToSet(link'[c].down) : GoodDown(c, n)
    BY <1>2 DEF Inv, Addressed
  <2>3. GoodList(cds')
    BY DEF Inv, Addressed, Closes
  <2>4. \A q \in Clients : GoodList(client[q].cds) /\ GoodList(client[q].shown) /\ GoodIDs(client[q].picked)
    BY DEF Inv, Addressed
  <2>5. \A c \in Conns : GoodIDs(worker'[c].to)
    BY <1>3
  <2>6. QED
    BY <1>1, <2>1, <2>2, <2>3, <2>4, <2>5 DEF Addressed
<1>8. ASSUME NEW q \in Clients
      PROVE  /\ AnswerUnderWay(q)' => AnswerUnderWay(q)
             /\ LastConn(q) \notin E => (AnswerUnderWay(q)' <=> AnswerUnderWay(q))
  <2>1. LastConn(q)' = LastConn(q)
    BY <1>1 DEF LastConn
  <2>2. CASE ~client[q].connected
    BY <1>1, <2>2 DEF AnswerUnderWay
  <2>3. CASE client[q].connected
    <3>1. LastConn(q) \in Conns
      BY <2>3, LastConnIs DEF Inv, Phases
    <3>2. LastConn(q) \notin E => link'[LastConn(q)] = link[LastConn(q)]
      BY <1>2, <3>1
    <3>3. AnswerUnderWay(q)' <=>
            \/ \E m \in ToSet(link'[LastConn(q)].up) : m.pw = "right"
            \/ \E m \in ToSet(link'[LastConn(q)].down) : m.id = "ADMIN_PASSWORD_OK"
      BY <1>1, <2>1, <2>3 DEF AnswerUnderWay, ToSet
    <3>4. QED
      BY <1>2, <2>3, <3>1, <3>2, <3>3, AnswerIs
  <2>4. QED
    BY <2>2, <2>3
<1>9. Answers'
  BY <1>1, <1>8 DEF Inv, Answers, Answered, Closes
<1>10. Sessions'
  <2> SUFFICES ASSUME NEW c \in Conns, c \notin E, Alive(link[c]) PROVE Attended(c)'
    BY <1>2 DEF Sessions, Attended
  <2>1. c[1] \in Clients /\ client[c[1]].connected
    BY ConnsAre DEF Inv, Phases, Alive
  <2>2. LastConn(c[1]) = c
    BY <2>1, LastConnIs DEF Inv, Phases, Alive
  <2>3. Attended(c)
    BY DEF Inv, Sessions
  <2>4. /\ AnswerUnderWay(c[1])' <=> AnswerUnderWay(c[1])
        /\ link'[c] = link[c] /\ worker'[c] = worker[c] /\ (c \in history'.unheard <=> c \in history.unheard)
    BY <1>2, <1>8, <2>1, <2>2 DEF Closes
  <2>5. QED
    BY <1>1, <2>3, <2>4 DEF Attended
<1>11. Ordered'
  <2> SUFFICES ASSUME NEW o \in history'.ordered
               PROVE  /\ worker'[o[1]].pc \notin {"none", "backlog"} /\ worker'[o[2]].pc \notin {"none", "backlog", "gone"}
                      /\ main' = "run" /\ Alive(link'[o[1]]) /\ Alive(link'[o[2]]) /\ Serving(o[1])'
                        => Outstanding(o[1], o[2])'
    BY DEF Ordered
  <2>1. /\ o \in history.ordered /\ o[1] \in Conns /\ o[2] \in Conns
        /\ worker'[o[1]] = worker[o[1]] /\ worker'[o[2]] = worker[o[2]]
    BY <1>1 DEF Closes
  <2>2. Alive(link'[o[1]]) /\ Alive(link'[o[2]]) =>
          /\ link'[o[1]] = link[o[1]] /\ link'[o[2]] = link[o[2]] /\ Alive(link[o[1]]) /\ Alive(link[o[2]])
    BY <1>2, <2>1
  <2>3. link'[o[1]] = link[o[1]] /\ link'[o[2]] = link[o[2]] =>
          (Outstanding(o[1], o[2]) => Outstanding(o[1], o[2])')
    BY <2>1 DEF Outstanding
  <2>4. Serving(o[1])' <=> Serving(o[1])
    BY <1>3, <2>1
  <2>5. QED
    BY <1>4, <2>1, <2>2, <2>3, <2>4 DEF Inv, Ordered
<1>12. Spread'
  <2>1. \A q \in Clients : Shows(q)'
    BY <1>1 DEF Inv, Spread, Shows
  <2>2. ASSUME main' = "run", \A c \in Conns : ~Disturbs(c)', NEW d \in Conns, Alive(link'[d]), Serving(d)'
        PROVE  Learns(link'[d].down, client'[d[1]].cds, cds')
    <3>1. main = "run" /\ cds' = cds
      BY <1>4, <2>2 DEF Closes
    <3>2. \A c \in Conns : ~Disturbs(c)
      <4>1. \A c \in Conns : Listed(c) => worker'[c] = worker[c] /\ link'[c] = link[c]
        BY <1>2, <1>3, <2>2 DEF Listed
      <4>2. QED
        BY <1>3, <2>2, <3>1, <4>1 DEF Disturbs
    <3>3. link'[d] = link[d] /\ Alive(link[d]) /\ Serving(d)
      BY <1>2, <1>3, <2>2
    <3>4. QED
      BY <1>1, <3>1, <3>2, <3>3 DEF Inv, Spread
  <2>3. QED
    BY <2>1, <2>2 DEF Spread
<1>13. QED
  BY <1>5, <1>6, <1>7, <1>9, <1>10, <1>11, <1>12 DEF Inv

LEMMA ServerClosingSteps ==
  ASSUME Inv, Stop \/ AwaitWorkers \/ CloseAll \/ \E c \in Conns : CloseClient(c)
  PROVE  Inv'
<1>1. /\ worker \in [Conns -> Worker] /\ link \in [Conns -> Link] /\ history \in History /\ left \in Left
      /\ netclients \in Seq(Sockets) /\ cds \in Lists
  BY DEF Inv, TypeOK, History, Left
<1>2. CASE Stop
  <2>1. left' \in Left /\ left'.conns = left.conns
    BY <1>2, LeftIs DEF Inv, Stop
  <2>2. TypeOK'
    BY <1>2, <2>1 DEF Inv, TypeOK, Stop, Left
  <2>3. Closes({})
    BY <1>2, <2>1 DEF Closes, Stop
  <2>4. QED
    BY <2>2, <2>3, ServerCloses
<1>3. CASE AwaitWorkers
  <2>1. TypeOK' /\ Closes({})
    BY <1>3 DEF Inv, TypeOK, Closes, AwaitWorkers
  <2>2. QED
    BY <2>1, ServerCloses
<1>4. CASE CloseAll
  <2> DEFINE E == {c \in Conns : worker[c].pc = "backlog"} \cup Holding(ToSet(netclients))
  <2>1. /\ main = "close" /\ main' = "await" /\ UNCHANGED <<netclients, client, left, history>>
        /\ cds' = [s \in Sockets |-> IF s \in ToSet(netclients) THEN NoEntry ELSE cds[s]]
        /\ link' = [c \in Conns |-> IF c \in E THEN ServerEndClosed(link[c]) ELSE link[c]]
        /\ worker' = [c \in Conns |-> IF worker[c].pc = "backlog" THEN NewWorker("gone") ELSE worker[c]]
    BY <1>4 DEF CloseAll
  <2>2. E \subseteq Conns /\ \A c \in Conns : worker[c].pc = "backlog" => c \in E
    BY DEF Holding
  <2>3. \A c \in E : worker[c].pc # "none"
    BY NewLinkIs DEF Holding, Inv, Phases
  <2> HIDE DEF E
  <2>4. link' \in [Conns -> Link]
    <3>1. \A c \in Conns : ServerEndClosed(link[c]) \in Link
      BY <1>1, ServerEndClosedIs
    <3>2. QED
      BY <1>1, <2>1, <3>1
  <2>5. worker' \in [Conns -> Worker]
    BY <1>1, <2>1, GoneIs
  <2>6. cds' \in Lists /\ GoodList(cds')
    <3>1. cds' \in Lists
      BY <1>1, <2>1 DEF Lists
    <3>2. \A s \in Sockets : cds'[s] = NoEntry \/ cds'[s] = cds[s]
      BY <2>1
    <3>3. QED
      BY <3>1, <3>2 DEF Inv, Addressed, GoodList, Good
  <2>7. TypeOK'
    BY <2>1, <2>4, <2>5, <2>6 DEF Inv, TypeOK
  <2>8. Closes(E)
    <3>1. \A o \in history.ordered : worker'[o[1]] = worker[o[1]] /\ worker'[o[2]] = worker[o[2]]
      BY <1>1, <2>1 DEF Inv, Ordered, History
    <3>2. \A c \in E : /\ worker[c].pc # "none" /\ link'[c] = ServerEndClosed(link[c])
                       /\ \/ worker'[c] = worker[c]
                          \/ worker[c].pc = "backlog" /\ worker'[c] = NewWorker("gone")
      BY <2>1, <2>2, <2>3
    <3>3. \A c \in Conns \ E : worker'[c] = worker[c] /\ link'[c] = link[c]
      BY <2>1, <2>2
    <3>4. QED
      BY <2>1, <2>6, <3>1, <3>2, <3>3 DEF Closes
  <2>9. QED
    BY <2>2, <2>7, <2>8, ServerCloses
<1>5. ASSUME NEW c \in Conns, CloseClient(c) PROVE Inv'
  <2>1. /\ worker[c].pc = "close" /\ UNCHANGED <<main, netclients, cds, client, left>>
        /\ link' = [link EXCEPT ![c] = ServerEndClosed(link[c])]
        /\ worker' = [worker EXCEPT ![c] = NewWorker("gone")]
        /\ history' = [history EXCEPT !.unheard = @ \ {c}, !.ordered = {o \in @ : c \notin {o[1], o[2]}}]
    BY <1>1, <1>5 DEF CloseClient
  <2>2. link' \in [Conns -> Link] /\ worker' \in [Conns -> Worker]
    BY <1>1, <2>1, ServerEndClosedIs, GoneIs
  <2>3. /\ history' \in History /\ history'.late = history.late /\ history'.given = history.given
        /\ history'.reused = history.reused /\ history'.unheard = history.unheard \ {c}
        /\ history'.ordered = {o \in history.ordered : c \notin {o[1], o[2]}}
    <3>1. PICK unheard, ordered : /\ unheard = history.unheard \ {c}
                                  /\ ordered = {o \in history.ordered : c \notin {o[1], o[2]}}
      OBVIOUS
    <3>2. unheard \subseteq Conns /\ ordered \subseteq Conns \X Conns
      BY <1>1, <3>1 DEF History
    <3>3. history' = [history EXCEPT !.unheard = unheard, !.ordered = ordered]
      BY <2>1, <3>1
    <3>4. QED
      BY <1>1, <3>1, <3>2, <3>3 DEF History
  <2>4. TypeOK'
    BY <2>1, <2>2, <2>3 DEF Inv, TypeOK, History
  <2>5. Closes({c})
    <3>1. \A o \in history'.ordered : worker'[o[1]] = worker[o[1]] /\ worker'[o[2]] = worker[o[2]]
      BY <1>1, <2>1, <2>3 DEF History
    <3>2. \A d \in Conns \ {c} : worker'[d] = worker[d] /\ link'[d] = link[d]
      BY <1>1, <2>1
    <3>3. worker'[c] = NewWorker("gone") /\ link'[c] = ServerEndClosed(link[c])
      BY <1>1, <2>1
    <3>4. QED
      BY <2>1, <2>3, <3>1, <3>2, <3>3 DEF Closes
  <2>6. QED
    BY <2>4, <2>5, ServerCloses
<1>6. QED
  BY <1>2, <1>3, <1>4, <1>5

\* A connection gets a SOCKET value that no other has, and its entry a name that means nobody.
LEMMA AcceptKeeps == ASSUME Inv, NEW a \in Conns, Accept(a) PROVE Inv'
<1>1. PICK s \in Sockets :
        /\ Holding({s}) = {}
        /\ worker' = [worker EXCEPT ![a].pc = "recv", ![a].socket = s]
        /\ netclients' = Append(netclients, s)
        /\ cds' = [cds EXCEPT ![s] = Unnamed]
        /\ history' = [history EXCEPT !.given = @ \cup {s}, !.reused = IF s \in history.given THEN @ \cup {a} ELSE @]
  BY DEF Accept
<1>2. /\ worker \in [Conns -> Worker] /\ netclients \in Seq(Sockets) /\ history \in History /\ cds \in Lists
      /\ main = "run" /\ worker[a].pc = "backlog" /\ UNCHANGED <<main, link, client, left>>
      /\ worker[a] \in Worker
  BY DEF Inv, TypeOK, History, Accept
<1>3. /\ worker' \in [Conns -> Worker] /\ \A c \in Conns : c # a => worker'[c] = worker[c]
      /\ worker'[a].pc = "recv" /\ worker'[a].socket = s /\ worker'[a].to = worker[a].to
      /\ worker'[a].auth = worker[a].auth
      /\ worker'[a].admin_password_verified = worker[a].admin_password_verified
  <2>1. worker'[a] = [worker[a] EXCEPT !.pc = "recv", !.socket = s]
    BY <1>1, <1>2
  <2>2. worker'[a] \in Worker
    BY <1>2, <2>1 DEF Worker
  <2>3. worker' \in [Conns -> Worker] /\ \A c \in Conns : c # a => worker'[c] = worker[c]
    BY <1>1, <1>2, <2>2
  <2>4. QED
    BY <1>2, <2>1, <2>2, <2>3 DEF Worker
<1>4. /\ netclients' \in Seq(Sockets) /\ Len(netclients') = Len(netclients) + 1 /\ Len(netclients) \in Nat
      /\ netclients'[Len(netclients) + 1] = s
      /\ \A i \in 1 .. Len(netclients) : netclients'[i] = netclients[i]
  BY <1>1, <1>2, Appended
<1>5. /\ history' \in History /\ history'.late = history.late /\ history'.unheard = history.unheard
      /\ history'.ordered = history.ordered /\ history'.given = history.given \cup {s}
      /\ history.reused \subseteq history'.reused /\ (s \in history.given => a \in history'.reused)
  <2>1. PICK given, reused : /\ given = history.given \cup {s}
                             /\ reused = IF s \in history.given THEN history.reused \cup {a} ELSE history.reused
    OBVIOUS
  <2>2. given \subseteq Sockets /\ reused \subseteq Conns
    BY <1>2, <2>1 DEF History
  <2>3. history' = [history EXCEPT !.given = given, !.reused = reused]
    BY <1>1, <1>2, <2>1 DEF History
  <2>4. QED
    BY <1>2, <2>1, <2>2, <2>3 DEF History
<1>6. cds' \in Lists /\ cds'[s] = Unnamed /\ \A x \in Sockets : x # s => cds'[x] = cds[x]
  BY <1>1, <1>2 DEF Lists
<1>7. \A c \in Conns : worker[c].socket # s
  <2> SUFFICES ASSUME NEW c \in Conns, worker[c].socket = s PROVE FALSE
    OBVIOUS
  <2>1. worker[c].pc \notin {"none", "backlog", "gone"}
    BY NamesAre DEF Inv, Phases
  <2>2. link[c].serverEnd = "open"
    BY <1>2, <2>1 DEF Inv, Phases
  <2>3. QED
    BY <1>1, <2>2 DEF Holding
<1>8. worker[a].socket = NoEntry /\ s # NoEntry
  BY <1>2, NamesAre DEF Inv, Phases
<1>9. TypeOK'
  BY <1>2, <1>3, <1>4, <1>5, <1>6 DEF Inv, TypeOK, History
<1>10. Phases'
  <2>1. \A c \in Conns :
          /\ worker'[c].pc = "none" <=> worker[c].pc = "none"
          /\ worker'[c].pc \in {"none", "backlog", "gone"} <=> worker'[c].socket = NoEntry
          /\ worker'[c].admin_password_verified => worker'[c].auth
          /\ worker'[c].auth => Listed(c)'
          /\ worker'[c].pc = "gone" => link[c].serverEnd = "closed"
          /\ worker'[c].pc \notin {"none", "gone"} => link[c].serverEnd = "open"
    <3> TAKE c \in Conns
    <3>1. CASE c = a
      BY <1>2, <1>3, <1>8, <3>1 DEF Inv, Phases, Listed
    <3>2. CASE c # a
      BY <1>2, <1>3, <3>2 DEF Inv, Phases, Listed
    <3>3. QED
      BY <3>1, <3>2
  <2>2. main' = main /\ link' = link /\ client' = client /\ left' = left
    BY <1>2
  <2>3. QED
    BY <2>1, <2>2 DEF Inv, Phases
<1>11. Entries'
  <2>1. \A c, d \in Conns : worker'[c].socket = worker'[d].socket /\ worker'[c].socket # NoEntry => c = d
    BY <1>3, <1>7 DEF Inv, Entries
  <2>2. \A c \in Conns : Listed(c)' => \E i \in 1 .. Len(netclients') : netclients'[i] = worker'[c].socket
    <3> SUFFICES ASSUME NEW c \in Conns, Listed(c)'
                 PROVE  \E i \in 1 .. Len(netclients') : netclients'[i] = worker'[c].socket
      OBVIOUS
    <3>1. CASE c = a
      BY <1>3, <1>4, <3>1
    <3>2. CASE c # a
      <4>1. Listed(c) /\ worker'[c] = worker[c]
        BY <1>3, <3>2 DEF Listed
      <4>2. PICK i \in 1 .. Len(netclients) : netclients[i] = worker[c].socket
        BY <4>1 DEF Inv, Entries
      <4>3. i \in 1 .. Len(netclients') /\ netclients'[i] = worker'[c].socket
        BY <1>4, <4>1, <4>2
      <4>4. QED
        BY <4>3
    <3>3. QED
      BY <3>1, <3>2
  <2>3. \A i \in 1 .. Len(netclients') : \E c \in Conns : Listed(c)' /\ worker'[c].socket = netclients'[i]
    <3> TAKE i \in 1 .. Len(netclients')
    <3>1. CASE i \in 1 .. Len(netclients)
      <4>1. PICK c \in Conns : Listed(c) /\ worker[c].socket = netclients[i]
        BY <1>2, <3>1 DEF Inv, Entries
      <4>2. c # a
        BY <1>2, <4>1 DEF Listed
      <4>3. QED
        BY <1>3, <1>4, <3>1, <4>1, <4>2 DEF Listed
    <3>2. CASE i = Len(netclients) + 1
      BY <1>3, <1>4, <3>2 DEF Listed
    <3>3. QED
      BY <1>4, <3>1, <3>2
  <2>4. \A i \in 1 .. Len(netclients) : netclients[i] # s
    BY <1>2, <1>7 DEF Inv, Entries
  <2>5. \A i, j \in 1 .. Len(netclients') : netclients'[i] = netclients'[j] => i = j
    <3>1. \A i \in 1 .. Len(netclients') : i \in 1 .. Len(netclients) \/ i = Len(netclients) + 1
      BY <1>4
    <3>2. \A i, j \in 1 .. Len(netclients) : netclients[i] = netclients[j] => i = j
      BY DEF Inv, Entries
    <3>3. QED
      BY <1>4, <2>4, <3>1, <3>2
  <2>6. \A c \in Conns : worker'[c].socket # NoEntry => worker'[c].socket \in history'.given
    BY <1>3, <1>5 DEF Inv, Entries
  <2>7. QED
    BY <2>1, <2>2, <2>3, <2>5, <2>6 DEF Entries
<1>12. Addressed'
  <2>1. /\ \A l : GoodList(l) => GoodList(l)'
        /\ \A N : GoodIDs(N) => GoodIDs(N)'
        /\ \A n : GoodUp(n) => GoodUp(n)'
        /\ \A c, n : GoodDown(c, n) => GoodDown(c, n)'
    <3>1. Noticed
      BY <1>3, <1>5 DEF Noticed
    <3>2. QED
      BY <3>1, GoodStays
  <2>2. GoodList(cds')
    BY <1>6 DEF Inv, Addressed, GoodList, Good
  <2>3. /\ \A c \in Conns : /\ GoodIDs(worker'[c].to)
                            /\ \A n \in ToSet(link[c].up) : GoodUp(n)
                            /\ \A n \in ToSet(link[c].down) : GoodDown(c, n)
        /\ \A q \in Clients : GoodList(client[q].cds) /\ GoodList(client[q].shown) /\ GoodIDs(client[q].picked)
    BY <1>3 DEF Inv, Addressed
  <2>4. QED
    BY <1>2, <2>1, <2>2, <2>3 DEF Addressed
<1>13. Answers'
  BY <1>2, <1>5 DEF Inv, Answers, Answered, AnswerUnderWay, LastConn
<1>14. Sessions'
  <2> SUFFICES ASSUME NEW c \in Conns PROVE Attended(c)'
    BY DEF Sessions
  <2>1. Attended(c)
    BY DEF Inv, Sessions
  <2>2. /\ worker'[c].admin_password_verified = worker[c].admin_password_verified
        /\ worker'[c].pc \in {"backlog", "recv", "forward"} => worker[c].pc \in {"backlog", "recv", "forward"}
    BY <1>2, <1>3
  <2>3. AnswerUnderWay(c[1])' <=> AnswerUnderWay(c[1])
    BY <1>2 DEF AnswerUnderWay, LastConn
  <2>4. QED
    BY <1>2, <1>5, <2>1, <2>2, <2>3 DEF Attended
<1>15. Ordered'
  <2> SUFFICES ASSUME NEW o \in history.ordered
               PROVE  /\ worker'[o[1]].pc \notin {"none", "backlog"} /\ worker'[o[2]].pc \notin {"none", "backlog", "gone"}
                      /\ main = "run" /\ Alive(link[o[1]]) /\ Alive(link[o[2]]) /\ Serving(o[1])'
                        => Outstanding(o[1], o[2])'
    BY <1>2, <1>5 DEF Ordered
  <2>1. o[1] \in Conns /\ o[2] \in Conns /\ o[1] # a /\ o[2] # a
    BY <1>2 DEF Inv, TypeOK, Ordered
  <2>2. worker'[o[1]] = worker[o[1]] /\ worker'[o[2]] = worker[o[2]]
    BY <1>3, <2>1
  <2>3. (Outstanding(o[1], o[2]) => Outstanding(o[1], o[2])') /\ (Serving(o[1])' <=> Serving(o[1]))
    BY <1>2, <2>2 DEF Outstanding, Serving
  <2>4. QED
    BY <2>2, <2>3 DEF Inv, Ordered
<1>16. Spread'
  <2>1. Disturbs(a)'
    BY <1>3, <1>6 DEF Disturbs, Listed
  <2>2. \A q \in Clients : Shows(q)'
    BY <1>2 DEF Inv, Spread, Shows
  <2>3. QED
    BY <2>1, <2>2 DEF Spread
<1>17. QED
  BY <1>9, <1>10, <1>11, <1>12, <1>13, <1>14, <1>15, <1>16 DEF Inv

-----------------------------------------------------------------------------
(* What the server's workers do. *)

\* A connection on which the server may have sent m.
Passed(l, k, m) ==
  /\ k.serverEnd = l.serverEnd /\ k.clientEnd = l.clientEnd /\ (l.broken => k.broken)
  /\ k.down = l.down \/ (Alive(l) /\ k.down = Append(l.down, m))
  /\ l.serverEnd # "open" => k.broken = l.broken

LEMMA SentDownIs ==
  ASSUME NEW l \in Link, NEW m \in ToClient
  PROVE  /\ SentDown(l, m) \in Link /\ (l.serverEnd = "open" => Passed(l, SentDown(l, m), m)) /\ SentDown(l, m).up = l.up
         /\ Alive(SentDown(l, m)) => Alive(l) /\ SentDown(l, m).down = Append(l.down, m)
         /\ m \in ToSet(Append(l.down, m))
<1>1. l.down \in Seq(ToClient)
  BY DEF Link
<1>2. Append(l.down, m) \in Seq(ToClient) /\ m \in ToSet(Append(l.down, m))
  BY <1>1, Appended, InQueue
<1>3. CASE Alive(l)
  <2>1. SentDown(l, m) = [l EXCEPT !.down = Append(l.down, m)]
    BY <1>3 DEF SentDown
  <2>2. SentDown(l, m) \in Link
    BY <1>2, <2>1 DEF Link
  <2>3. Passed(l, SentDown(l, m), m) /\ SentDown(l, m).up = l.up /\ SentDown(l, m).down = Append(l.down, m)
    BY <1>3, <2>1 DEF Link, Passed
  <2>4. QED
    BY <1>2, <1>3, <2>2, <2>3
<1>4. CASE ~Alive(l)
  <2>1. SentDown(l, m) = [l EXCEPT !.broken = TRUE]
    BY <1>4 DEF SentDown
  <2>2. QED
    BY <1>2, <1>4, <2>1 DEF Link, Passed, Alive
<1>5. QED
  BY <1>3, <1>4

HasRight(up) == \E u \in ToSet(up) : u.pw = "right"

\* A step of connection c's worker, which may send m.  (The last three conjuncts are what it
\* has to see to itself, beside netclients and cds.)
Serves(c, m) ==
  /\ UNCHANGED <<main, client, left, history>>
  /\ \A d \in Conns \ {c} : worker'[d] = worker[d] /\ link'[d].up = link[d].up
  /\ Listed(c) /\ worker'[c].pc \in {"recv", "forward", "remove", "close"}
  /\ worker'[c].socket = worker[c].socket
  /\ worker'[c].admin_password_verified => worker'[c].auth
  /\ worker'[c].auth => worker'[c].pc # "close"
  /\ \A d \in Conns :
       /\ Passed(link[d], link'[d], m)
       /\ link'[d].down # link[d].down => GoodDown(d, m) /\ (m.id = "ADMIN_PASSWORD_OK" => HasRight(link[d].up))
  /\ ToSet(link'[c].up) \subseteq ToSet(link[c].up)
  /\ GoodList(cds') /\ GoodIDs(worker'[c].to)
  /\ Alive(link'[c]) /\ worker'[c].pc \in {"recv", "forward"} =>
       /\ Serving(c)
       /\ Verifies(link'[c].up, worker'[c].admin_password_verified) =>
            Verifies(link[c].up, worker[c].admin_password_verified)
       /\ HasRight(link[c].up) =>
            HasRight(link'[c].up) \/ \E n \in ToSet(link'[c].down) : n.id = "ADMIN_PASSWORD_OK"
       /\ \A d \in Conns : main = "run" /\ Alive(link'[d]) /\ Outstanding(c, d) => Outstanding(c, d)'

LEMMA WorkerServes ==
  ASSUME Inv, TypeOK', NEW c \in Conns, NEW m \in ToClient, Serves(c, m), Entries',
         main = "run" /\ (\A x \in Conns : ~Disturbs(x)') =>
           \A d \in Conns : Alive(link'[d]) /\ Serving(d)' => Learns(link'[d].down, client[d[1]].cds, cds')
  PROVE  Inv'
<1>1. /\ main' = main /\ client' = client /\ left' = left /\ history' = history
      /\ link \in [Conns -> Link] /\ history.ordered \subseteq Conns \X Conns
  BY DEF Inv, TypeOK, Serves
<1>2. \A d \in Conns :
        /\ Passed(link[d], link'[d], m)
        /\ ToSet(link[d].down) \subseteq ToSet(link'[d].down)
        /\ \A n \in ToSet(link'[d].down) : n \in ToSet(link[d].down) \/ (n = m /\ link'[d].down # link[d].down)
        /\ ToSet(link'[d].up) \subseteq ToSet(link[d].up)
        /\ Alive(link'[d]) => Alive(link[d])
  <2> TAKE d \in Conns
  <2>1. Passed(link[d], link'[d], m) /\ ToSet(link'[d].up) \subseteq ToSet(link[d].up)
    BY DEF Serves
  <2>2. link[d].down \in Seq(ToClient)
    BY <1>1 DEF Link
  <2>3. \/ link'[d].down = link[d].down
        \/ link'[d].down = Append(link[d].down, m) /\ ToSet(link'[d].down) = ToSet(link[d].down) \cup {m}
    <3>1. ToSet(Append(link[d].down, m)) = ToSet(link[d].down) \cup {m}
      BY <2>2, InQueue
    <3>2. link'[d].down = link[d].down \/ link'[d].down = Append(link[d].down, m)
      BY <2>1 DEF Passed
    <3>3. QED
      BY <3>1, <3>2
  <2>4. Alive(link'[d]) => Alive(link[d])
    BY <2>1 DEF Passed, Alive
  <2>5. QED
    BY <2>1, <2>3, <2>4
<1>3. \A d \in Conns : /\ worker'[d].socket = worker[d].socket
                       /\ d # c => worker'[d] = worker[d] /\ link'[d].up = link[d].up
  BY DEF Serves
<1>4. Phases'
  <2>1. \A d \in Conns :
          /\ worker'[d].pc = "none" <=> worker[d].pc = "none"
          /\ worker'[d].pc = "none" => d # c
          /\ worker'[d].pc \in {"none", "backlog", "gone"} <=> worker[d].pc \in {"none", "backlog", "gone"}
          /\ worker'[d].admin_password_verified => worker'[d].auth
          /\ worker'[d].auth => Listed(d)'
          /\ worker'[d].pc = "gone" => worker[d].pc = "gone"
          /\ worker'[d].pc \notin {"none", "gone"} => worker[d].pc \notin {"none", "gone"}
    <3> TAKE d \in Conns
    <3>1. CASE d = c
      BY <3>1 DEF Serves, Listed
    <3>2. CASE d # c
      BY <1>3, <3>2 DEF Inv, Phases, Listed
    <3>3. QED
      BY <3>1, <3>2
  <2>2. \A d \in Conns : worker'[d].pc = "none" => link'[d] = link[d]
    <3> SUFFICES ASSUME NEW d \in Conns, worker'[d].pc = "none" PROVE link'[d] = link[d]
      OBVIOUS
    <3>1. link[d] = NewLink /\ d # c
      BY <2>1 DEF Inv, Phases
    <3>2. /\ link'[d].down = <<>> /\ link'[d].up = <<>> /\ link'[d].serverEnd = "none" /\ link'[d].clientEnd = "none"
          /\ ~link'[d].broken /\ link'[d] \in Link
      <4>1. Passed(NewLink, link'[d], m) /\ link'[d].up = NewLink.up /\ link'[d] \in Link
        BY <1>2, <1>3, <3>1 DEF TypeOK
      <4>2. link'[d].broken \in BOOLEAN /\ NewLink.broken \in BOOLEAN
        BY <4>1, NewLinkIs DEF Link
      <4>3. QED
        BY <4>1, <4>2, NewLinkIs DEF Passed
    <3>3. QED
      BY <3>1, <3>2 DEF Link, NewLink
  <2>3. \A d \in Conns : link'[d].serverEnd = link[d].serverEnd /\ link'[d].clientEnd = link[d].clientEnd
    BY <1>2 DEF Passed
  <2>4. QED
    BY <1>1, <1>3, <2>1, <2>2, <2>3 DEF Inv, Phases
<1>5. Addressed'
  <2>1. /\ \A l : GoodList(l) => GoodList(l)'
        /\ \A N : GoodIDs(N) => GoodIDs(N)'
        /\ \A n : GoodUp(n) => GoodUp(n)'
        /\ \A d, n : GoodDown(d, n) => GoodDown(d, n)'
    <3>1. Noticed
      BY <1>1, <1>3 DEF Noticed
    <3>2. QED
      BY <3>1, GoodStays
  <2>2. \A d \in Conns : /\ \A n \in ToSet(link'[d].up) : GoodUp(n)
                         /\ \A n \in ToSet(link'[d].down) : GoodDown(d, n)
    BY <1>2 DEF Inv, Addressed, Serves
  <2>3. \A d \in Conns : GoodIDs(worker'[d].to)
    BY <1>3 DEF Inv, Addressed, Serves
  <2>4. GoodList(cds')
    BY DEF Serves
  <2>5. \A q \in Clients : GoodList(client[q].cds) /\ GoodList(client[q].shown) /\ GoodIDs(client[q].picked)
    BY DEF Inv, Addressed
  <2>6. QED
    BY <1>1, <2>1, <2>2, <2>3, <2>4, <2>5 DEF Addressed
<1>6. ASSUME NEW q \in Clients, client[q].connected
      PROVE  /\ LastConn(q)' = LastConn(q) /\ LastConn(q) \in Conns
             /\ AnswerUnderWay(q) <=>
                  \/ HasRight(link[LastConn(q)].up)
                  \/ \E n \in ToSet(link[LastConn(q)].down) : n.id = "ADMIN_PASSWORD_OK"
             /\ AnswerUnderWay(q)' <=>
                  \/ HasRight(link'[LastConn(q)].up)
                  \/ \E n \in ToSet(link'[LastConn(q)].down) : n.id = "ADMIN_PASSWORD_OK"
  <2>1. LastConn(q)' = LastConn(q) /\ LastConn(q) \in Conns
    BY <1>1, <1>6, LastConnIs DEF LastConn, Inv, Phases
  <2>2. AnswerUnderWay(q)' <=>
          \/ HasRight(link'[LastConn(q)].up)
          \/ \E n \in ToSet(link'[LastConn(q)].down) : n.id = "ADMIN_PASSWORD_OK"
    BY <1>1, <1>6, <2>1 DEF AnswerUnderWay, HasRight, ToSet
  <2>3. QED
    BY <1>6, <2>1, <2>2, AnswerIs DEF HasRight
<1>7. ASSUME NEW q \in Clients PROVE AnswerUnderWay(q)' => AnswerUnderWay(q)
  <2>1. CASE ~client[q].connected
    BY <1>1, <2>1 DEF AnswerUnderWay
  <2>2. CASE client[q].connected
    <3>1. PICK d \in Conns : d = LastConn(q)
      BY <1>6, <2>2
    <3>2. HasRight(link'[d].up) => HasRight(link[d].up)
      BY <1>2 DEF HasRight
    <3>3. ASSUME NEW n \in ToSet(link'[d].down), n.id = "ADMIN_PASSWORD_OK"
          PROVE  n \in ToSet(link[d].down) \/ HasRight(link[d].up)
      BY <1>2, <3>3 DEF Serves
    <3>4. QED
      BY <1>6, <2>2, <3>1, <3>2, <3>3
  <2>3. QED
    BY <2>1, <2>2
<1>8. Answers'
  BY <1>1, <1>7 DEF Inv, Answers, Answered
<1>9. Sessions'
  <2> SUFFICES ASSUME NEW d \in Conns, Alive(link'[d]),
                      Verifies(link'[d].up, worker'[d].admin_password_verified), d \notin history.unheard,
                      worker'[d].pc \in {"backlog", "recv", "forward"}
               PROVE  \/ client[d[1]].ui \in {"main", "confirm", "close", "await", "gone"}
                      \/ client[d[1]].ui = "wait" /\ (client[d[1]].RespQueue > 0 \/ AnswerUnderWay(d[1])')
    BY <1>1 DEF Sessions, Attended
  <2>1. Alive(link[d]) /\ d[1] \in Clients /\ client[d[1]].connected
    BY <1>2, ConnsAre DEF Inv, Phases, Alive
  <2>2. LastConn(d[1]) = d
    BY <2>1, LastConnIs DEF Inv, Phases, Alive
  <2>3. /\ Verifies(link[d].up, worker[d].admin_password_verified) /\ worker[d].pc \in {"backlog", "recv", "forward"}
        /\ HasRight(link[d].up) =>
             HasRight(link'[d].up) \/ \E n \in ToSet(link'[d].down) : n.id = "ADMIN_PASSWORD_OK"
    <3>1. CASE d = c
      BY <3>1 DEF Serves, Serving
    <3>2. CASE d # c
      BY <1>3, <3>2
    <3>3. QED
      BY <3>1, <3>2
  <2>4. AnswerUnderWay(d[1]) => AnswerUnderWay(d[1])'
    BY <1>2, <1>6, <2>1, <2>2, <2>3
  <2>5. Attended(d)
    BY DEF Inv, Sessions
  <2>6. QED
    BY <2>1, <2>3, <2>4, <2>5 DEF Attended
<1>10. Ordered'
  <2> SUFFICES ASSUME NEW o \in history.ordered
               PROVE  /\ worker'[o[1]].pc \notin {"none", "backlog"} /\ worker'[o[2]].pc \notin {"none", "backlog", "gone"}
                      /\ main = "run" /\ Alive(link'[o[1]]) /\ Alive(link'[o[2]]) /\ Serving(o[1])'
                        => Outstanding(o[1], o[2])'
    BY <1>1 DEF Ordered
  <2>1. o[1] \in Conns /\ o[2] \in Conns
    BY <1>1
  <2>2. worker[o[1]].pc \notin {"none", "backlog"} /\ worker[o[2]].pc \notin {"none", "backlog", "gone"}
        /\ (main = "run" /\ Alive(link[o[1]]) /\ Alive(link[o[2]]) /\ Serving(o[1]) => Outstanding(o[1], o[2]))
    BY DEF Inv, Ordered
  <2>3. worker'[o[1]].pc \notin {"none", "backlog"} /\ worker'[o[2]].pc \notin {"none", "backlog", "gone"}
    BY <1>3, <2>1, <2>2 DEF Serves
  <2>4. ASSUME main = "run", Alive(link'[o[1]]), Alive(link'[o[2]]), Serving(o[1])'
        PROVE  Outstanding(o[1], o[2])'
    <3>1. CASE o[1] = c
      <4>1. Serving(c) /\ (Outstanding(c, o[2]) => Outstanding(o[1], o[2])')
        BY <2>1, <2>4, <3>1 DEF Serves, Serving
      <4>2. QED
        BY <1>2, <2>1, <2>2, <2>4, <3>1, <4>1
    <3>2. CASE o[1] # c
      <4>1. worker'[o[1]] = worker[o[1]] /\ link'[o[1]].up = link[o[1]].up /\ worker'[o[2]].socket = worker[o[2]].socket
        BY <1>3, <2>1, <3>2
      <4>2. (\E n \in ToSet(link[o[2]].down) : n.id = "INVOKE") => \E n \in ToSet(link'[o[2]].down) : n.id = "INVOKE"
        BY <1>2, <2>1
      <4>3. Outstanding(o[1], o[2]) => Outstanding(o[1], o[2])'
        BY <4>1, <4>2 DEF Outstanding
      <4>4. QED
        BY <1>2, <2>1, <2>2, <2>4, <4>1, <4>3 DEF Serving
    <3>3. QED
      BY <3>1, <3>2
  <2>5. QED
    BY <2>3, <2>4
<1>11. Spread'
  <2>1. \A q \in Clients : Shows(q)'
    BY <1>1 DEF Inv, Spread, Shows
  <2>2. QED
    BY <1>1, <2>1 DEF Spread
<1>12. QED
  BY <1>4, <1>5, <1>8, <1>9, <1>10, <1>11 DEF Inv

LEMMA ReceivesIs ==
  ASSUME Inv, NEW c \in Conns, NEW id, Receives(c, id)
  PROVE  /\ worker[c].pc = "recv"
         /\ link[c].up \in Seq(ToServer) /\ link[c].up # <<>> /\ Head(link[c].up) = link[c].up[1]
         /\ Head(link[c].up) \in ToServer /\ Head(link[c].up).id = id /\ GoodUp(Head(link[c].up))
         /\ id # "ADMIN_PASSWORD" => Head(link[c].up).pw = "none"
         /\ ToSet(Tail(link[c].up)) \subseteq ToSet(link[c].up)
         /\ Head(link[c].up) \in ToSet(link[c].up)
         /\ HasRight(link[c].up) => Head(link[c].up).pw = "right" \/ HasRight(Tail(link[c].up))
         /\ Received(c) \in [Conns -> Link] /\ Received(c)[c] = [link[c] EXCEPT !.up = Tail(link[c].up)]
         /\ \A d \in Conns \ {c} : Received(c)[d] = link[d]
<1>1. worker[c].pc = "recv" /\ link[c].up # <<>> /\ Head(link[c].up).id = id
  BY DEF Receives
<1>2. link \in [Conns -> Link] /\ link[c] \in Link /\ link[c].up \in Seq(ToServer)
  BY DEF Inv, TypeOK, Link
<1>3. /\ Tail(link[c].up) \in Seq(ToServer) /\ Head(link[c].up) \in ToServer
      /\ Head(link[c].up) = link[c].up[1]
  BY <1>1, <1>2, Taken
<1>4. ToSet(link[c].up) = ToSet(Tail(link[c].up)) \cup {Head(link[c].up)}
  BY <1>1, <1>2, InQueue
<1>5. \A u \in ToSet(link[c].up) : GoodUp(u)
  BY DEF Inv, Addressed
<1>6. /\ Received(c) = [link EXCEPT ![c] = [link[c] EXCEPT !.up = Tail(link[c].up)]]
      /\ [link[c] EXCEPT !.up = Tail(link[c].up)] \in Link
  BY <1>2, <1>3 DEF Received, Link
<1>7. HasRight(link[c].up) => Head(link[c].up).pw = "right" \/ HasRight(Tail(link[c].up))
  BY <1>4 DEF HasRight
<1>8. QED
  BY <1>1, <1>2, <1>3, <1>4, <1>5, <1>6, <1>7 DEF GoodUp

LEMMA WorkerTyped ==
  ASSUME Inv, NEW c \in Conns, UNCHANGED <<main, netclients, cds, client, left, history>>,
         worker' = [worker EXCEPT ![c] = worker'[c]], worker'[c] \in Worker, link' \in [Conns -> Link]
  PROVE  TypeOK'
<1>1. worker' \in [Conns -> Worker]
  BY DEF Inv, TypeOK
<1>2. QED
  BY <1>1 DEF Inv, TypeOK

\* A step that leaves the list alone.
LEMMA PlainServes ==
  ASSUME Inv, TypeOK', NEW c \in Conns, NEW m \in ToClient, m.id # "SPAWN_MACHINES", Serves(c, m),
         UNCHANGED <<netclients, cds>>, Serving(c), worker'[c].pc # "close"
  PROVE  Inv'
<1>1. /\ main' = main /\ client' = client /\ history' = history /\ netclients' = netclients /\ cds' = cds
      /\ link \in [Conns -> Link] /\ link' \in [Conns -> Link]
  BY DEF Inv, TypeOK, Serves
<1>2. \A d \in Conns : /\ worker'[d].socket = worker[d].socket /\ (Listed(d)' <=> Listed(d))
                       /\ d # c => worker'[d] = worker[d]
                       /\ Passed(link[d], link'[d], m)
                       /\ Alive(link'[d]) => Alive(link[d])
  <2> TAKE d \in Conns
  <2>1. Passed(link[d], link'[d], m)
    BY DEF Serves
  <2>2. Alive(link'[d]) => Alive(link[d])
    BY <2>1 DEF Passed, Alive
  <2>3. CASE d = c
    BY <2>1, <2>2, <2>3 DEF Serves, Listed
  <2>4. CASE d # c
    BY <2>1, <2>2, <2>4 DEF Serves, Listed
  <2>5. QED
    BY <2>3, <2>4
<1>3. Entries'
  BY <1>1, <1>2 DEF Inv, Entries
<1>4. ASSUME NEW x \in Conns, Disturbs(x) PROVE Disturbs(x)'
  <2>1. CASE x = c
    BY <1>1, <1>2, <1>4, <2>1 DEF Disturbs, Serving
  <2>2. CASE x # c
    BY <1>1, <1>2, <1>4, <2>2 DEF Disturbs
  <2>3. QED
    BY <2>1, <2>2
<1>5. ASSUME main = "run", \A x \in Conns : ~Disturbs(x)', NEW d \in Conns, Alive(link'[d]), Serving(d)'
      PROVE  Learns(link'[d].down, client[d[1]].cds, cds')
  <2>1. Alive(link[d]) /\ Serving(d)
    BY <1>2, <1>5 DEF Serving
  <2>2. Learns(link[d].down, client[d[1]].cds, cds)
    BY <1>4, <1>5, <2>1 DEF Inv, Spread
  <2>3. link'[d].down = link[d].down \/ link'[d].down = Append(link[d].down, m)
    BY <1>2 DEF Passed
  <2>4. link[d].down \in Seq(ToClient)
    BY <1>1 DEF Link
  <2>5. Learns(Append(link[d].down, m), client[d[1]].cds, cds)
    BY <2>2, <2>4, LearnsMore
  <2>6. QED
    BY <1>1, <2>2, <2>3, <2>5
<1>6. QED
  BY <1>3, <1>5, WorkerServes

\* A message is received, and nothing is sent.
LEMMA ReceiptServes ==
  ASSUME Inv, NEW c \in Conns, NEW id, Receives(c, id), link' = Received(c),
         UNCHANGED <<main, netclients, cds, client, left, history>>,
         worker' = [worker EXCEPT ![c] = worker'[c]], worker'[c] \in Worker,
         worker'[c].pc \in {"recv", "forward", "remove"}, worker'[c].socket = worker[c].socket,
         worker'[c].admin_password_verified => worker'[c].auth,
         GoodIDs(worker'[c].to),
         worker'[c].pc # "remove" =>
           /\ Head(link[c].up).pw # "right"
           /\ worker'[c].admin_password_verified => worker[c].admin_password_verified /\ Head(link[c].up).pw = "none"
           /\ id = "INVOKE" => worker'[c].pc = "forward" /\ worker'[c].to = Head(link[c].up).to
  PROVE  Inv'
<1> DEFINE m == [id |-> "ADMIN_PASSWORD_OK"]
           up == link[c].up
<1>1. m \in ToClient /\ m.id # "SPAWN_MACHINES"
  BY DEF ToClient
<1>2. /\ worker[c].pc = "recv" /\ up \in Seq(ToServer) /\ up # <<>> /\ Head(up) = up[1] /\ Head(up).id = id
      /\ ToSet(Tail(up)) \subseteq ToSet(up)
      /\ HasRight(up) => Head(up).pw = "right" \/ HasRight(Tail(up))
      /\ Received(c) \in [Conns -> Link] /\ Received(c)[c] = [link[c] EXCEPT !.up = Tail(up)]
      /\ \A d \in Conns \ {c} : Received(c)[d] = link[d]
  BY ReceivesIs
<1>3. TypeOK'
  BY <1>2, WorkerTyped
<1>4. /\ link[c] \in Link /\ link'[c].up = Tail(up) /\ link'[c].down = link[c].down
      /\ link'[c].serverEnd = link[c].serverEnd /\ link'[c].clientEnd = link[c].clientEnd
      /\ link'[c].broken = link[c].broken
  BY <1>2 DEF Inv, TypeOK, Link
<1>5. \A d \in Conns : Passed(link[d], link'[d], m) /\ link'[d].down = link[d].down
  <2>1. \A d \in Conns \ {c} : link'[d] = link[d]
    BY <1>2
  <2>2. QED
    BY <1>4, <2>1 DEF Passed
<1>6. ASSUME worker'[c].pc # "remove" PROVE
        /\ Verifies(link'[c].up, worker'[c].admin_password_verified) =>
             Verifies(up, worker[c].admin_password_verified)
        /\ HasRight(up) => HasRight(link'[c].up)
        /\ \A d \in Conns : Outstanding(c, d) => Outstanding(c, d)'
  <2>1. HasRight(up) => HasRight(link'[c].up)
    BY <1>2, <1>4, <1>6
  <2>2. Verifies(link'[c].up, worker'[c].admin_password_verified) => Verifies(up, worker[c].admin_password_verified)
    BY <1>2, <1>4, <1>6, VerifiesBefore
  <2>3. ASSUME NEW d \in Conns, Outstanding(c, d) PROVE Outstanding(c, d)'
    <3>1. worker'[d].socket = worker[d].socket
      BY DEF Inv, TypeOK
    <3>2. CASE \E n \in ToSet(link[d].down) : n.id = "INVOKE"
      BY <1>5, <3>2 DEF Outstanding
    <3>3. CASE ~\E n \in ToSet(link[d].down) : n.id = "INVOKE"
      BY <1>2, <1>6, <2>3, <3>1, <3>3 DEF Outstanding
    <3>4. QED
      BY <3>2, <3>3
  <2>4. QED
    BY <2>1, <2>2, <2>3
<1>7. Listed(c) /\ Serving(c)
  BY <1>2 DEF Listed, Serving
<1>8. /\ \A d \in Conns \ {c} : worker'[d] = worker[d] /\ link'[d].up = link[d].up
      /\ GoodList(cds')
      /\ ToSet(link'[c].up) \subseteq ToSet(up)
  <2>1. GoodList(cds)
    BY DEF Inv, Addressed
  <2>2. GoodList(cds) => GoodList(cds')
    OBVIOUS
  <2>3. QED
    BY <1>2, <1>4, <2>1, <2>2 DEF Inv, TypeOK
<1> HIDE DEF m
<1>9. Serves(c, m)
  BY <1>5, <1>6, <1>7, <1>8 DEF Serves
<1>10. QED
  BY <1>1, <1>3, <1>7, <1>9, PlainServes

LEMMA ContinueIs == Continue \in {"recv", "remove"}
  BY DEF Continue

LEMMA PlainReceipts ==
  ASSUME Inv, NEW c \in Conns, Authenticate(c) \/ Invoke(c) \/ InvalidPacket(c)
  PROVE  Inv'
<1>1. /\ worker \in [Conns -> Worker] /\ worker[c] \in Worker
      /\ worker[c].admin_password_verified => worker[c].auth
      /\ GoodIDs(worker[c].to)
  BY DEF Inv, TypeOK, Phases, Addressed
<1>2. CASE Authenticate(c)
  <2>1. /\ Receives(c, "AUTH") /\ link' = Received(c) /\ UNCHANGED <<main, netclients, cds, client, left, history>>
        /\ worker' = [worker EXCEPT ![c] = [worker[c] EXCEPT !.auth = TRUE, !.pc = Continue]]
    BY <1>2 DEF Authenticate
  <2>2. /\ worker'[c] \in Worker /\ worker'[c].pc = Continue /\ worker'[c].socket = worker[c].socket /\ worker'[c].auth
        /\ worker'[c].admin_password_verified = worker[c].admin_password_verified /\ worker'[c].to = worker[c].to
    BY <1>1, <2>1, ContinueIs DEF Worker
  <2>3. worker' = [worker EXCEPT ![c] = worker'[c]]
    BY <1>1, <2>1
  <2>4. Head(link[c].up).pw = "none"
    <3>1. Receives(c, "AUTH") /\ "AUTH" # "ADMIN_PASSWORD"
      BY <2>1
    <3>2. QED
      BY ONLY Inv, c \in Conns, <3>1, ReceivesIs
  <2>5. QED
    BY <1>1, <2>1, <2>2, <2>3, <2>4, ContinueIs, ReceiptServes
<1>3. CASE Invoke(c)
  <2> DEFINE h == Head(link[c].up)
  <2>1. /\ Receives(c, "INVOKE") /\ link' = Received(c) /\ UNCHANGED <<main, netclients, cds, client, left, history>>
        /\ worker[c].auth /\ worker[c].admin_password_verified
        /\ worker' = [worker EXCEPT ![c] = [worker[c] EXCEPT !.to = h.to, !.pc = "forward"]]
    BY <1>3 DEF Invoke
  <2>2. h.pw = "none" /\ h \in ToServer /\ GoodIDs(h.to)
    <3>1. Receives(c, "INVOKE") /\ "INVOKE" # "ADMIN_PASSWORD"
      BY <2>1
    <3>2. Head(link[c].up).pw = "none"
      BY ONLY Inv, c \in Conns, <3>1, ReceivesIs
    <3>3. Head(link[c].up) \in ToServer /\ GoodUp(Head(link[c].up))
      BY <3>1, ReceivesIs
    <3>4. QED
      BY <3>2, <3>3 DEF GoodUp
  <2>3. h.to \in SUBSET NetIDs
    BY <2>2 DEF ToServer
  <2> HIDE DEF h
  <2>4. /\ worker'[c] \in Worker /\ worker'[c].pc = "forward" /\ worker'[c].socket = worker[c].socket
        /\ worker'[c].auth = worker[c].auth
        /\ worker'[c].admin_password_verified = worker[c].admin_password_verified /\ worker'[c].to = h.to
    BY <1>1, <2>1, <2>3 DEF Worker
  <2>5. worker' = [worker EXCEPT ![c] = worker'[c]]
    BY <1>1, <2>1
  <2>6. QED
    BY <2>1, <2>2, <2>4, <2>5, ReceiptServes DEF h
<1>4. CASE InvalidPacket(c)
  <2>1. PICK id \in {"LOGON", "ADMIN_PASSWORD", "INVOKE"} : Receives(c, id)
    BY <1>4 DEF InvalidPacket
  <2>2. /\ link' = Received(c) /\ UNCHANGED <<main, netclients, cds, client, left, history>>
        /\ worker' = [worker EXCEPT ![c] = [worker[c] EXCEPT !.pc = "remove"]]
    BY <1>4 DEF InvalidPacket
  <2>3. /\ worker'[c] \in Worker /\ worker'[c].pc = "remove" /\ worker'[c].socket = worker[c].socket
        /\ worker'[c].auth = worker[c].auth
        /\ worker'[c].admin_password_verified = worker[c].admin_password_verified /\ worker'[c].to = worker[c].to
    BY <1>1, <2>2 DEF Worker
  <2>4. worker' = [worker EXCEPT ![c] = worker'[c]]
    BY <1>1, <2>2
  <2>5. QED
    BY <1>1, <2>1, <2>2, <2>3, <2>4, ReceiptServes
<1>5. QED
  BY <1>2, <1>3, <1>4

LEMMA AdminPasswordKeeps == ASSUME Inv, NEW c \in Conns, AdminPassword(c) PROVE Inv'
<1> DEFINE up == link[c].up
           m == [id |-> "ADMIN_PASSWORD_OK"]
<1>1. /\ worker \in [Conns -> Worker] /\ worker[c] \in Worker
      /\ worker[c].admin_password_verified => worker[c].auth
      /\ GoodIDs(worker[c].to)
  BY DEF Inv, TypeOK, Phases, Addressed
<1>2. /\ Receives(c, "ADMIN_PASSWORD") /\ worker[c].auth
      /\ UNCHANGED <<main, netclients, cds, client, left, history>>
  BY DEF AdminPassword
<1>3. ASSUME NEW verified \in BOOLEAN, NEW pc \in {"recv", "remove"},
             worker' = [worker EXCEPT ![c] = [worker[c] EXCEPT !.admin_password_verified = verified, !.pc = pc]]
      PROVE  /\ worker'[c] \in Worker /\ worker'[c].pc = pc /\ worker'[c].socket = worker[c].socket
             /\ worker'[c].auth /\ worker'[c].admin_password_verified = verified /\ worker'[c].to = worker[c].to
             /\ worker' = [worker EXCEPT ![c] = worker'[c]]
  BY <1>1, <1>2, <1>3 DEF Worker
<1>4. CASE Head(up).pw = "right" /\ ~Alive(link[c]) /\ link' = Received(c) /\ worker' = [worker EXCEPT ![c].pc = "remove"]
  <2>1. worker' = [worker EXCEPT ![c] = [worker[c] EXCEPT
          !.admin_password_verified = worker[c].admin_password_verified, !.pc = "remove"]]
    BY <1>1, <1>4 DEF Worker
  <2>2. worker[c].admin_password_verified \in BOOLEAN
    BY <1>1 DEF Worker
  <2>3. /\ worker'[c] \in Worker /\ worker'[c].pc = "remove" /\ worker'[c].socket = worker[c].socket
        /\ worker'[c].auth /\ worker'[c].to = worker[c].to
        /\ worker' = [worker EXCEPT ![c] = worker'[c]]
    BY <1>3, <2>1, <2>2
  <2>4. QED
    BY <1>1, <1>2, <1>4, <2>3, ReceiptServes
<1>5. CASE /\ Head(up).pw # "right" /\ link' = Received(c)
           /\ worker' = [worker EXCEPT ![c].admin_password_verified = FALSE, ![c].pc = Continue]
  <2>1. worker' = [worker EXCEPT ![c] = [worker[c] EXCEPT !.admin_password_verified = FALSE, !.pc = Continue]]
    BY <1>5
  <2>2. /\ worker'[c] \in Worker /\ worker'[c].pc = Continue /\ worker'[c].socket = worker[c].socket
        /\ worker'[c].auth /\ ~worker'[c].admin_password_verified /\ worker'[c].to = worker[c].to
        /\ worker' = [worker EXCEPT ![c] = worker'[c]]
    BY <1>3, <2>1, ContinueIs
  <2>3. QED
    BY <1>1, <1>2, <1>5, <2>2, ContinueIs, ReceiptServes
<1>6. CASE /\ Head(up).pw = "right"
           /\ link' = [Received(c) EXCEPT ![c] = SentDown(@, m)]
           /\ worker' = [worker EXCEPT ![c].admin_password_verified = TRUE, ![c].pc = Continue]
  <2> DEFINE l == Received(c)[c]
  <2>1. worker' = [worker EXCEPT ![c] = [worker[c] EXCEPT !.admin_password_verified = TRUE, !.pc = Continue]]
    BY <1>6
  <2>2. /\ worker'[c] \in Worker /\ worker'[c].pc = Continue /\ worker'[c].socket = worker[c].socket
        /\ worker'[c].auth /\ worker'[c].admin_password_verified /\ worker'[c].to = worker[c].to
        /\ worker' = [worker EXCEPT ![c] = worker'[c]]
    BY <1>3, <2>1, ContinueIs
  <2>3. /\ worker[c].pc = "recv" /\ up \in Seq(ToServer) /\ up # <<>> /\ Head(up) = up[1] /\ Head(up).id = "ADMIN_PASSWORD"
        /\ ToSet(Tail(up)) \subseteq ToSet(up) /\ Head(up) \in ToSet(up)
        /\ Received(c) \in [Conns -> Link] /\ l = [link[c] EXCEPT !.up = Tail(up)]
        /\ \A d \in Conns \ {c} : Received(c)[d] = link[d]
    BY <1>2, ReceivesIs
  <2>4. m \in ToClient /\ m.id = "ADMIN_PASSWORD_OK"
    BY DEF ToClient
  <2>5. /\ l \in Link /\ l.up = Tail(up) /\ l.down = link[c].down /\ l.serverEnd = link[c].serverEnd
        /\ l.clientEnd = link[c].clientEnd /\ l.broken = link[c].broken /\ l.serverEnd = "open"
    <3>1. link[c] \in Link /\ link[c].serverEnd = "open"
      BY <1>2 DEF Inv, TypeOK, Receives
    <3>2. QED
      BY <2>3, <3>1 DEF Link
  <2>6. link'[c] = SentDown(l, m) /\ \A d \in Conns \ {c} : link'[d] = link[d]
    BY <1>6, <2>3
  <2> HIDE DEF l, m
  <2>7. /\ SentDown(l, m) \in Link /\ Passed(l, SentDown(l, m), m) /\ SentDown(l, m).up = l.up
        /\ Alive(SentDown(l, m)) => SentDown(l, m).down = Append(l.down, m)
        /\ m \in ToSet(Append(l.down, m))
    BY <2>4, <2>5, SentDownIs
  <2>8. link' \in [Conns -> Link]
    BY <1>6, <2>3, <2>7 DEF l, m
  <2>9. TypeOK'
    BY <1>2, <2>2, <2>8, WorkerTyped
  <2>10. \A d \in Conns : Passed(link[d], link'[d], m) /\ (link'[d].down # link[d].down => d = c)
    <3> TAKE d \in Conns
    <3>1. CASE d = c
      <4>1. Alive(l) <=> Alive(link[c])
        BY <2>5 DEF Alive
      <4>2. QED
        BY <2>5, <2>6, <2>7, <3>1, <4>1 DEF Passed
    <3>2. CASE d # c
      BY <2>6, <3>2 DEF Passed
    <3>3. QED
      BY <3>1, <3>2
  <2>11. HasRight(up) /\ GoodDown(c, m)
    BY <1>6, <2>3, <2>4 DEF HasRight, GoodDown
  <2>12. /\ Alive(link'[c]) => \E n \in ToSet(link'[c].down) : n.id = "ADMIN_PASSWORD_OK"
         /\ Verifies(link'[c].up, worker'[c].admin_password_verified) => Verifies(up, worker[c].admin_password_verified)
    <3>1. Alive(link'[c]) => \E n \in ToSet(link'[c].down) : n.id = "ADMIN_PASSWORD_OK"
      BY <2>4, <2>6, <2>7
    <3>2. link'[c].up = Tail(up)
      BY <2>5, <2>6, <2>7
    <3>3. QED
      BY <1>6, <2>3, <3>1, <3>2, VerifiesBefore
  <2>13. ASSUME NEW d \in Conns, Outstanding(c, d) PROVE Outstanding(c, d)'
    <3>1. PICK n \in ToSet(link[d].down) : n.id = "INVOKE"
      BY <2>3, <2>13 DEF Outstanding
    <3>2. n \in ToSet(link'[d].down)
      <4>1. link[d].down \in Seq(ToClient)
        BY DEF Inv, TypeOK, Link
      <4>2. ToSet(Append(link[d].down, m)) = ToSet(link[d].down) \cup {m}
        BY <2>4, <4>1, InQueue
      <4>3. link'[d].down = link[d].down \/ link'[d].down = Append(link[d].down, m)
        BY <2>10 DEF Passed
      <4>4. QED
        BY <3>1, <4>2, <4>3
    <3>3. QED
      BY <3>1, <3>2 DEF Outstanding
  <2>14. /\ \A d \in Conns \ {c} : worker'[d] = worker[d] /\ link'[d].up = link[d].up
         /\ GoodList(cds') /\ ToSet(link'[c].up) \subseteq ToSet(up)
    <3>1. GoodList(cds)
      BY DEF Inv, Addressed
    <3>2. GoodList(cds) => GoodList(cds')
      BY <1>2
    <3>3. QED
      BY <1>1, <2>2, <2>3, <2>5, <2>6, <2>7, <3>1, <3>2
  <2>15. Serving(c) /\ Listed(c)
    BY <2>3 DEF Serving, Listed
  <2>16. Serves(c, m)
    BY <1>1, <1>2, <2>2, <2>10, <2>11, <2>12, <2>13, <2>14, <2>15, ContinueIs DEF Serves
  <2>17. QED
    BY <1>2, <2>2, <2>4, <2>9, <2>15, <2>16, ContinueIs, PlainServes
<1>7. QED
  BY <1>4, <1>5, <1>6 DEF AdminPassword

LEMMA ForwardKeeps == ASSUME Inv, NEW c \in Conns, Forward(c) PROVE Inv'
<1>1. PICK n \in worker[c].to :
        /\ worker' = [worker EXCEPT ![c] =
             [worker[c] EXCEPT !.to = @ \ {n}, !.pc = IF worker[c].to = {n} THEN Continue ELSE @]]
        /\ \/ Holding({n[1]}) = {} /\ UNCHANGED link
           \/ \E d \in Holding({n[1]}), ok \in BOOLEAN :
                ServerSends(d, [id |-> "INVOKE", meant |-> n[2]], ok)
  BY DEF Forward
<1> DEFINE m == [id |-> "INVOKE", meant |-> n[2]]
<1>2. /\ worker \in [Conns -> Worker] /\ worker[c] \in Worker /\ link \in [Conns -> Link]
      /\ worker[c].admin_password_verified => worker[c].auth
      /\ GoodIDs(worker[c].to) /\ worker[c].to \subseteq NetIDs
      /\ worker[c].pc = "forward" /\ UNCHANGED <<main, netclients, cds, client, left, history>>
  BY DEF Inv, TypeOK, Phases, Addressed, Worker, Forward
<1>3. n \in NetIDs /\ n[1] \in Sockets /\ n[2] \in Names /\ Good(n[1], n[2])
  BY <1>2 DEF NetIDs, GoodIDs
<1>4. m \in ToClient /\ m.id = "INVOKE" /\ m.meant = n[2]
  BY <1>3 DEF ToClient
<1>5. /\ worker'[c] \in Worker /\ worker'[c].pc = (IF worker[c].to = {n} THEN Continue ELSE "forward")
      /\ worker'[c].socket = worker[c].socket /\ worker'[c].auth = worker[c].auth
      /\ worker'[c].admin_password_verified = worker[c].admin_password_verified
      /\ worker'[c].to = worker[c].to \ {n}
      /\ worker' = [worker EXCEPT ![c] = worker'[c]]
  <2>1. PICK pc \in {"recv", "remove", "forward"} : pc = IF worker[c].to = {n} THEN Continue ELSE worker[c].pc
    BY <1>2, ContinueIs
  <2>2. worker' = [worker EXCEPT ![c] = [worker[c] EXCEPT !.to = worker[c].to \ {n}, !.pc = pc]]
    BY <1>1, <2>1
  <2>3. worker[c].to \ {n} \subseteq NetIDs
    BY <1>2
  <2>4. /\ worker'[c] \in Worker /\ worker'[c].pc = pc
        /\ worker'[c].socket = worker[c].socket /\ worker'[c].auth = worker[c].auth
        /\ worker'[c].admin_password_verified = worker[c].admin_password_verified
        /\ worker'[c].to = worker[c].to \ {n}
    BY <1>2, <2>2, <2>3 DEF Worker
  <2>5. QED
    BY <1>2, <2>1, <2>2, <2>4
<1> HIDE DEF m

<1>6. \/ UNCHANGED link /\ \A x \in Conns : Alive(link[x]) => worker[x].socket # n[1]
      \/ \E d \in Conns : /\ worker[d].socket = n[1] /\ link[d].serverEnd = "open"
                          /\ link' = [link EXCEPT ![d] = SentDown(link[d], m)]
  <2>1. CASE Holding({n[1]}) = {} /\ UNCHANGED link
    BY <2>1 DEF Holding, Alive
  <2>2. CASE \E d \in Holding({n[1]}), ok \in BOOLEAN : ServerSends(d, m, ok)
    <3>1. PICK d \in Holding({n[1]}), ok \in BOOLEAN : ServerSends(d, m, ok)
      BY <2>2
    <3>2. d \in Conns /\ worker[d].socket = n[1] /\ link[d].serverEnd = "open"
      BY <3>1 DEF Holding
    <3>3. CASE link' = [link EXCEPT ![d] = SentDown(link[d], m)]
      BY <3>2, <3>3
    <3>4. CASE ~Alive(link[d]) /\ UNCHANGED link
      <4>1. ASSUME NEW x \in Conns, Alive(link[x]) PROVE worker[x].socket # n[1]
        <5>1. SUFFICES ASSUME worker[x].socket = n[1] PROVE FALSE
          OBVIOUS
        <5>2. x = d
          BY <1>3, <3>2, <5>1, NamesAre DEF Inv, Entries
        <5>3. QED
          BY <3>4, <4>1, <5>2
      <4>2. QED
        BY <3>4, <4>1
    <3>5. QED
      BY <3>1, <3>3, <3>4 DEF ServerSends
  <2>3. QED
    BY <1>1, <2>1, <2>2 DEF m
<1>7. /\ link' \in [Conns -> Link]
      /\ \A d \in Conns : /\ Passed(link[d], link'[d], m) /\ link'[d].up = link[d].up
                          /\ link'[d].down # link[d].down => worker[d].socket = n[1]
                          /\ Alive(link'[d]) /\ worker[d].socket = n[1] => m \in ToSet(link'[d].down)
  <2>1. CASE UNCHANGED link /\ \A x \in Conns : Alive(link[x]) => worker[x].socket # n[1]
    BY <1>2, <2>1 DEF Passed
  <2>2. CASE \E d \in Conns : /\ worker[d].socket = n[1] /\ link[d].serverEnd = "open"
                              /\ link' = [link EXCEPT ![d] = SentDown(link[d], m)]
    <3>1. PICK d \in Conns : /\ worker[d].socket = n[1] /\ link[d].serverEnd = "open"
                             /\ link' = [link EXCEPT ![d] = SentDown(link[d], m)]
      BY <2>2
    <3>2. link[d] \in Link
      BY <1>2
    <3>3. /\ SentDown(link[d], m) \in Link /\ Passed(link[d], SentDown(link[d], m), m)
          /\ SentDown(link[d], m).up = link[d].up
          /\ Alive(SentDown(link[d], m)) => m \in ToSet(SentDown(link[d], m).down)
      BY <1>4, <3>1, <3>2, SentDownIs
    <3>4. link'[d] = SentDown(link[d], m) /\ \A x \in Conns \ {d} : link'[x] = link[x]
      BY <1>2, <3>1
    <3>5. ASSUME NEW x \in Conns
          PROVE  /\ Passed(link[x], link'[x], m) /\ link'[x].up = link[x].up
                 /\ link'[x].down # link[x].down => worker[x].socket = n[1]
                 /\ Alive(link'[x]) /\ worker[x].socket = n[1] => m \in ToSet(link'[x].down)
      <4>1. CASE x = d
        BY <3>1, <3>3, <3>4, <4>1
      <4>2. CASE x # d
        <5>1. worker[x].socket # n[1]
          BY <1>3, <3>1, <4>2, NamesAre DEF Inv, Entries
        <5>2. QED
          BY <3>4, <4>2, <5>1 DEF Passed
      <4>3. QED
        BY <4>1, <4>2
    <3>6. QED
      BY <1>2, <3>1, <3>3, <3>5
  <2>3. QED
    BY <1>6, <2>1, <2>2
<1>8. TypeOK'
  BY <1>2, <1>5, <1>7, WorkerTyped
<1>9. \A d \in Conns : link'[d].down # link[d].down => GoodDown(d, m)
  <2> SUFFICES ASSUME NEW d \in Conns, worker[d].socket = n[1] PROVE GoodDown(d, m)
    BY <1>7
  <2>1. n[2] # NoEntry
    BY <1>3, NamesAre DEF Names
  <2>2. n[2] = Unnamed \/ d[1] = n[2] \/ d \in history.reused
    BY <1>3, <2>1 DEF Good
  <2>3. QED
    BY <1>4, <2>2 DEF GoodDown
<1>10. ASSUME NEW d \in Conns, Alive(link'[d]), Outstanding(c, d) PROVE Outstanding(c, d)'
  <2>1. worker'[d].socket = worker[d].socket
    BY <1>2, <1>5
  <2>2. CASE \E k \in ToSet(link[d].down) : k.id = "INVOKE"
    <3>1. PICK k \in ToSet(link[d].down) : k.id = "INVOKE"
      BY <2>2
    <3>2. link[d].down \in Seq(ToClient)
      BY <1>2 DEF Link
    <3>3. ToSet(Append(link[d].down, m)) = ToSet(link[d].down) \cup {m}
      BY <1>4, <3>2, InQueue
    <3>4. link'[d].down = link[d].down \/ link'[d].down = Append(link[d].down, m)
      BY <1>7 DEF Passed
    <3>5. k \in ToSet(link'[d].down)
      BY <3>1, <3>3, <3>4
    <3>6. QED
      BY <3>1, <3>5 DEF Outstanding
  <2>3. CASE \E k \in worker[c].to : k[1] = worker[d].socket
    <3>1. PICK k \in worker[c].to : k[1] = worker[d].socket
      BY <2>3
    <3>2. CASE k = n
      <4>1. m \in ToSet(link'[d].down)
        BY <1>7, <1>10, <3>1, <3>2
      <4>2. QED
        BY <1>4, <4>1 DEF Outstanding
    <3>3. CASE k # n
      <4>1. k \in worker'[c].to /\ worker'[c].pc = "forward"
        BY <1>5, <3>1, <3>3
      <4>2. QED
        BY <2>1, <3>1, <4>1 DEF Outstanding
    <3>4. QED
      BY <3>2, <3>3
  <2>4. QED
    BY <1>2, <1>10, <2>2, <2>3 DEF Outstanding
<1>11. /\ \A d \in Conns \ {c} : worker'[d] = worker[d]
       /\ GoodList(cds') /\ GoodIDs(worker'[c].to) /\ Serving(c) /\ Listed(c)
       /\ worker'[c].pc \in {"recv", "forward", "remove"}
  <2>1. GoodList(cds)
    BY DEF Inv, Addressed
  <2>2. GoodList(cds) => GoodList(cds')
    BY <1>2
  <2>3. GoodIDs(worker'[c].to)
    BY <1>2, <1>5 DEF GoodIDs
  <2>4. worker'[c].pc \in {"recv", "forward", "remove"}
    BY <1>5, ContinueIs
  <2>5. \A d \in Conns \ {c} : worker'[d] = worker[d]
    BY <1>2, <1>5
  <2>6. QED
    BY <1>2, <2>1, <2>2, <2>3, <2>4, <2>5 DEF Serving, Listed
<1>12. Serves(c, m)
  <2>1. Verifies(link'[c].up, worker'[c].admin_password_verified) => Verifies(link[c].up, worker[c].admin_password_verified)
    BY <1>5, <1>7
  <2>2. HasRight(link[c].up) => HasRight(link'[c].up)
    BY <1>7
  <2>3. QED
    BY <1>2, <1>4, <1>5, <1>7, <1>9, <1>10, <1>11, <2>1, <2>2 DEF Serves
<1>13. QED
  BY <1>2, <1>4, <1>8, <1>11, <1>12, PlainServes

\* The list is sent to the connections of T; l is what the connections were before.
Tells(list, T, l, m) ==
  /\ m = [id |-> "SPAWN_MACHINES", list |-> list]
  /\ \A d \in T : link[d].serverEnd = "open"
  /\ \A d \in Conns : /\ l[d].down = link[d].down /\ l[d].serverEnd = link[d].serverEnd
                       /\ l[d].clientEnd = link[d].clientEnd /\ l[d].broken = link[d].broken
  /\ link' = [d \in Conns |-> IF d \in T THEN SentDown(l[d], m) ELSE l[d]]

HasTold(list, T, l, m) ==
  /\ m \in ToClient /\ m.id = "SPAWN_MACHINES" /\ m.list = list
  /\ link' \in [Conns -> Link]
  /\ \A d \in Conns : /\ Passed(link[d], link'[d], m) /\ link'[d].up = l[d].up
                      /\ Alive(link'[d]) => Alive(link[d])
                      /\ GoodDown(d, m)
                      /\ ToSet(link[d].down) \subseteq ToSet(link'[d].down)
                      /\ d \in T /\ Alive(link'[d]) => link'[d].down = Append(link[d].down, m)

LEMMA ToldIs ==
  ASSUME Inv, NEW list \in Lists, GoodList(list), NEW T \in SUBSET Conns,
         NEW l \in [Conns -> Link], NEW m, Tells(list, T, l, m)
  PROVE  HasTold(list, T, l, m)
<1>1. m \in ToClient /\ m.id = "SPAWN_MACHINES" /\ m.list = list
  BY DEF ToClient, Tells
<1>2. \A d \in Conns : GoodDown(d, m)
  BY <1>1 DEF GoodDown
<1>3. ASSUME NEW d \in Conns
      PROVE  /\ link'[d] \in Link /\ Passed(link[d], link'[d], m) /\ link'[d].up = l[d].up
             /\ Alive(link'[d]) => Alive(link[d])
             /\ d \in T /\ Alive(link'[d]) => link'[d].down = Append(link[d].down, m)
  <2>1. /\ l[d] \in Link /\ (Alive(l[d]) <=> Alive(link[d])) /\ l[d].down = link[d].down
        /\ l[d].serverEnd = link[d].serverEnd /\ l[d].clientEnd = link[d].clientEnd /\ l[d].broken = link[d].broken
    BY DEF Alive, Tells
  <2>2. CASE d \in T
    <3>1. link'[d] = SentDown(l[d], m) /\ l[d].serverEnd = "open"
      BY <2>1, <2>2 DEF Tells
    <3>2. /\ SentDown(l[d], m) \in Link /\ Passed(l[d], SentDown(l[d], m), m) /\ SentDown(l[d], m).up = l[d].up
          /\ Alive(SentDown(l[d], m)) => Alive(l[d]) /\ SentDown(l[d], m).down = Append(l[d].down, m)
      BY <1>1, <2>1, <3>1, SentDownIs
    <3>3. Passed(link[d], SentDown(l[d], m), m)
      BY <2>1, <3>2 DEF Passed
    <3>4. QED
      BY <2>1, <3>1, <3>2, <3>3
  <2>3. CASE d \notin T
    <3>1. link'[d] = l[d]
      BY <2>3 DEF Tells
    <3>2. QED
      BY <2>1, <2>3, <3>1 DEF Passed
  <2>4. QED
    BY <2>2, <2>3
<1>4. ASSUME NEW d \in Conns PROVE ToSet(link[d].down) \subseteq ToSet(link'[d].down)
  <2>1. link[d].down \in Seq(ToClient)
    BY DEF Inv, TypeOK, Link
  <2>2. ToSet(Append(link[d].down, m)) = ToSet(link[d].down) \cup {m}
    BY <1>1, <2>1, InQueue
  <2>3. link'[d].down = link[d].down \/ link'[d].down = Append(link[d].down, m)
    BY <1>3 DEF Passed
  <2>4. QED
    BY <2>2, <2>3
<1>5. link' \in [Conns -> Link]
  BY <1>3 DEF Tells
<1>6. QED
  BY <1>1, <1>2, <1>3, <1>4, <1>5 DEF HasTold

LEMMA LogonKeeps == ASSUME Inv, NEW c \in Conns, Logon(c) PROVE Inv'
<1> DEFINE up == link[c].up
           s == worker[c].socket
<1>1. /\ Receives(c, "LOGON") /\ worker[c].auth /\ cds' = [cds EXCEPT ![s] = c[1]]
      /\ worker' = [worker EXCEPT ![c] = [worker[c] EXCEPT !.pc = Continue]]
      /\ UNCHANGED <<main, netclients, client, left, history>>
  BY DEF Logon
<1>2. PICK n \in 0 .. Len(netclients) : /\ n < Len(netclients) => MayFail(n + 1)
                                        /\ link' = Told(Received(c), cds', n)
  BY DEF Logon
<1>3. /\ worker[c].pc = "recv" /\ up \in Seq(ToServer) /\ up # <<>> /\ Head(up) = up[1] /\ Head(up).id = "LOGON"
      /\ ToSet(Tail(up)) \subseteq ToSet(up)
      /\ HasRight(up) => Head(up).pw = "right" \/ HasRight(Tail(up))
      /\ Received(c) \in [Conns -> Link] /\ Received(c)[c] = [link[c] EXCEPT !.up = Tail(up)]
      /\ \A d \in Conns \ {c} : Received(c)[d] = link[d]
  BY <1>1, ReceivesIs
<1>4. Head(up).pw = "none"
  <2>1. Receives(c, "LOGON") /\ "LOGON" # "ADMIN_PASSWORD"
    BY <1>1
  <2>2. Head(link[c].up).pw = "none"
    BY ONLY Inv, c \in Conns, <2>1, ReceivesIs
  <2>3. QED
    BY <2>2
<1>5. /\ worker \in [Conns -> Worker] /\ worker[c] \in Worker /\ link \in [Conns -> Link] /\ cds \in Lists
      /\ worker[c].admin_password_verified => worker[c].auth
      /\ GoodIDs(worker[c].to) /\ netclients \in Seq(Sockets)
  BY DEF Inv, TypeOK, Phases, Addressed
<1>6. s \in Sockets /\ Listed(c) /\ Serving(c) /\ s \in history.given
  BY <1>3, <1>5 DEF Inv, Phases, Entries, Worker, Listed, Serving
<1>7. c[1] \in Clients
  BY ConnsAre
<1>8. PICK list \in Lists : list = cds' /\ list = [cds EXCEPT ![s] = c[1]]
  BY <1>1, <1>5, <1>7 DEF Lists
<1>9. GoodList(list)
  <2> SUFFICES ASSUME NEW t \in Sockets PROVE Good(t, list[t])
    BY DEF GoodList
  <2>1. CASE t = s
    <3>1. list[t] = c[1]
      BY <1>5, <1>8, <2>1 DEF Lists
    <3>2. \A d \in Conns : worker[d].socket = s => d = c
      BY <1>6, NamesAre DEF Inv, Entries
    <3>3. QED
      BY <1>6, <2>1, <3>1, <3>2 DEF Good
  <2>2. CASE t # s
    <3>1. list[t] = cds[t]
      BY <1>5, <1>8, <2>2 DEF Lists
    <3>2. QED
      BY <3>1 DEF Inv, Addressed, GoodList
  <2>3. QED
    BY <2>1, <2>2
<1>10. PICK m : m = [id |-> "SPAWN_MACHINES", list |-> list]
  OBVIOUS
<1>11. PICK T \in SUBSET Conns :
         T = {d \in Conns : link[d].serverEnd = "open" /\ worker[d].socket \in {netclients[i] : i \in 1 .. n}}
  OBVIOUS
<1>12. PICK l \in [Conns -> Link] : l = Received(c)
  BY <1>3
<1>13. \A d \in Conns : /\ l[d].down = link[d].down /\ l[d].serverEnd = link[d].serverEnd
                        /\ l[d].clientEnd = link[d].clientEnd /\ l[d].broken = link[d].broken
                        /\ l[d].up = IF d = c THEN Tail(up) ELSE link[d].up
  <2> TAKE d \in Conns
  <2>1. link[d] \in Link
    BY <1>5
  <2>2. CASE d = c
    BY <1>3, <1>12, <2>1, <2>2 DEF Link
  <2>3. CASE d # c
    BY <1>3, <1>12, <2>3
  <2>4. QED
    BY <2>2, <2>3
<1>14. link' = [d \in Conns |-> IF d \in T THEN SentDown(l[d], m) ELSE l[d]]
  <2>1. link' = [d \in Conns |-> IF l[d].serverEnd = "open" /\ worker[d].socket \in {netclients[i] : i \in 1 .. n}
                                  THEN SentDown(l[d], m) ELSE l[d]]
    BY <1>2, <1>8, <1>10, <1>12 DEF Told
  <2>2. \A d \in Conns : (l[d].serverEnd = "open" /\ worker[d].socket \in {netclients[i] : i \in 1 .. n}) <=> d \in T
    BY <1>11, <1>13
  <2>3. QED
    BY <2>1, <2>2
<1>15. /\ m \in ToClient /\ m.id = "SPAWN_MACHINES" /\ m.list = list
       /\ link' \in [Conns -> Link]
       /\ \A d \in Conns : /\ Passed(link[d], link'[d], m) /\ link'[d].up = l[d].up
                           /\ Alive(link'[d]) => Alive(link[d])
                           /\ GoodDown(d, m)
                           /\ ToSet(link[d].down) \subseteq ToSet(link'[d].down)
                           /\ d \in T /\ Alive(link'[d]) => link'[d].down = Append(link[d].down, m)
  <2>1. Tells(list, T, l, m)
    BY <1>10, <1>11, <1>13, <1>14 DEF Tells
  <2>2. HasTold(list, T, l, m)
    BY <1>9, <2>1, ToldIs
  <2>3. QED
    BY <2>2 DEF HasTold
<1>16. /\ worker'[c] \in Worker /\ worker'[c].pc = Continue /\ worker'[c].socket = s /\ worker'[c].auth
       /\ worker'[c].admin_password_verified = worker[c].admin_password_verified /\ worker'[c].to = worker[c].to
       /\ worker' = [worker EXCEPT ![c] = worker'[c]]
  BY <1>1, <1>5, ContinueIs DEF Worker
<1>17. \A d \in Conns : worker'[d].socket = worker[d].socket /\ (Listed(d)' <=> Listed(d)) /\ (d # c => worker'[d] = worker[d])
  <2> TAKE d \in Conns
  <2>1. CASE d = c
    BY <1>6, <1>16, <2>1, ContinueIs DEF Listed
  <2>2. CASE d # c
    BY <1>5, <1>16, <2>2 DEF Listed
  <2>3. QED
    BY <2>1, <2>2
<1>18. TypeOK'
  <2>1. worker' \in [Conns -> Worker] /\ cds' \in Lists
    BY <1>5, <1>8, <1>16
  <2>2. QED
    BY <1>1, <1>15, <2>1 DEF Inv, TypeOK
<1>19. Entries'
  BY <1>1, <1>17 DEF Inv, Entries
<1>20. Serves(c, m)
  <2>1. ASSUME NEW d \in Conns, Outstanding(c, d) PROVE Outstanding(c, d)'
    <3>1. PICK k \in ToSet(link[d].down) : k.id = "INVOKE"
      BY <1>3, <2>1 DEF Outstanding
    <3>2. k \in ToSet(link'[d].down)
      BY <1>15, <3>1
    <3>3. QED
      BY <3>1, <3>2 DEF Outstanding
  <2>2. link'[c].up = Tail(up)
    BY <1>13, <1>15
  <2>3. Verifies(link'[c].up, worker'[c].admin_password_verified) => Verifies(up, worker[c].admin_password_verified)
    BY <1>3, <1>4, <1>16, <2>2, VerifiesBefore
  <2>4. HasRight(up) => HasRight(link'[c].up)
    BY <1>3, <1>4, <2>2
  <2>5. \A d \in Conns \ {c} : worker'[d] = worker[d] /\ link'[d].up = link[d].up
    BY <1>13, <1>15, <1>17
  <2>6. GoodList(cds') /\ GoodIDs(worker'[c].to)
    BY <1>5, <1>8, <1>9, <1>16
  <2>7. ToSet(link'[c].up) \subseteq ToSet(up)
    BY <1>3, <2>2
  <2>8. QED
    BY <1>1, <1>6, <1>15, <1>16, <2>1, <2>3, <2>4, <2>5, <2>6, <2>7, ContinueIs DEF Serves
<1>21. ASSUME main = "run", \A x \in Conns : ~Disturbs(x)', NEW d \in Conns, Alive(link'[d]), Serving(d)'
       PROVE  Learns(link'[d].down, client[d[1]].cds, cds')
  <2>1. n = Len(netclients)
    <3> SUFFICES ASSUME n < Len(netclients) PROVE FALSE
      BY <1>2, <1>5, LenProperties
    <3>1. PICK x \in Holding({netclients[n + 1]}) : ~Alive(link[x])
      BY <1>2 DEF MayFail
    <3>2. x \in Conns /\ worker[x].socket = netclients[n + 1] /\ n + 1 \in 1 .. Len(netclients)
      BY <1>5, <3>1, LenProperties DEF Holding
    <3>3. netclients[n + 1] \in Sockets
      BY <1>5, <3>2, ElementOfSeq
    <3>4. PICK y \in Conns : Listed(y) /\ worker[y].socket = netclients[n + 1]
      BY <1>21, <3>2 DEF Inv, Entries
    <3>5. x = y
      BY <3>2, <3>3, <3>4, NamesAre DEF Inv, Entries
    <3>6. Disturbs(x)'
      BY <1>15, <1>17, <3>1, <3>2, <3>4, <3>5 DEF Disturbs
    <3>7. QED
      BY <1>21, <3>2, <3>6
  <2>2. Listed(d) /\ Alive(link[d])
    BY <1>15, <1>17, <1>21 DEF Listed, Serving
  <2>3. d \in T
    <3>1. PICK i \in 1 .. Len(netclients) : netclients[i] = worker[d].socket
      BY <2>2 DEF Inv, Entries
    <3>2. QED
      BY <1>11, <2>1, <2>2, <3>1 DEF Alive
  <2>4. link'[d].down = Append(link[d].down, m) /\ link[d].down \in Seq(ToClient)
    BY <1>5, <1>15, <1>21, <2>3 DEF Link
  <2>5. Learns(Append(link[d].down, m), client[d[1]].cds, list)
    BY <1>15, <2>4, LearnsMore
  <2>6. QED
    BY <1>8, <2>4, <2>5
<1>22. QED
  BY <1>15, <1>18, <1>19, <1>20, <1>21, WorkerServes

LEMMA RemoveEntryKeeps == ASSUME Inv, NEW c \in Conns, RemoveEntry(c) PROVE Inv'
<1> DEFINE s == worker[c].socket
<1>1. /\ EntryRemoved(s) /\ UNCHANGED <<main, client, left, history>>
      /\ worker' = [worker EXCEPT ![c] = [NewWorker("close") EXCEPT !.socket = s]]
      /\ worker[c].pc = "remove" \/ ConnectionEnded(c)
  BY DEF RemoveEntry
<1>2. PICK failed \in SUBSET {d \in Holding(ToSet(netclients')) : ~Alive(link[d])} :
        link' = [d \in Conns |-> IF d \in Holding(ToSet(netclients')) \ failed
                                   THEN SentDown(link[d], [id |-> "SPAWN_MACHINES", list |-> cds']) ELSE link[d]]
  BY DEF RemoveEntry
<1>3. /\ worker \in [Conns -> Worker] /\ worker[c] \in Worker /\ link \in [Conns -> Link] /\ cds \in Lists
      /\ netclients \in Seq(Sockets) /\ Len(netclients) \in Nat
  BY LenProperties DEF Inv, TypeOK
<1>4. Listed(c) /\ s \in Sockets
  BY <1>1, <1>3 DEF Inv, Phases, Worker, Listed, ConnectionEnded
<1>5. PICK k \in 1 .. Len(netclients) : netclients[k] = s /\ netclients' = RemoveAt(netclients, k)
  <2>1. s \in ToSet(netclients)
    BY <1>3, <1>4, InQueue DEF Inv, Entries
  <2>2. QED
    BY <1>1, <2>1 DEF EntryRemoved, IsFirstEntry
<1>6. PICK list \in Lists : list = cds' /\ list = [cds EXCEPT ![s] = NoEntry]
  <2>1. s \in ToSet(netclients)
    BY <1>3, <1>4, InQueue DEF Inv, Entries
  <2>2. cds' = [cds EXCEPT ![s] = NoEntry]
    BY <1>1, <2>1 DEF EntryRemoved
  <2>3. QED
    BY <1>3, <2>2 DEF Lists
<1>7. /\ netclients' \in Seq(Sockets) /\ Len(netclients') = Len(netclients) - 1
      /\ \A i \in 1 .. Len(netclients) - 1 : netclients'[i] = netclients[IF i < k THEN i ELSE i + 1]
  BY <1>3, <1>5, Removed
<1>8. \A x \in Sockets \ {s} :
        (\E i \in 1 .. Len(netclients) : netclients[i] = x) => \E i \in 1 .. Len(netclients') : netclients'[i] = x
  <2> SUFFICES ASSUME NEW x \in Sockets \ {s}, NEW i \in 1 .. Len(netclients), netclients[i] = x
               PROVE  \E j \in 1 .. Len(netclients') : netclients'[j] = x
    OBVIOUS
  <2>1. CASE i < k
    <3>1. i \in 1 .. Len(netclients) - 1
      BY <1>3, <2>1
    <3>2. QED
      BY <1>7, <2>1, <3>1
  <2>2. CASE i > k
    <3>1. i - 1 \in 1 .. Len(netclients) - 1 /\ ~(i - 1 < k) /\ i - 1 + 1 = i
      BY <1>3, <2>2
    <3>2. QED
      BY <1>7, <3>1
  <2>3. QED
    BY <1>3, <1>5, <2>1, <2>2
<1>9. GoodList(list)
  <2> SUFFICES ASSUME NEW t \in Sockets PROVE Good(t, list[t])
    BY DEF GoodList
  <2>1. CASE t = s
    BY <1>3, <1>6, <2>1 DEF Lists, Good
  <2>2. CASE t # s
    BY <1>3, <1>6, <2>2 DEF Inv, Addressed, GoodList, Lists
  <2>3. QED
    BY <2>1, <2>2
<1>10. PICK m : m = [id |-> "SPAWN_MACHINES", list |-> list]
  OBVIOUS
<1>11. PICK T \in SUBSET Conns : T = Holding(ToSet(netclients')) \ failed
  BY DEF Holding
<1>12. /\ m \in ToClient /\ m.id = "SPAWN_MACHINES" /\ m.list = list
       /\ link' \in [Conns -> Link]
       /\ \A d \in Conns : /\ Passed(link[d], link'[d], m) /\ link'[d].up = link[d].up
                           /\ Alive(link'[d]) => Alive(link[d])
                           /\ GoodDown(d, m)
                           /\ ToSet(link[d].down) \subseteq ToSet(link'[d].down)
                           /\ d \in T /\ Alive(link'[d]) => link'[d].down = Append(link[d].down, m)
  <2>1. \A d \in T : link[d].serverEnd = "open"
    BY <1>11 DEF Holding
  <2>2. link' = [d \in Conns |-> IF d \in T THEN SentDown(link[d], m) ELSE link[d]]
    BY <1>2, <1>6, <1>10, <1>11
  <2>3. PICK l \in [Conns -> Link] : l = link
    BY <1>3
  <2>4. Tells(list, T, l, m)
    BY <1>10, <2>1, <2>2, <2>3 DEF Tells
  <2>5. HasTold(list, T, l, m)
    BY <1>9, <2>4, ToldIs
  <2>6. QED
    BY <2>3, <2>5 DEF HasTold
<1>13. /\ worker'[c] \in Worker /\ worker'[c].pc = "close" /\ worker'[c].socket = s /\ ~worker'[c].auth
       /\ ~worker'[c].admin_password_verified /\ worker'[c].to = {}
       /\ \A d \in Conns \ {c} : worker'[d] = worker[d]
       /\ worker' \in [Conns -> Worker]
  <2>1. [NewWorker("close") EXCEPT !.socket = s] \in Worker
    BY <1>4 DEF NewWorker, Worker
  <2>2. worker'[c] = [NewWorker("close") EXCEPT !.socket = s] /\ \A d \in Conns \ {c} : worker'[d] = worker[d]
    BY <1>1, <1>3
  <2>3. QED
    BY <1>1, <1>3, <2>1, <2>2 DEF NewWorker
<1>14. \A d \in Conns : worker'[d].socket = worker[d].socket /\ (Listed(d)' <=> Listed(d) /\ d # c)
  BY <1>13 DEF Listed
<1>15. TypeOK'
  BY <1>1, <1>6, <1>7, <1>12, <1>13 DEF Inv, TypeOK
<1>16. \A d \in Conns : Listed(d) /\ d # c => worker[d].socket \in Sockets \ {s}
  <2> SUFFICES ASSUME NEW d \in Conns, Listed(d), d # c PROVE worker[d].socket \in Sockets \ {s}
    OBVIOUS
  <2>1. worker[d].socket \in Sockets
    BY <1>3 DEF Inv, Phases, Worker, Listed
  <2>2. QED
    BY <2>1, NamesAre DEF Inv, Entries
<1>17. \A d \in Conns : Listed(d)' => \E i \in 1 .. Len(netclients') : netclients'[i] = worker[d].socket
  BY <1>8, <1>14, <1>16 DEF Inv, Entries
<1>18. Entries'
  <2>1. \A i \in 1 .. Len(netclients') : \E j \in 1 .. Len(netclients) \ {k} : netclients'[i] = netclients[j]
    <3> TAKE i \in 1 .. Len(netclients')
    <3>1. (IF i < k THEN i ELSE i + 1) \in 1 .. Len(netclients) \ {k}
      BY <1>3, <1>7
    <3>2. QED
      BY <1>3, <1>7, <3>1
  <2>2. main' = "run" => \A i \in 1 .. Len(netclients') :
          \E d \in Conns : Listed(d)' /\ worker'[d].socket = netclients'[i]
    <3> SUFFICES ASSUME main = "run", NEW i \in 1 .. Len(netclients')
                 PROVE  \E d \in Conns : Listed(d)' /\ worker'[d].socket = netclients'[i]
      BY <1>1
    <3>1. PICK j \in 1 .. Len(netclients) : netclients'[i] = netclients[j] /\ j # k
      BY <2>1
    <3>2. netclients[j] # s
      BY <1>5, <3>1 DEF Inv, Entries
    <3>3. PICK d \in Conns : Listed(d) /\ worker[d].socket = netclients[j]
      BY <3>1 DEF Inv, Entries
    <3>4. QED
      BY <1>14, <3>1, <3>2, <3>3
  <2>3. \A i, j \in 1 .. Len(netclients') : netclients'[i] = netclients'[j] => i = j
    <3> SUFFICES ASSUME NEW i \in 1 .. Len(netclients'), NEW j \in 1 .. Len(netclients'), netclients'[i] = netclients'[j]
                 PROVE  i = j
      OBVIOUS
    <3> DEFINE a == IF i < k THEN i ELSE i + 1
               b == IF j < k THEN j ELSE j + 1
    <3>1. a \in 1 .. Len(netclients) /\ b \in 1 .. Len(netclients)
      BY <1>3, <1>7
    <3>2. i \in 1 .. Len(netclients) - 1 /\ j \in 1 .. Len(netclients) - 1
      BY <1>3, <1>7
    <3>3. netclients'[i] = netclients[a] /\ netclients'[j] = netclients[b]
      BY <1>7, <3>2
    <3>4. a = b
      BY <3>1, <3>3 DEF Inv, Entries
    <3>5. QED
      BY <1>3, <3>4
  <2>4. \A d, e \in Conns : worker'[d].socket = worker'[e].socket /\ worker'[d].socket # NoEntry => d = e
    BY <1>14 DEF Inv, Entries
  <2>5. \A d \in Conns : Listed(d)' => \E i \in 1 .. Len(netclients') : netclients'[i] = worker'[d].socket
    BY <1>14, <1>17
  <2>6. \A d \in Conns : worker'[d].socket # NoEntry => worker'[d].socket \in history'.given
    BY <1>1, <1>14 DEF Inv, Entries
  <2>7. QED
    BY <2>2, <2>3, <2>4, <2>5, <2>6 DEF Entries
<1>19. Serves(c, m)
  <2>1. GoodList(cds') /\ GoodIDs(worker'[c].to)
    BY <1>6, <1>9, <1>13 DEF GoodIDs
  <2>2. m.id # "ADMIN_PASSWORD_OK"
    BY <1>12
  <2>3. QED
    BY <1>1, <1>4, <1>12, <1>13, <2>1, <2>2 DEF Serves
<1>20. ASSUME main = "run", \A x \in Conns : ~Disturbs(x)', NEW d \in Conns, Alive(link'[d]), Serving(d)'
       PROVE  Learns(link'[d].down, client[d[1]].cds, cds')
  <2>1. Listed(d)' /\ Alive(link[d])
    BY <1>12, <1>20 DEF Serving, Listed
  <2>2. d \in T
    <3>1. worker[d].socket \in ToSet(netclients')
      BY <1>7, <1>17, <2>1, InQueue
    <3>2. d \in Holding(ToSet(netclients'))
      BY <2>1, <3>1 DEF Holding, Alive
    <3>3. QED
      BY <1>2, <1>11, <2>1, <3>2
  <2>3. link'[d].down = Append(link[d].down, m) /\ link[d].down \in Seq(ToClient)
    BY <1>3, <1>12, <1>20, <2>2 DEF Link
  <2>4. Learns(Append(link[d].down, m), client[d[1]].cds, list)
    BY <1>12, <2>3, LearnsMore
  <2>5. QED
    BY <1>6, <2>3, <2>4
<1>21. QED
  BY <1>12, <1>15, <1>18, <1>19, <1>20, WorkerServes

-----------------------------------------------------------------------------
LEMMA StutterKeeps == ASSUME Inv, UNCHANGED vars PROVE Inv'
<1>1. /\ main' = main /\ netclients' = netclients /\ cds' = cds /\ worker' = worker /\ link' = link
      /\ client' = client /\ left' = left /\ history' = history
  BY DEF vars
<1>2. TypeOK' /\ Phases' /\ Entries'
  BY <1>1 DEF Inv, TypeOK, Phases, Listed, Entries
<1>3. Addressed'
  <2>1. Noticed
    BY <1>1 DEF Noticed
  <2>2. QED
    BY <1>1, <2>1, GoodStays DEF Inv, Addressed
<1>4. \A p \in Clients : /\ Shows(p)' <=> Shows(p)
                         /\ AnswerUnderWay(p)' <=> AnswerUnderWay(p)
  BY <1>1 DEF Shows, AnswerUnderWay, LastConn
<1>5. \A c \in Conns : /\ Disturbs(c)' <=> Disturbs(c)
                       /\ Serving(c)' <=> Serving(c)
                       /\ \A d \in Conns : Outstanding(c, d)' <=> Outstanding(c, d)
  BY <1>1 DEF Disturbs, Listed, Serving, Outstanding
<1>6. Answers'
  BY <1>1, <1>4 DEF Inv, Answers, Answered
<1>7. Sessions'
  BY <1>1, <1>4, ConnsAre DEF Inv, Sessions, Attended
<1>8. Ordered'
  BY <1>1, <1>5 DEF Inv, TypeOK, Ordered
<1>9. Spread'
  BY <1>1, <1>4, <1>5 DEF Inv, Spread
<1>10. QED
  BY <1>2, <1>3, <1>6, <1>7, <1>8, <1>9 DEF Inv

LEMMA NextKeeps == Inv /\ [Next]_vars => Inv'
<1> SUFFICES ASSUME Inv, [Next]_vars PROVE Inv'
  OBVIOUS
<1>1. CASE Stop \/ MainThread
  BY <1>1, AcceptKeeps, ServerClosingSteps DEF MainThread
<1>2. CASE \E c \in Conns : WorkerThread(c) \/ Break(c)
  <2> SUFFICES ASSUME NEW c \in Conns, WorkerThread(c) \/ Break(c) PROVE Inv'
    BY <1>2
  <2>1. CASE Authenticate(c) \/ Invoke(c) \/ InvalidPacket(c)
    BY <2>1, PlainReceipts
  <2>2. CASE Logon(c) \/ AdminPassword(c) \/ Forward(c) \/ RemoveEntry(c)
    BY <2>2, LogonKeeps, AdminPasswordKeeps, ForwardKeeps, RemoveEntryKeeps
  <2>3. CASE CloseClient(c) \/ Break(c)
    BY <2>3, ServerClosingSteps, BreakKeeps
  <2>4. QED
    BY <2>1, <2>2, <2>3 DEF WorkerThread
<1>3. CASE \E p \in Clients : ClientWorker(p) \/ MessageQueue(p)
  <2> SUFFICES ASSUME NEW p \in Clients, ClientWorker(p) \/ MessageQueue(p) PROVE Inv'
    BY <1>3
  <2>1. CASE ClientWorker(p)
    BY <2>1, QuietSteps, ConnectKeeps, IntroduceKeeps, HearingSteps, ClosingSteps DEF ClientWorker
  <2>2. CASE MessageQueue(p)
    BY <2>2, QuietSteps, EnterPasswordKeeps, ConfirmKeeps, CloseMainKeeps, ClosingSteps DEF MessageQueue
  <2>3. QED
    BY <2>1, <2>2
<1>4. CASE UNCHANGED vars
  BY <1>4, StutterKeeps
<1>5. QED
  BY <1>1, <1>2, <1>3, <1>4 DEF Next

-----------------------------------------------------------------------------
\* The invariant holds in every behaviour of server and clients.
THEOREM InvHolds == Spec => []Inv
  BY InitHolds, NextKeeps, PTL DEF Spec

\* Every variable keeps its type.
THEOREM TypeCorrect == Spec => []TypeOK
<1>1. Inv => TypeOK
  BY DEF Inv
<1>2. QED
  BY <1>1, InvHolds, PTL

\* When everything has been heard, every client's list, and the one its open dialog shows, is
\* the server's, although a broadcast ends at the first connection that is lost
\* (Server_Worker's LOGON and its end, MainDlg_WndProc's timer).
THEOREM ListsAgree == Spec => []ListsConverge
<1>1. Inv => ListsConverge
  <2> SUFFICES ASSUME Inv, main = "run", \A c \in Conns : Settled(c), NEW p \in Clients,
                      client[p].cworker = "recv", Alive(link[LastConn(p)]), link[LastConn(p)].down = <<>>
               PROVE  /\ client[p].cds = cds
                      /\ client[p].ui \in {"main", "confirm"} /\ ~client[p].signal_cds_update => client[p].shown = cds
    BY DEF ListsConverge
  <2> DEFINE L == LastConn(p)
  <2>1. L \in Conns /\ L[1] = p /\ worker[L].pc # "none"
    BY LastConnIs DEF Inv, Phases
  <2>2. worker[L].pc = "recv" /\ Serving(L)
    BY <2>1 DEF Inv, Phases, Alive, Settled, Serving
  <2>3. \A c \in Conns : ~Disturbs(c)
    BY DEF Settled, Disturbs, Listed
  <2>4. Learns(<<>>, client[p].cds, cds)
    BY <2>1, <2>2, <2>3 DEF Inv, Spread
  <2>5. client[p].cds = cds
    BY <2>4 DEF Learns
  <2>6. QED
    BY <2>5 DEF Inv, Spread, Shows
<1>2. QED
  BY <1>1, InvHolds, PTL

\* A worker that has heard everything serves an administrator only while his dialog is open,
\* unless he gave up before the answer came (Server_Worker's ADMIN_PASSWORD, the WM_CLOSE of
\* MainDlg_WndProc).
THEOREM SessionsEnd == Spec => []SessionEndsWithDialog
<1>1. Inv => SessionEndsWithDialog
  <2> SUFFICES ASSUME Inv, NEW c \in Conns, worker[c].admin_password_verified, worker[c].pc = "recv",
                      Alive(link[c]), link[c].up = <<>>
               PROVE  client[c[1]].ui # "run" \/ c \in history.unheard
    BY DEF SessionEndsWithDialog
  <2>1. Verifies(link[c].up, worker[c].admin_password_verified)
    BY DEF Verifies
  <2>2. QED
    BY <2>1 DEF Inv, Sessions, Attended
<1>2. QED
  BY <1>1, InvHolds, PTL

\* The main dialog opens for the right password only, unless an older answer was still under
\* way when the queue was cleared (EnterPW_IsPWCorrect).
THEOREM UnlockedByPassword == Spec => UnlockMeansPassword
<1>1. Inv /\ [Next]_vars =>
        [\A p \in Clients : Unlock(p) => client[p].tried = "right" \/ p \in history.late]_vars
  <2> SUFFICES ASSUME Inv, NEW p \in Clients, Unlock(p) PROVE client[p].tried = "right" \/ p \in history.late
    OBVIOUS
  <2>1. client[p].ui = "wait" /\ client[p].RespQueue > 0 /\ client[p].RespQueue \in Nat
    BY DEF Unlock, Inv, TypeOK, Client
  <2>2. Answered(p)
    BY DEF Inv, Answers
  <2>3. QED
    BY <2>1, <2>2 DEF Answered
<1>2. QED
  BY <1>1, InvHolds, PTL DEF Spec, UnlockMeansPassword

\* A command sent in a session reaches each selected connection, and is executed only by the
\* client whose name the administrator saw, unless the entry had no name yet or its SOCKET value
\* had belonged to another connection (Server_Worker's forwarding by SOCKET value).
THEOREM CommandsArrive == Spec => CommandsReachWhomTheyName
<1> DEFINE Arrives == \A o \in history.ordered :
             /\ main = "run" /\ Alive(link[o[1]]) /\ Alive(link[o[2]])
             /\ worker[o[1]].pc = "recv" /\ link[o[1]].up = <<>>
             => link[o[2]].down # <<>>
           Addresses == \A p \in Clients :
             Execute(p) =>
               \/ Head(link[LastConn(p)].down).meant \in {p, Unnamed}
               \/ LastConn(p) \in history.reused
<1>1. Inv => Arrives
  <2> SUFFICES ASSUME Inv, NEW o \in history.ordered, main = "run", Alive(link[o[1]]), Alive(link[o[2]]),
                      worker[o[1]].pc = "recv", link[o[1]].up = <<>>
               PROVE  link[o[2]].down # <<>>
    OBVIOUS
  <2>1. Outstanding(o[1], o[2])
    BY DEF Inv, Ordered, Serving
  <2>2. ToSet(link[o[2]].down) # {}
    BY <2>1 DEF Outstanding
  <2>3. o[2] \in Conns
    BY DEF Inv, TypeOK
  <2>4. link[o[2]].down \in Seq(ToClient)
    BY <2>3 DEF Inv, TypeOK, Link
  <2>5. QED
    BY <2>2, <2>4, InQueue
<1>2. Inv /\ [Next]_vars => [Addresses]_vars
  <2> SUFFICES ASSUME Inv, NEW p \in Clients, Execute(p)
               PROVE  \/ Head(link[LastConn(p)].down).meant \in {p, Unnamed}
                      \/ LastConn(p) \in history.reused
    OBVIOUS
  <2> DEFINE L == LastConn(p)
             h == Head(link[L].down)
  <2>1. client[p].connected /\ link[L].down # <<>> /\ h.id = "INVOKE"
    BY DEF Execute, Hears
  <2>2. L \in Conns /\ L[1] = p
    BY <2>1, LastConnIs DEF Inv, Phases
  <2>3. link[L].down \in Seq(ToClient)
    BY <2>2 DEF Inv, TypeOK, Link
  <2>4. h \in ToSet(link[L].down)
    BY <2>1, <2>3, InQueue
  <2>5. GoodDown(L, h)
    BY <2>2, <2>4 DEF Inv, Addressed
  <2>6. QED
    BY <2>1, <2>2, <2>5 DEF GoodDown
<1> HIDE DEF Arrives
<1>3. Spec => []Arrives
  BY <1>1, InvHolds, PTL
<1>4. Spec => [][Addresses]_vars
  BY <1>2, InvHolds, PTL DEF Spec
<1>5. QED
  BY <1>3, <1>4 DEF CommandsReachWhomTheyName, Arrives
=============================================================================
