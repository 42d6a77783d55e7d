------------------------------ MODULE CSocket ------------------------------
(***************************************************************************)
(* A connection between two csocket objects (src/Modules/Wsock2.cpp), seen *)
(* from the receiving end.                                                 *)
(*                                                                         *)
(* mod_send writes a descriptor, the length of the message, and then the   *)
(* message.  TCP hands the bytes over in chunks that ignore these frames,  *)
(* so EnterReceiveLoop keeps an IN-STREAM (recv_data) and the message being *)
(* put together (recv_cache).  HandleReceivedFragment calls itself until it *)
(* returns a message or cannot go on; each of these calls is a step here.  *)
(* A receiver calls EnterReceiveLoop again and again until it reports that *)
(* the connection is closed.                                               *)
(*                                                                         *)
(* The sender writes under its critical section, so one mod_send is one    *)
(* step.  The receiver's socket can be closed by another thread.           *)
(***************************************************************************)
EXTENDS Integers, Sequences

CONSTANTS
  Byte,           \* the values of a char
  MaxLength,      \* the longest message
  DescLen,        \* MOD_PROTO_DESC_LEN
  Desc,           \* Desc[n]: the DescLen bytes of a long that holds n
  Messages,       \* what programs send
  MaxRecv,        \* WSII_MAX_RECV, the largest chunk recv returns
  MaxSends,       \* bound: messages per connection
  MaxOutOfMemory, \* bound: failures of WS2_TestMemory
  MaxConnections  \* bound: connections

ASSUME SocketAssumption ==
  /\ MaxLength \in Nat
  /\ DescLen \in Nat \ {0}
  /\ Desc \in [0 .. MaxLength -> [1 .. DescLen -> Byte]]
  /\ \A m, n \in 0 .. MaxLength : Desc[m] = Desc[n] => m = n
  /\ Messages \subseteq {m \in Seq(Byte) : Len(m) \in 1 .. MaxLength}
  /\ MaxRecv \in Nat \ {0}
  /\ MaxSends \in Nat
  /\ MaxOutOfMemory \in Nat
  /\ MaxConnections \in Nat \ {0}

VARIABLES
  sent,        \* messages given to mod_send on this connection
  cut,         \* the last of them was cut short by the end of the sender
  ends,        \* ghost: the place in the stream where each frame ends
  stream,      \* every byte written on this connection
  got,         \* how many of them recv has returned
  fin,         \* the sender has closed its end
  broken,      \* "no", or how the connection broke: "reset" or "aborted"
  mysocket,    \* FALSE: 0, another thread has called Close
  recv_data,   \* the IN-STREAM
  recv_cache,  \* the part of the message put together so far (recv_pos is its length)
  recv_end,    \* length of the message in recv_cache; 0: none
  pc,          \* where the receiver is
  eof,         \* recv has returned 0
  delivered,   \* messages EnterReceiveLoop has returned
  nomem,       \* failures of WS2_TestMemory so far
  connections  \* connections so far

network  == <<fin, broken, stream, got>>
sender   == <<sent, cut, ends>>
receiver == <<recv_data, recv_cache, recv_end>>
vars == <<network, sender, receiver, mysocket, pc, eof, delivered, nomem, connections>>

TypeOK ==
  /\ sent \in Seq(Messages)
  /\ cut \in BOOLEAN
  /\ ends \in Seq(Nat)
  /\ stream \in Seq(Byte)
  /\ got \in 0 .. Len(stream)
  /\ fin \in BOOLEAN
  /\ broken \in {"no", "reset", "aborted"}
  /\ mysocket \in BOOLEAN
  /\ recv_data \in Seq(Byte)
  /\ recv_cache \in Seq(Byte)
  /\ recv_end \in 0 .. MaxLength
  /\ pc \in {"idle", "offline", "recv", "online", "left"}
  /\ eof \in BOOLEAN
  /\ delivered \in Seq(Messages)
  /\ nomem \in 0 .. MaxOutOfMemory
  /\ connections \in 1 .. MaxConnections

Init ==
  /\ sent = <<>> /\ cut = FALSE /\ ends = <<>>
  /\ stream = <<>> /\ got = 0 /\ fin = FALSE /\ broken = "no"
  /\ mysocket = TRUE /\ pc = "idle" /\ eof = FALSE /\ delivered = <<>>
  /\ recv_data = <<>> /\ recv_cache = <<>> /\ recv_end = 0
  /\ nomem = 0 /\ connections = 1

-----------------------------------------------------------------------------
(* The sender. *)

Frame(m) == Desc[Len(m)] \o m

\* A whole frame is written.
mod_send(m) ==
  /\ ~fin /\ broken = "no" /\ Len(sent) < MaxSends
  /\ sent' = Append(sent, m)
  /\ stream' = stream \o Frame(m)
  /\ ends' = Append(ends, Len(stream) + DescLen + Len(m))
  /\ UNCHANGED <<cut, got, fin, broken, receiver, mysocket, pc, eof, delivered, nomem, connections>>

\* The socket is closed while send blocks (a server that stops): k bytes got out.
SendCutShort(m, k) ==
  /\ ~fin /\ broken = "no" /\ Len(sent) < MaxSends
  /\ sent' = Append(sent, m)
  /\ cut' = TRUE
  /\ stream' = stream \o SubSeq(Frame(m), 1, k)
  /\ ends' = Append(ends, Len(stream) + DescLen + Len(m))
  /\ fin' = TRUE
  /\ UNCHANGED <<got, broken, receiver, mysocket, pc, eof, delivered, nomem, connections>>

\* Close: shutdown (SD_SEND), closesocket.
PeerClose ==
  /\ ~fin
  /\ fin' = TRUE
  /\ UNCHANGED <<broken, stream, got, sender, receiver, mysocket, pc, eof, delivered, nomem, connections>>

\* The connection breaks; recv will fail with WSAECONNRESET or with another error.
Break(how) ==
  /\ broken = "no"
  /\ broken' = how
  /\ UNCHANGED <<fin, stream, got, sender, receiver, mysocket, pc, eof, delivered, nomem, connections>>

-----------------------------------------------------------------------------
(* The receiver: EnterReceiveLoop and, inside it, HandleReceivedFragment.  A definition *)
(* with a suffix is a faulty variant of the one after it.                               *)

EnterReceiveLoop_RecvFirst ==
  /\ pc = "idle"
  /\ pc' = "recv"
  /\ UNCHANGED <<network, sender, receiver, mysocket, eof, delivered, nomem, connections>>

EnterReceiveLoop ==
  /\ pc = "idle"
  /\ pc' = "offline"
  /\ UNCHANGED <<network, sender, receiver, mysocket, eof, delivered, nomem, connections>>

InHandler   == pc \in {"offline", "online"}
BytesNeeded == recv_end - Len(recv_cache)
Rest(s, n)  == SubSeq(s, n + 1, Len(s))

\* The long that the first DescLen bytes of the IN-STREAM hold.
ChunkLen == CHOOSE n \in 0 .. MaxLength : Desc[n] = SubSeq(recv_data, 1, DescLen)

ReadDescriptor_KeepsByte ==
  /\ InHandler /\ recv_end = 0 /\ Len(recv_data) >= DescLen
  /\ recv_end' = ChunkLen
  /\ recv_cache' = <<>>
  /\ recv_data' = Rest(recv_data, DescLen - 1)
  /\ UNCHANGED <<network, sender, mysocket, pc, eof, delivered, nomem, connections>>

\* A new chunk, including the header.
ReadDescriptor ==
  /\ InHandler /\ recv_end = 0 /\ Len(recv_data) >= DescLen
  /\ recv_end' = ChunkLen
  /\ recv_cache' = <<>>
  /\ recv_data' = Rest(recv_data, DescLen)
  /\ UNCHANGED <<network, sender, mysocket, pc, eof, delivered, nomem, connections>>

\* The whole IN-STREAM belongs to the message.
CopyAll ==
  /\ InHandler /\ recv_end # 0
  /\ Len(recv_data) \in 1 .. BytesNeeded
  /\ recv_cache' = recv_cache \o recv_data
  /\ recv_data' = <<>>
  /\ UNCHANGED <<network, sender, recv_end, mysocket, pc, eof, delivered, nomem, connections>>

CopyNeeded_DropsRest ==
  /\ InHandler /\ recv_end # 0
  /\ BytesNeeded # 0 /\ Len(recv_data) > BytesNeeded
  /\ recv_cache' = recv_cache \o SubSeq(recv_data, 1, BytesNeeded)
  /\ recv_data' = <<>>
  /\ UNCHANGED <<network, sender, recv_end, mysocket, pc, eof, delivered, nomem, connections>>

\* Only what is needed to complete the message; the rest stays in the IN-STREAM.
CopyNeeded ==
  /\ InHandler /\ recv_end # 0
  /\ BytesNeeded # 0 /\ Len(recv_data) > BytesNeeded
  /\ recv_cache' = recv_cache \o SubSeq(recv_data, 1, BytesNeeded)
  /\ recv_data' = Rest(recv_data, BytesNeeded)
  /\ UNCHANGED <<network, sender, recv_end, mysocket, pc, eof, delivered, nomem, connections>>

\* The message is complete: EnterReceiveLoop returns it.
ReturnChunk ==
  /\ InHandler /\ recv_end # 0 /\ BytesNeeded = 0
  /\ delivered' = Append(delivered, recv_cache)
  /\ recv_cache' = <<>> /\ recv_end' = 0
  /\ pc' = "idle"
  /\ UNCHANGED <<network, sender, recv_data, mysocket, eof, nomem, connections>>

\* The handler finds neither a whole descriptor nor a byte for the message.
Exhausted ==
  IF recv_end = 0 THEN Len(recv_data) < DescLen
                  ELSE BytesNeeded # 0 /\ recv_data = <<>>

\* Where EnterReceiveLoop goes on when the handler returns false.
AfterFailure == IF pc = "offline" THEN "recv" ELSE "idle"

NoChunk ==
  /\ InHandler /\ Exhausted
  /\ pc' = AfterFailure
  /\ UNCHANGED <<network, sender, receiver, mysocket, eof, delivered, nomem, connections>>

\* WS2_TestMemory fails before a message is begun or returned: the handler gives up.
OutOfMemory ==
  /\ InHandler /\ nomem < MaxOutOfMemory
  /\ IF recv_end = 0 THEN Len(recv_data) >= DescLen ELSE BytesNeeded = 0
  /\ nomem' = nomem + 1
  /\ pc' = AfterFailure
  /\ UNCHANGED <<network, sender, receiver, mysocket, eof, delivered, connections>>

\* recv returns a chunk of n bytes.
Recv(n) ==
  /\ pc = "recv" /\ mysocket /\ broken = "no"
  /\ n <= Len(stream) - got
  /\ recv_data' = recv_data \o SubSeq(stream, got + 1, got + n)
  /\ got' = got + n
  /\ pc' = "online"
  /\ UNCHANGED <<fin, broken, stream, sender, recv_cache, recv_end, mysocket, eof, delivered, nomem, connections>>

RecvEnd_NoData ==
  /\ pc = "recv" /\ mysocket /\ broken = "no"
  /\ fin /\ got = Len(stream)
  /\ pc' = "idle"
  /\ UNCHANGED <<network, sender, receiver, mysocket, eof, delivered, nomem, connections>>

\* recv returns 0: every byte has been read and the sender has closed.
RecvEnd ==
  /\ pc = "recv" /\ mysocket /\ broken = "no"
  /\ fin /\ got = Len(stream)
  /\ eof' = TRUE
  /\ pc' = "left"
  /\ UNCHANGED <<network, sender, receiver, mysocket, delivered, nomem, connections>>

\* recv fails.  Only WSAECONNRESET counts as closed; for a socket that is 0 no recv is
\* tried and WSAGetLastError is that of an earlier call.
RecvFails ==
  /\ pc = "recv"
  /\ ~mysocket \/ broken # "no"
  /\ \/ (~mysocket \/ broken = "reset") /\ pc' = "left"
     \/ (~mysocket \/ broken = "aborted") /\ pc' = "idle"
  /\ UNCHANGED <<network, sender, receiver, mysocket, eof, delivered, nomem, connections>>

\* Another thread of the receiver calls Close.
Close ==
  /\ mysocket
  /\ mysocket' = FALSE
  /\ UNCHANGED <<network, sender, receiver, pc, eof, delivered, nomem, connections>>

-----------------------------------------------------------------------------
(* The receiver's object gets its next connection. *)

NextConnection ==
  /\ pc = "left" /\ connections < MaxConnections
  /\ connections' = connections + 1
  /\ sent' = <<>> /\ cut' = FALSE /\ ends' = <<>>
  /\ stream' = <<>> /\ got' = 0 /\ fin' = FALSE /\ broken' = "no"
  /\ mysocket' = TRUE /\ pc' = "idle" /\ eof' = FALSE /\ delivered' = <<>>
  /\ UNCHANGED nomem

\* Take resets the object first.
Take ==
  /\ NextConnection
  /\ recv_data' = <<>> /\ recv_cache' = <<>> /\ recv_end' = 0

\* Create keeps what the object has received before.
Create == NextConnection /\ UNCHANGED receiver

-----------------------------------------------------------------------------
Handler == ReadDescriptor \/ CopyAll \/ CopyNeeded \/ ReturnChunk \/ NoChunk
Receive == \/ EnterReceiveLoop \/ Handler \/ RecvEnd \/ RecvFails
           \/ \E n \in 1 .. MaxRecv : Recv(n)
Sender  == \/ \E m \in Messages :
                mod_send(m) \/ \E k \in 0 .. DescLen + Len(m) - 1 : SendCutShort(m, k)
           \/ PeerClose
Failure == Break("reset") \/ Break("aborted") \/ OutOfMemory \/ Close

Next == Receive \/ Sender \/ Failure \/ Take

\* The receiver keeps calling EnterReceiveLoop and recv returns when it can.
Spec     == Init /\ [][Next]_vars
FairSpec == Spec /\ WF_vars(Receive)

\* The clients of the services use one object, and Create, for all their connections.
ReuseSpec == Init /\ [][Next \/ Create]_vars

-----------------------------------------------------------------------------
(* What the receiver can rely on. *)

\* HandleReceivedFragment returns the messages as mod_send got them.
Channel == INSTANCE MessageChannel WITH Messages <- Messages, sent <- sent, delivered <- delivered
DeliversMessages == Channel!Spec

\* No message the receiver's program gets was not sent on this connection: the descriptor
\* (Wsock2.cpp, PROTOCOL) tells where each message begins.
OnlySentMessages ==
  /\ Len(delivered) <= Len(sent)
  /\ \A i \in 1 .. Len(delivered) : delivered[i] = sent[i]

\* A message cut short by the end of the sender is never returned (HandleReceivedFragment).
CutNeverDelivered == cut => Len(delivered) < Len(sent)

\* When EnterReceiveLoop reports an orderly end, every message has been returned, unless
\* memory was short: messages already received are handled before recv is called again.
EndAfterAllMessages ==
  eof /\ nomem = 0 => Len(delivered) = Len(sent) - (IF cut THEN 1 ELSE 0)

\* However a connection ends, in a message or after one, all that was sent whole is returned
\* and nothing else (HandleReceivedFragment, EnterReceiveLoop).
EndsAreClean == CutNeverDelivered /\ EndAfterAllMessages

\* Where the i-th frame ends.
FrameEnd(i) == IF i = 0 THEN 0 ELSE ends[i]

\* How far the receiver has read the stream apart.
Parsed == got - Len(recv_data)

\* The receiver knows where it is: its IN-STREAM is the stretch of the stream it has
\* not read apart, which begins at a frame, or, while a message is put together, inside
\* that message (the offsets in HandleReceivedFragment).
InSync ==
  /\ Len(recv_data) <= got
  /\ \A k \in 1 .. Len(recv_data) : recv_data[k] = stream[Parsed + k]
  /\ IF recv_end = 0
       THEN recv_cache = <<>> /\ Parsed = FrameEnd(Len(delivered))
       ELSE /\ Len(delivered) < Len(sent)
            /\ recv_end = Len(sent[Len(delivered) + 1])
            /\ Len(recv_cache) <= recv_end
            /\ Parsed = FrameEnd(Len(delivered)) + DescLen + Len(recv_cache)
            /\ \A k \in 1 .. Len(recv_cache) : recv_cache[k] = sent[Len(delivered) + 1][k]

\* Once the sender has closed, the receiver learns of it, unless its own socket is
\* closed or aborted.
EndIsReported ==
  fin ~> (pc = "left" \/ ~mysocket \/ broken = "aborted")
=============================================================================
