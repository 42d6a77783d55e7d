-------------------------- MODULE MessageChannel --------------------------
(***************************************************************************)
(* What the own protocol of csocket (src/Modules/Wsock2.cpp) promises to   *)
(* the programs at both ends of a connection: whole messages, each once,   *)
(* in the order they were sent, and never a message nobody sent.           *)
(***************************************************************************)
EXTENDS Naturals, Sequences

CONSTANT Messages

VARIABLES
  sent,      \* the messages given to mod_send on the connection
  delivered  \* the messages EnterReceiveLoop has returned

Init == sent = <<>> /\ delivered = <<>>

Send(m) == sent' = Append(sent, m) /\ UNCHANGED delivered

Deliver ==
  /\ Len(delivered) < Len(sent)
  /\ delivered' = Append(delivered, sent[Len(delivered) + 1])
  /\ UNCHANGED sent

\* A new connection starts with nothing under way.
Connect == sent' = <<>> /\ delivered' = <<>>

Next == (\E m \in Messages : Send(m)) \/ Deliver \/ Connect

Spec == Init /\ [][Next]_<<sent, delivered>>
=============================================================================
