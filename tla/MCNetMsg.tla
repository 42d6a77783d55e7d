------------------------------ MODULE MCNetMsg ------------------------------
(* How many connections each client has and what may happen to them (see NetMsg.cfg). *)
EXTENDS NetMsg

CONSTANTS a, t, u    \* the administrator's client and two others

MCConns == a :> 1 @@ t :> 2 @@ u :> 2

Play == [tries |-> 1, commands |-> 0, breaks |-> 0, quits |-> 0, stops |-> 0,
         conns |-> a :> 1 @@ t :> 1 @@ u :> 1]

\* A command while the network breaks a connection and another client comes.  With one client
\* beside the administrator's: two tries of the password; a client that quits; the service that
\* stops; a client that connects again.
MCPlays ==
  {[Play EXCEPT !.commands = 1, !.breaks = 1]}
    \cup {[f EXCEPT !.conns[q] = 0] : q \in {t, u},
            f \in {[Play EXCEPT !.tries = 2], [Play EXCEPT !.commands = 1, !.quits = 1], [Play EXCEPT !.stops = 1]}}
    \cup {[Play EXCEPT !.breaks = 1, !.conns[q] = 0, !.conns[r] = 2] : <<q, r>> \in {<<t, u>>, <<u, t>>}}

\* Sound: no property names a client or a SOCKET value, none is about liveness, and t and u are
\* treated alike.
MCSymmetry == Permutations({t, u}) \cup Permutations(Sockets)
=============================================================================
