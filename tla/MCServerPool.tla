---------------------------- MODULE MCServerPool ----------------------------
(* Two clients, three values of SOCKET (see PoolServes.cfg). *)
EXTENDS ServerPool
=============================================================================
