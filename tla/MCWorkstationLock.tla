------------------------- MODULE MCWorkstationLock -------------------------
(* Two sessions, clock about to wrap around (see LockSafety.cfg). *)
EXTENDS WorkstationLock
=============================================================================
