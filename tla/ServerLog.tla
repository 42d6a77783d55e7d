----------------------------- MODULE ServerLog -----------------------------
(* The log of the Syslog server, with variables of its own, for a module that is about an Inifile *)
(* besides: the run that checks it and the proofs.                                                *)

CONSTANTS LogUpper, LogLookBefore, LogLookAhead, Days, Times, Counters, MaxLines
VARIABLES log_obj, log_disk, log_saving, up, clock, lastsess, written, kept, inFile
Log == INSTANCE LogFile WITH
         Upper <- LogUpper, LookBefore <- LogLookBefore, LookAhead <- LogLookAhead,
         obj <- log_obj, disk <- log_disk, saving <- log_saving
logVars == <<log_obj, log_disk, log_saving, up, clock, lastsess, written, kept, inFile>>

\* What LogFile states.
LogKeepsItsLines == Log!LogKeepsItsLines
=============================================================================
