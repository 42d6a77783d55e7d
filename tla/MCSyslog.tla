------------------------------ MODULE MCSyslog ------------------------------
(* How many connections each client has (see SyslogSettings.cfg, SyslogLifecycle.cfg). *)
EXTENDS Syslog

MCOneEach == [p \in Clients |-> 1]
MCTwoEach == [p \in Clients |-> 2]

\* Started by the runmode 0; by SYSLOG_MODE_LOG_ENABLE.
MCOff == {[general |-> FALSE, capchanges |-> FALSE]}
MCEnable == {[general |-> TRUE, capchanges |-> FALSE]}

\* Sound: no property names a client, and SyslogSettings.cfg has no liveness property.
MCSymmetry == Permutations(Clients)
=============================================================================
