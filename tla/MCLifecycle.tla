---------------------------- MODULE MCLifecycle ----------------------------
(* Three processes: one to run, one to end badly, one to come after.       *)
EXTENDS Lifecycle
CONSTANTS d1, d2, d3
MCDaemons == {d1, d2, d3}
MCAllFaults == {"kill", "signal", "device"}
=============================================================================
