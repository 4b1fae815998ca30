-------------------------- MODULE MCExecutionEngine --------------------------
(* ExecutionEngine for TLC, with named calls: two scans, one other command. *)
EXTENDS ExecutionEngine

CONSTANTS s1, s2, g1
MCCalls == {s1, s2, g1}
MCDiscovery == {s1, s2}
=============================================================================
