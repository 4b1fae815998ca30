-------------------------- MODULE MCOperatorChanges --------------------------
(* OperatorChanges for TLC: requests, devices and names are                 *)
(* interchangeable; fields are not, because one is summarised in events,    *)
(* and values are not, because one is the default.                          *)
EXTENDS OperatorChanges, TLC

Symmetry == Permutations(Requests) \union Permutations(Devices) \union Permutations(Names)
=============================================================================
