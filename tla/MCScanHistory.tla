---------------------------- MODULE MCScanHistory ----------------------------
(* ScanHistory for TLC: the devices are interchangeable; the addresses are  *)
(* not, because a scan lists them in order.                                 *)
EXTENDS ScanHistory, TLC

Symmetry == Permutations(Devices)
=============================================================================
