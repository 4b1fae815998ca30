----------------------------- MODULE MCAuditLog -----------------------------
(* AuditLog for TLC: the records are interchangeable.                       *)
EXTENDS AuditLog, TLC

Symmetry == Permutations(Records)
=============================================================================
