----------------------------- MODULE MCExecutions -----------------------------
(* Executions for TLC: requests and edits are interchangeable; ids and      *)
(* names are numbers, because SQLite orders them.                           *)
EXTENDS Executions, TLC

Symmetry == Permutations(Requests) \union Permutations(Edits)
=============================================================================
