------------------------------ MODULE MCAccounts ------------------------------
(* One account for TLC: addresses and requests are interchangeable. *)
EXTENDS Accounts, TLC

Symmetry == Permutations(Addresses) \union Permutations(Requests)
=============================================================================
