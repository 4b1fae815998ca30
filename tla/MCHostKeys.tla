------------------------------ MODULE MCHostKeys ------------------------------
(* HostKeys for TLC: two keys of one type and one of another.               *)
EXTENDS HostKeys, TLC

CONSTANTS ed1, ed2, rsa1, ed25519, rsa

MCKeyType == ed1 :> ed25519 @@ ed2 :> ed25519 @@ rsa1 :> rsa
Symmetry == Permutations(Rows) \union Permutations(Reviews) \union Permutations(Revocations)
            \union Permutations(Actions)
=============================================================================
