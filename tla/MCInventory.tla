----------------------------- MODULE MCInventory -----------------------------
(* Inventory for TLC: row ids and MACs are interchangeable; addresses are   *)
(* not, because Networks tells them apart.                                  *)
EXTENDS Inventory, TLC

CONSTANTS i1, i2

TwoNetworks == {{i1}, {i1, i2}}
Symmetry == Permutations(Ids) \union Permutations(Macs) \union Permutations(Scans)
            \union Permutations(Pings) \union Permutations(Removals)
=============================================================================
