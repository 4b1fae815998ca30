------------------------------ MODULE TrustLedger ------------------------------
(***************************************************************************)
(* What host-key trust promises, without reviews, rows, queries or         *)
(* connections: a key is put on record by the acceptance of that very key, *)
(* which puts at most one other out; forgetting puts keys out and none in; *)
(* and only a host with an accepted key is ever sent a command.            *)
(***************************************************************************)
CONSTANT Keys

VARIABLES
  accepted,  \* keys an operator ever accepted
  recorded,  \* keys on record
  reached    \* keys of the hosts that were sent a command

vars == <<accepted, recorded, reached>>

Init == accepted = {} /\ recorded = {} /\ reached = {}

\* A key that is accepted again need not be put on record again.
Accept(k) ==
  /\ accepted' = accepted \union {k}
  /\ \/ recorded' = recorded
     \/ \E out \in Keys : recorded' = (recorded \ {out}) \union {k}
  /\ UNCHANGED reached

Forget == /\ recorded' \in SUBSET recorded
          /\ UNCHANGED <<accepted, reached>>

Reach(k) == /\ k \in accepted
            /\ reached' = reached \union {k}
            /\ UNCHANGED <<accepted, recorded>>

Next == Forget \/ \E k \in Keys : Accept(k) \/ Reach(k)

Spec == Init /\ [][Next]_vars
=============================================================================
