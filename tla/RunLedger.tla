------------------------------ MODULE RunLedger ------------------------------
(***************************************************************************)
(* What the discovery service promises about its run rows, without tasks,  *)
(* slots, sessions or locks: a run is opened once, its findings are stored *)
(* at most once and before it is closed as a success, and a restart closes *)
(* everything still open.  A closed run may still be retracted to "failed" *)
(* (the clean-up after the scan raised), but never reopened.               *)
(***************************************************************************)
CONSTANT Runs

VARIABLES
  status,  \* the status column of each run, "none" before the row exists
  stored   \* what the inventory and the observations hold of it

vars == <<status, stored>>

Terminal == {"success", "failed", "timeout", "rejected"}

Init == /\ status = [r \in Runs |-> "none"]
        /\ stored = [r \in Runs |-> "none"]

Open(r) == /\ status[r] = "none"
           /\ status' = [status EXCEPT ![r] = "running"]
           /\ UNCHANGED stored

Store(r) == /\ status[r] = "running"
            /\ stored[r] = "none"
            /\ stored' = [stored EXCEPT ![r] = "full"]
            /\ UNCHANGED status

Close(r, s) == /\ status[r] = "running"
               /\ s = "success" => stored[r] = "full"
               /\ s \in {"timeout", "rejected"} => stored[r] = "none"
               /\ status' = [status EXCEPT ![r] = s]
               /\ UNCHANGED stored

\* An exception half-way through the findings: the run fails, a part stays.
Break(r) == /\ status[r] = "running"
            /\ stored[r] = "none"
            /\ status' = [status EXCEPT ![r] = "failed"]
            /\ stored' = [stored EXCEPT ![r] = "partial"]

Retract(r) == /\ status[r] \in Terminal
              /\ status' = [status EXCEPT ![r] = "failed"]
              /\ UNCHANGED stored

Restart == /\ status' = [r \in Runs |-> IF status[r] = "running" THEN "failed" ELSE status[r]]
           /\ UNCHANGED stored

Next ==
  \/ \E r \in Runs : Open(r) \/ Store(r) \/ Break(r) \/ Retract(r)
  \/ \E r \in Runs, s \in Terminal : Close(r, s)
  \/ Restart

Spec == Init /\ [][Next]_vars
=============================================================================
