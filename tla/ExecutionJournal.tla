--------------------------- MODULE ExecutionJournal ---------------------------
(***************************************************************************)
(* What the audit trail promises, without requests, edits, sessions or     *)
(* crashes: an execution gets at most one entry, which tells truly whether *)
(* its command was started and refers to a definition that is there; the   *)
(* entry outlives that definition and ends by retention alone.             *)
(***************************************************************************)
CONSTANTS
  Requests,   \* executions
  Ids, NoId,  \* primary keys of definitions
  Statuses    \* what an entry may say

VARIABLES
  started,  \* executions whose command was started
  entry,    \* what is on record of each execution
  link,     \* the definition its entry refers to
  defined   \* the definitions there are

vars == <<started, entry, link, defined>>

Init == /\ started = {}
        /\ entry = [r \in Requests |-> "none"]
        /\ link = [r \in Requests |-> NoId]
        /\ defined = {}

Begin(r) == /\ entry[r] = "none"
            /\ started' = started \union {r}
            /\ UNCHANGED <<entry, link, defined>>

Write(r, s, i) == /\ entry[r] = "none"
                  /\ s \in {"success", "timeout"} => r \in started
                  /\ s \in {"rejected", "busy"} => r \notin started
                  /\ i \in defined \union {NoId}
                  /\ entry' = [entry EXCEPT ![r] = s]
                  /\ link' = [link EXCEPT ![r] = i]
                  /\ UNCHANGED <<started, defined>>

Retire(R) == /\ \A r \in R : entry[r] # "none"
             /\ entry' = [r \in Requests |-> IF r \in R THEN "pruned" ELSE entry[r]]
             /\ link' = [r \in Requests |-> IF r \in R THEN NoId ELSE link[r]]
             /\ UNCHANGED <<started, defined>>

Define(i) == /\ i \notin defined
             /\ defined' = defined \union {i}
             /\ UNCHANGED <<started, entry, link>>

Undefine(i) == /\ defined' = defined \ {i}
               /\ link' = [r \in Requests |-> IF link[r] = i THEN NoId ELSE link[r]]
               /\ UNCHANGED <<started, entry>>

Next ==
  \/ \E r \in Requests : Begin(r)
  \/ \E r \in Requests, s \in Statuses, i \in Ids \union {NoId} : Write(r, s, i)
  \/ \E R \in SUBSET Requests : Retire(R)
  \/ \E i \in Ids : Define(i) \/ Undefine(i)

Spec == Init /\ [][Next]_vars
=============================================================================
