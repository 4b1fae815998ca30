--------------------------- MODULE MCDiscoveryRuns ---------------------------
(***************************************************************************)
(* DiscoveryRuns for TLC, with the history of the failures that the        *)
(* handler of _scan() cannot answer: a flush or a commit that fails, a row *)
(* that does not load, a clean-up at startup that raises.                  *)
(***************************************************************************)
EXTENDS DiscoveryRuns

VARIABLE lost   \* the runs that met one

Abandoned ==
  {r \in Runs : FlushFails(r) \/ LoadFails(r) \/ MarkFailedRaises(r)}
    \union {r \in Runs : RecoverFails /\ row[r].status = "running"}

MCInit == Init /\ lost = {}
MCNext == Next /\ lost' = lost \union Abandoned
MCSpec == MCInit /\ [][MCNext]_<<vars, lost>> /\ Fairness

\* Every requested run is eventually closed, through exceptions, refusals and
\* restarts, and whatever the database does to other runs: only a failing
\* write, load or clean-up of its own can leave a run open.
EveryRunCloses == \A r \in Runs :
  row[r].status = "running" ~> row[r].status \in Terminal \/ r \in lost
=============================================================================
