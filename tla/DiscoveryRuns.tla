---------------------------- MODULE DiscoveryRuns ----------------------------
(***************************************************************************)
(* app/modules/discovery: the life of a discovery run, from the request    *)
(* that records its row to the background task that scans, reconciles,     *)
(* closes the row and prunes, across exceptions and restarts.              *)
(*                                                                         *)
(* Each task has its own database session.  Its writes are uncommitted     *)
(* until commit() and hold SQLite's only write lock from the first flush.  *)
(* A flush that fails leaves the session refusing every later commit until *)
(* it is rolled back, which nothing here does; any other exception leaves  *)
(* the session usable, with what it had flushed.                           *)
(*                                                                         *)
(* "stored" abstracts the inventory and the observations of a run; module  *)
(* Inventory details them.  Faults names the failures a model admits.      *)
(***************************************************************************)
EXTENDS Integers, FiniteSets

CONSTANTS
  Runs,        \* run rows
  NoRun,       \* the write lock is free
  MaxScans,    \* permits of the engine's discovery semaphore
  MaxCrashes,  \* bound on process restarts
  Faults       \* subset of AllFaults

AllFaults == {"flush",     \* a flush fails: locked beyond busy_timeout, disk full
              "other",     \* any other exception inside the try of _scan()
             "load",      \* _scan() cannot load its run, before that try
              "recover"}   \* the clean-up at startup raises

ASSUME RunsAssumption ==
  /\ IsFiniteSet(Runs) /\ NoRun \notin Runs
  /\ MaxScans \in Nat \ {0} /\ MaxCrashes \in Nat
  /\ Faults \subseteq AllFaults

VARIABLES
  row,      \* the committed discovery_run rows
  stored,   \* what is committed of the run's findings
  task,     \* where the run's background task stands
  verdict,  \* the status its pending _finish() is about to write
  broken,   \* its session needs a rollback before it can commit
  lock,     \* the run whose session holds the write lock
  up,       \* the process runs
  crashes   \* restarts so far

vars == <<row, stored, task, verdict, broken, lock, up, crashes>>

Statuses == {"running", "success", "failed", "timeout", "rejected"}
Terminal == Statuses \ {"running"}
Summaries == {"none", "outcome", "unexpected", "interrupted"}
Row == [status : {"none"} \union Statuses, summary : Summaries]
Live == {"queued", "scanning", "scanned", "writing", "closing", "pruning", "handler"}

TypeOK ==
  /\ row \in [Runs -> Row]
  /\ stored \in [Runs -> {"none", "partial", "full"}]
  /\ task \in [Runs -> Live \union {"none", "done", "dead"}]
  /\ verdict \in [Runs -> {"none"} \union Terminal]
  /\ broken \in [Runs -> BOOLEAN]
  /\ lock \in Runs \union {NoRun}
  /\ up \in BOOLEAN
  /\ crashes \in 0..MaxCrashes

Init ==
  /\ row = [r \in Runs |-> [status |-> "none", summary |-> "none"]]
  /\ stored = [r \in Runs |-> "none"]
  /\ task = [r \in Runs |-> "none"]
  /\ verdict = [r \in Runs |-> "none"]
  /\ broken = [r \in Runs |-> FALSE]
  /\ lock = NoRun
  /\ up = TRUE
  /\ crashes = 0

-----------------------------------------------------------------------------
(* Steps of a task. *)

Goto(r, pc) == task' = [task EXCEPT ![r] = pc]

\* A write and its commit: possible once no other session holds the lock,
\* which the commit leaves free.
CommitBy(r) == lock \in {r, NoRun} /\ lock' = NoRun

\* execute_run() is about to call _finish() with status s.
Decide(r, s) == /\ Goto(r, "closing")
                /\ verdict' = [verdict EXCEPT ![r] = s]
                /\ UNCHANGED <<row, stored, broken, lock, up, crashes>>

\* Mutant: a failed run is reopened instead of recorded anew.
RequestAgain(r) ==
  /\ up
  /\ row[r].status \in {"none", "failed"}
  /\ row' = [row EXCEPT ![r].status = "running"]
  /\ Goto(r, "queued")
  /\ UNCHANGED <<stored, verdict, broken, lock, up, crashes>>

\* start_discovery() commits the row, then creates the task.
Request(r) ==
  /\ up
  /\ row[r].status = "none"
  /\ row' = [row EXCEPT ![r].status = "running"]
  /\ Goto(r, "queued")
  /\ UNCHANGED <<stored, verdict, broken, lock, up, crashes>>

Scanning == {r \in Runs : task[r] = "scanning"}

\* The target no longer validates, or the engine refuses the command.
Refuse(r) == task[r] = "queued" /\ \E s \in {"rejected", "failed"} : Decide(r, s)

\* Mutant: the engine's own word for no capacity, which the column lacks.
BusyStatus(r) == /\ task[r] = "queued"
                 /\ Cardinality(Scanning) >= MaxScans
                 /\ Decide(r, "busy")

\* ExecutionBusy: every discovery slot is taken.
Busy(r) == /\ task[r] = "queued"
           /\ Cardinality(Scanning) >= MaxScans
           /\ Decide(r, "rejected")

StartScan(r) == /\ task[r] = "queued"
                /\ Cardinality(Scanning) < MaxScans
                /\ Goto(r, "scanning")
                /\ UNCHANGED <<row, stored, verdict, broken, lock, up, crashes>>

\* nmap timed out, or its output does not parse.
ScanFails(r) == task[r] = "scanning" /\ \E s \in {"timeout", "failed"} : Decide(r, s)

\* The slot is free again before the findings are reconciled.
ScanSucceeds(r) == /\ task[r] = "scanning"
                   /\ Goto(r, "scanned")
                   /\ UNCHANGED <<row, stored, verdict, broken, lock, up, crashes>>

\* reconcile(): its first query flushes the dirty run row, so it takes the
\* write lock before it reads the inventory.
BeginReconcile(r) == /\ task[r] = "scanned"
                     /\ lock = NoRun
                     /\ lock' = r
                     /\ Goto(r, "writing")
                     /\ UNCHANGED <<row, stored, verdict, broken, up, crashes>>

\* Mutant: reconcile() without its commit.
CommitFindingsForgotten(r) ==
  /\ task[r] = "writing"
  /\ CommitBy(r)
  /\ Goto(r, "closing")
  /\ verdict' = [verdict EXCEPT ![r] = "success"]
  /\ UNCHANGED <<row, stored, broken, up, crashes>>

\* The first of two commits: inventory and observations.
CommitFindings(r) == /\ task[r] = "writing"
                     /\ CommitBy(r)
                     /\ stored' = [stored EXCEPT ![r] = "full"]
                     /\ Goto(r, "closing")
                     /\ verdict' = [verdict EXCEPT ![r] = "success"]
                     /\ UNCHANGED <<row, broken, up, crashes>>

\* The second: _finish() writes the status and the summary.
Finish(r) == /\ task[r] = "closing"
             /\ CommitBy(r)
             /\ row' = [row EXCEPT ![r] = [status |-> verdict[r], summary |-> "outcome"]]
             /\ Goto(r, "pruning")
             /\ UNCHANGED <<stored, verdict, broken, up, crashes>>

\* settings_service.load() and prune().
Prune(r) == /\ task[r] = "pruning"
            /\ CommitBy(r)
            /\ Goto(r, "done")
            /\ UNCHANGED <<row, stored, verdict, broken, up, crashes>>

-----------------------------------------------------------------------------
(* Exceptions and the handler of _scan(). *)

Raise(r, loses) ==
  /\ Goto(r, "handler")
  /\ broken' = [broken EXCEPT ![r] = loses]
  /\ lock' = IF loses /\ lock = r THEN NoRun ELSE lock
  /\ UNCHANGED <<row, stored, verdict, up, crashes>>

\* A flush fails: its transaction is rolled back, its session is broken.
FlushFails(r) == /\ "flush" \in Faults
                 /\ task[r] \in {"scanned", "writing", "closing"}
                 /\ Raise(r, TRUE)

\* Mutant: the exception is not caught and the task just dies.
OtherExceptionUncaught(r) ==
  /\ "other" \in Faults
  /\ task[r] \in {"queued", "scanning", "writing", "pruning"}
  /\ Goto(r, "dead")
  /\ lock' = IF lock = r THEN NoRun ELSE lock
  /\ UNCHANGED <<row, stored, verdict, broken, up, crashes>>

\* A failed spawn, query or prune.
OtherException(r) == /\ "other" \in Faults
                     /\ task[r] \in {"queued", "scanning", "writing", "pruning"}
                     /\ Raise(r, FALSE)

\* session.get() raises outside the try: nobody closes the row.
LoadFails(r) == /\ "load" \in Faults
                /\ task[r] = "queued"
                /\ Goto(r, "dead")
                /\ UNCHANGED <<row, stored, verdict, broken, lock, up, crashes>>

\* mark_failed(): commits the failure, and with it what the session still
\* holds of an unfinished reconcile().
MarkFailed(r) ==
  /\ task[r] = "handler"
  /\ ~broken[r]
  /\ CommitBy(r)
  /\ row' = [row EXCEPT ![r] = [status |-> "failed", summary |-> "unexpected"]]
  /\ stored' = [stored EXCEPT ![r] = IF lock = r THEN "partial" ELSE @]
  /\ Goto(r, "done")
  /\ UNCHANGED <<verdict, broken, up, crashes>>

\* mark_failed() raises in turn: its session is broken, or its own flush
\* fails.  The task dies and the row keeps its status.
MarkFailedRaises(r) ==
  /\ task[r] = "handler"
  /\ broken[r] \/ "flush" \in Faults
  /\ Goto(r, "dead")
  /\ lock' = IF lock = r THEN NoRun ELSE lock
  /\ UNCHANGED <<row, stored, verdict, broken, up, crashes>>

-----------------------------------------------------------------------------
(* The process. *)

\* A crash, a kill or a shutdown: tasks vanish, uncommitted writes are lost.
Crash ==
  /\ up
  /\ crashes < MaxCrashes
  /\ crashes' = crashes + 1
  /\ up' = FALSE
  /\ lock' = NoRun
  /\ task' = [r \in Runs |-> IF task[r] \in Live THEN "dead" ELSE task[r]]
  /\ UNCHANGED <<row, stored, verdict, broken>>

\* Mutant: the clean-up of a second worker, started beside the first.
RecoverBesideWorker ==
  /\ up' = TRUE
  /\ row' = [r \in Runs |-> IF row[r].status = "running"
                            THEN [status |-> "failed", summary |-> "interrupted"]
                            ELSE row[r]]
  /\ UNCHANGED <<stored, task, verdict, broken, lock, crashes>>

\* Mutant: everything that is not a success is closed again.
RecoverTooMuch ==
  /\ ~up
  /\ up' = TRUE
  /\ row' = [r \in Runs |-> IF row[r].status \notin {"none", "success"}
                            THEN [status |-> "failed", summary |-> "interrupted"]
                            ELSE row[r]]
  /\ UNCHANGED <<stored, task, verdict, broken, lock, crashes>>

\* lifespan(): fail_interrupted_runs() before any request is served.
Recover ==
  /\ ~up
  /\ up' = TRUE
  /\ row' = [r \in Runs |-> IF row[r].status = "running"
                            THEN [status |-> "failed", summary |-> "interrupted"]
                            ELSE row[r]]
  /\ UNCHANGED <<stored, task, verdict, broken, lock, crashes>>

\* Its exception is logged and swallowed: the application starts anyway.
RecoverFails ==
  /\ "recover" \in Faults
  /\ ~up
  /\ up' = TRUE
  /\ UNCHANGED <<row, stored, task, verdict, broken, lock, crashes>>

-----------------------------------------------------------------------------
Advance(r) ==
  \/ Refuse(r) \/ Busy(r) \/ StartScan(r) \/ ScanFails(r) \/ ScanSucceeds(r)
  \/ BeginReconcile(r) \/ CommitFindings(r) \/ Finish(r) \/ Prune(r)
  \/ MarkFailed(r) \/ MarkFailedRaises(r)

Next ==
  \/ \E r \in Runs : Request(r) \/ Advance(r) \/ FlushFails(r) \/ OtherException(r) \/ LoadFails(r)
  \/ Crash \/ Recover \/ RecoverFails

\* The loop keeps resuming a task that can go on (a scan ends: the engine
\* bounds it), and a stopped container is started again.
Fairness == WF_vars(Recover) /\ \A r \in Runs : WF_vars(Advance(r))

Spec == Init /\ [][Next]_vars

-----------------------------------------------------------------------------
(* Properties. *)

\* A run shown as a success has its inventory changes and its observations
\* committed, whatever crashed or raised in between; a run shown as timed out
\* or rejected has left no trace in them.
VerdictMatchesFindings == \A r \in Runs :
  /\ row[r].status = "success" => stored[r] = "full"
  /\ row[r].status \in {"timeout", "rejected"} => stored[r] = "none"

\* "Safe to mark all of them": a run closed as interrupted has no task left
\* that could still write to it.
InterruptedRunsAreOver == \A r \in Runs :
  row[r].summary = "interrupted" => task[r] \notin Live

\* A closed run is never reopened, and its status changes again only when
\* its own task, still alive, records an unexpected failure: neither another
\* run nor a restart rewrites a recorded outcome.
ClosedRunsStayClosed == [][\A r \in Runs :
  row[r].status \in Terminal /\ row'[r] # row[r] =>
    /\ task[r] = "handler"
    /\ row'[r] = [status |-> "failed", summary |-> "unexpected"]]_vars

\* The service implements the ledger of RunLedger.
Ledger == INSTANCE RunLedger WITH status <- [r \in Runs |-> row[r].status]
LedgerSpec == Ledger!Spec

\* The handler's reason to exist: no run is left on "running" by a task that
\* died while the application keeps going.
NoRunIsStranded == \A r \in Runs :
  up /\ row[r].status = "running" => task[r] \in Live
=============================================================================
