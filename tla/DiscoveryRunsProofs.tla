------------------------- MODULE DiscoveryRunsProofs -------------------------
(***************************************************************************)
(* Theorems about DiscoveryRuns for any set of runs, any number of slots,  *)
(* any bound on restarts and any set of faults, and their proofs.          *)
(***************************************************************************)
EXTENDS DiscoveryRuns, TLAPS

\* The scan of r is under way and its verdict is not known.
Scouting == {"queued", "scanning", "scanned", "writing"}

\* What a task that is still alive knows of its row and of its findings.
AliveInv(r) ==
  /\ task[r] \in Scouting => row[r].status = "running" /\ stored[r] = "none"
  /\ task[r] = "closing" =>
       /\ row[r].status = "running"
       /\ verdict[r] # "none"
       /\ stored[r] = IF verdict[r] = "success" THEN "full" ELSE "none"
  /\ task[r] \in {"pruning", "handler"} => row[r].status # "none"

\* A row is recorded before its task exists, and carries a summary once closed.
RowInv(r) ==
  /\ row[r].status = "none" => task[r] = "none" /\ stored[r] = "none"
  /\ row[r].status \in {"none", "running"} => row[r].summary = "none"
  /\ row[r].status = "running" => stored[r] # "partial"
  /\ row[r].status = "success" => stored[r] = "full"
  /\ row[r].status \in {"timeout", "rejected"} => stored[r] = "none"

\* Findings held by a session that raised are those of an open, unstored run.
LockInv == lock # NoRun =>
  /\ task[lock] \in {"writing", "handler"}
  /\ row[lock].status = "running"
  /\ stored[lock] = "none"

\* A restart happens between two lives of the process: no task spans it.
DownInv == ~up => \A r \in Runs : task[r] \notin Live

IInv ==
  /\ TypeOK
  /\ \A r \in Runs : AliveInv(r)
  /\ \A r \in Runs : RowInv(r)
  /\ LockInv
  /\ DownInv
  /\ InterruptedRunsAreOver
-----------------------------------------------------------------------------
(* The invariant. *)

LEMMA InitIInv == Init => IInv
  BY RunsAssumption DEF Init, IInv, TypeOK, Row, Summaries, AliveInv, RowInv, LockInv,
     DownInv, InterruptedRunsAreOver, Live, Scouting

LEMMA TypeStep ==
  ASSUME TypeOK, [Next]_vars
  PROVE  TypeOK'
  <1> USE RunsAssumption DEF TypeOK, Row, Statuses, Terminal, Summaries, Live
  <1>1. CASE UNCHANGED vars
    BY <1>1 DEF vars
  <1>2. CASE Crash
    <2>1. crashes' \in 0..MaxCrashes
      BY <1>2 DEF Crash
    <2>2. task' \in [Runs -> Live \union {"none", "done", "dead"}]
      BY <1>2 DEF Crash
    <2> QED
      BY <1>2, <2>1, <2>2 DEF Crash
  <1>3. CASE Recover \/ RecoverFails
    <2>1. \A r \in Runs : row'[r] \in Row
      BY <1>3 DEF Recover, RecoverFails
    <2>2. row' \in [Runs -> Row]
      BY <1>3, <2>1 DEF Recover, RecoverFails
    <2> QED
      BY <1>3, <2>2 DEF Recover, RecoverFails
  <1>4. ASSUME NEW r \in Runs,
               Request(r) \/ Advance(r) \/ FlushFails(r) \/ OtherException(r) \/ LoadFails(r)
        PROVE  TypeOK'
    <2>1. CASE Request(r) \/ LoadFails(r)
      <3>1. [row[r] EXCEPT !.status = "running"] \in Row
        OBVIOUS
      <3>2. row' \in [Runs -> Row]
        BY <2>1, <3>1 DEF Request, LoadFails
      <3> QED
        BY <2>1, <3>2 DEF Request, LoadFails, Goto
    <2>2. CASE Refuse(r) \/ Busy(r) \/ ScanFails(r)
      <3>1. PICK s \in {"rejected", "failed", "timeout"} : Decide(r, s)
        BY <2>2 DEF Refuse, Busy, ScanFails
      <3> QED
        BY <3>1 DEF Decide, Goto
    <2>3. CASE StartScan(r) \/ ScanSucceeds(r) \/ BeginReconcile(r)
      BY <2>3 DEF StartScan, ScanSucceeds, BeginReconcile, Goto
    <2>4. CASE CommitFindings(r) \/ Prune(r)
      BY <2>4 DEF CommitFindings, Prune, CommitBy, Goto
    <2>5. CASE Finish(r)
      BY <2>5 DEF Finish, CommitBy, Goto
    <2>6. CASE MarkFailed(r)
      BY <2>6 DEF MarkFailed, CommitBy, Goto
    <2>7. CASE MarkFailedRaises(r)
      BY <2>7 DEF MarkFailedRaises, Goto
    <2>8. CASE FlushFails(r) \/ OtherException(r)
      BY <2>8 DEF FlushFails, OtherException, Raise, Goto
    <2> QED
      BY <1>4, <2>1, <2>2, <2>3, <2>4, <2>5, <2>6, <2>7, <2>8 DEF Advance
  <1> QED
    BY <1>1, <1>2, <1>3, <1>4 DEF Next

\* The parts of IInv about rows and tasks survive every step.
LEMMA HistoryStep ==
  ASSUME IInv, TypeOK', [Next]_vars
  PROVE  /\ \A r \in Runs : AliveInv(r)' /\ RowInv(r)'
         /\ LockInv' /\ DownInv' /\ InterruptedRunsAreOver'
  <1> USE RunsAssumption
      DEF IInv, TypeOK, Row, Statuses, Terminal, Summaries, Live, Scouting,
          AliveInv, RowInv, LockInv, DownInv, InterruptedRunsAreOver
  <1>1. CASE UNCHANGED vars
    BY <1>1 DEF vars
  <1>2. CASE Crash
    BY <1>2 DEF Crash
  <1>3. CASE Recover \/ RecoverFails
    BY <1>3 DEF Recover, RecoverFails
  <1>4. ASSUME NEW r \in Runs,
               Request(r) \/ Advance(r) \/ FlushFails(r) \/ OtherException(r) \/ LoadFails(r)
        PROVE  /\ \A q \in Runs : AliveInv(q)' /\ RowInv(q)'
               /\ LockInv' /\ DownInv' /\ InterruptedRunsAreOver'
    <2>1. CASE Request(r)
      BY <2>1 DEF Request, Goto
    <2>2. CASE LoadFails(r)
      BY <2>2 DEF LoadFails, Goto
    <2>3. CASE Refuse(r) \/ Busy(r) \/ ScanFails(r)
      BY <2>3 DEF Refuse, Busy, ScanFails, Decide, Goto
    <2>4. CASE StartScan(r) \/ ScanSucceeds(r)
      BY <2>4 DEF StartScan, ScanSucceeds, Goto
    <2>5. CASE BeginReconcile(r)
      BY <2>5 DEF BeginReconcile, Goto
    <2>6. CASE CommitFindings(r)
      BY <2>6 DEF CommitFindings, CommitBy, Goto
    <2>7. CASE Finish(r)
      BY <2>7 DEF Finish, CommitBy, Goto
    <2>8. CASE Prune(r)
      BY <2>8 DEF Prune, CommitBy, Goto
    <2>9. CASE MarkFailed(r)
      BY <2>9 DEF MarkFailed, CommitBy, Goto
    <2>10. CASE MarkFailedRaises(r)
      BY <2>10 DEF MarkFailedRaises, Goto
    <2>11. CASE FlushFails(r)
      BY <2>11 DEF FlushFails, Raise, Goto
    <2>12. CASE OtherException(r)
      BY <2>12 DEF OtherException, Raise, Goto
    <2> QED
      BY <1>4, <2>1, <2>2, <2>3, <2>4, <2>5, <2>6, <2>7, <2>8, <2>9, <2>10, <2>11, <2>12
      DEF Advance
  <1> QED
    BY <1>1, <1>2, <1>3, <1>4 DEF Next

LEMMA IInvStep ==
  ASSUME IInv, [Next]_vars
  PROVE  IInv'
  <1>1. TypeOK'
    BY TypeStep DEF IInv
  <1> QED
    BY <1>1, HistoryStep DEF IInv

\* The inductive invariant holds of every behaviour of the service.
THEOREM DiscoveryInvariant == Spec => []IInv
  BY InitIInv, IInvStep, PTL DEF Spec

\* Every variable keeps its type.
THEOREM TypeCorrect == Spec => []TypeOK
  <1>1. IInv => TypeOK
    BY DEF IInv
  <1> QED
    BY <1>1, DiscoveryInvariant, PTL

\* A success has its findings committed, a timeout or a rejection none.
THEOREM VerdictsMatchFindings == Spec => []VerdictMatchesFindings
  <1>1. IInv => VerdictMatchesFindings
    BY DEF IInv, RowInv, VerdictMatchesFindings
  <1> QED
    BY <1>1, DiscoveryInvariant, PTL

\* The clean-up at startup never closes a run whose task is still alive.
THEOREM InterruptedMeansOver == Spec => []InterruptedRunsAreOver
  <1>1. IInv => InterruptedRunsAreOver
    BY DEF IInv
  <1> QED
    BY <1>1, DiscoveryInvariant, PTL

-----------------------------------------------------------------------------
(* Steps. *)

\* Which steps write a row, and what they make of it.
LEMMA RowWrites ==
  ASSUME IInv, [Next]_vars, NEW q \in Runs, row'[q] # row[q]
  PROVE  \/ row[q].status \in {"none", "running"}
         \/ task[q] = "handler" /\ row'[q] = [status |-> "failed", summary |-> "unexpected"]
  <1> USE DEF IInv, TypeOK, Row, Statuses, Terminal, Summaries
  <1>1. CASE UNCHANGED vars
    BY <1>1 DEF vars
  <1>2. CASE Crash \/ Recover \/ RecoverFails
    BY <1>2 DEF Crash, Recover, RecoverFails
  <1>3. ASSUME NEW r \in Runs,
               Request(r) \/ Advance(r) \/ FlushFails(r) \/ OtherException(r) \/ LoadFails(r)
        PROVE  \/ row[q].status \in {"none", "running"}
               \/ /\ task[q] = "handler"
                  /\ row'[q] = [status |-> "failed", summary |-> "unexpected"]
    <2>1. CASE Request(r)
      BY <2>1 DEF Request
    <2>2. CASE Finish(r)
      BY <2>2 DEF Finish, AliveInv
    <2>3. CASE MarkFailed(r)
      BY <2>3 DEF MarkFailed
    <2>4. CASE UNCHANGED row
      BY <2>4
    <2> QED
      BY <1>3, <2>1, <2>2, <2>3, <2>4
      DEF Advance, Refuse, Busy, StartScan, ScanFails, ScanSucceeds, BeginReconcile,
          CommitFindings, Prune, MarkFailedRaises, Decide, FlushFails, OtherException,
          LoadFails, Raise
  <1> QED
    BY <1>1, <1>2, <1>3 DEF Next

\* A recorded outcome is rewritten by the run's own live task or by nobody.
THEOREM ClosedStaysClosed == Spec => ClosedRunsStayClosed
  <1>1. ASSUME IInv, [Next]_vars
        PROVE  \A r \in Runs : row[r].status \in Terminal /\ row'[r] # row[r] =>
                 /\ task[r] = "handler"
                 /\ row'[r] = [status |-> "failed", summary |-> "unexpected"]
    BY <1>1, RowWrites DEF Terminal, Statuses
  <1>2. IInv /\ [Next]_vars => [\A r \in Runs : row[r].status \in Terminal /\ row'[r] # row[r] =>
                 /\ task[r] = "handler"
                 /\ row'[r] = [status |-> "failed", summary |-> "unexpected"]]_vars
    BY <1>1
  <1> QED
    BY <1>2, DiscoveryInvariant, PTL DEF Spec, ClosedRunsStayClosed

-----------------------------------------------------------------------------
(* Refinement. *)

LEMMA LedgerInit == Init => Ledger!Init
  BY DEF Init, Ledger!Init

\* Every step of the service is a step of the ledger or leaves it alone.
LEMMA LedgerStep ==
  ASSUME IInv, IInv', [Next]_vars
  PROVE  [Ledger!Next]_(Ledger!vars)
  <1> DEFINE status == [r \in Runs |-> row[r].status]
  <1> USE DEF IInv, TypeOK, Row, Statuses, Terminal, Summaries
  <1>1. CASE UNCHANGED vars
    BY <1>1 DEF vars, Ledger!vars
  <1>2. CASE Crash \/ RecoverFails
    BY <1>2 DEF Crash, RecoverFails, Ledger!vars
  <1>3. CASE Recover
    <2>1. status' = [r \in Runs |-> IF status[r] = "running" THEN "failed" ELSE status[r]]
      BY <1>3 DEF Recover
    <2> QED
      BY <1>3, <2>1 DEF Recover, Ledger!Restart, Ledger!Next
  <1>4. ASSUME NEW r \in Runs,
               Request(r) \/ Advance(r) \/ FlushFails(r) \/ OtherException(r) \/ LoadFails(r)
        PROVE  [Ledger!Next]_(Ledger!vars)
    <2>1. CASE Request(r)
      <3>1. status[r] = "none" /\ status' = [status EXCEPT ![r] = "running"]
        BY <2>1 DEF Request
      <3>2. Ledger!Open(r)
        BY <2>1, <3>1 DEF Request, Ledger!Open
      <3> QED
        BY <3>2 DEF Ledger!Next
    <2>2. CASE CommitFindings(r)
      <3>1. Ledger!Store(r)
        BY <2>2 DEF CommitFindings, Ledger!Store, AliveInv, Scouting
      <3> QED
        BY <3>1 DEF Ledger!Next
    <2>3. CASE Finish(r)
      <3>1. PICK s \in Ledger!Terminal : s = verdict[r]
        BY <2>3 DEF Finish, AliveInv, Ledger!Terminal
      <3>2. /\ status[r] = "running"
            /\ s = "success" => stored[r] = "full"
            /\ s # "success" => stored[r] = "none"
            /\ status' = [status EXCEPT ![r] = s]
        BY <2>3, <3>1 DEF Finish, AliveInv
      <3>3. Ledger!Close(r, s)
        BY <2>3, <3>2 DEF Finish, Ledger!Close
      <3> QED
        BY <3>3 DEF Ledger!Next
    <2>4. CASE MarkFailed(r)
      <3>1. status' = [status EXCEPT ![r] = "failed"] /\ status[r] # "none"
        BY <2>4 DEF MarkFailed, AliveInv
      <3>2. CASE lock = r
        <4>1. Ledger!Break(r)
          BY <2>4, <3>1, <3>2, RunsAssumption DEF MarkFailed, LockInv, Ledger!Break
        <4> QED
          BY <4>1 DEF Ledger!Next
      <3>3. CASE lock # r
        <4>1. stored' = stored
          BY <2>4, <3>3 DEF MarkFailed
        <4>2. CASE status[r] = "running"
          <5>1. Ledger!Close(r, "failed")
            BY <3>1, <4>1, <4>2 DEF Ledger!Close
          <5> QED
            BY <5>1 DEF Ledger!Next, Ledger!Terminal
        <4>3. CASE status[r] # "running"
          <5>1. Ledger!Retract(r)
            BY <3>1, <4>1, <4>3 DEF Ledger!Retract, Ledger!Terminal
          <5> QED
            BY <5>1 DEF Ledger!Next
        <4> QED
          BY <4>2, <4>3
      <3> QED
        BY <3>2, <3>3
    <2>5. CASE UNCHANGED <<row, stored>>
      BY <2>5 DEF Ledger!vars
    <2> QED
      BY <1>4, <2>1, <2>2, <2>3, <2>4, <2>5
      DEF Advance, Refuse, Busy, StartScan, ScanFails, ScanSucceeds, BeginReconcile,
          Prune, MarkFailedRaises, Decide, FlushFails, OtherException, LoadFails, Raise
  <1> QED
    BY <1>1, <1>2, <1>3, <1>4 DEF Next

\* The discovery service implements the abstract ledger.
THEOREM ServiceImplementsLedger == Spec => LedgerSpec
  <1>1. IInv /\ IInv' /\ [Next]_vars => [Ledger!Next]_(Ledger!vars)
    BY LedgerStep
  <1> QED
    BY <1>1, LedgerInit, DiscoveryInvariant, PTL DEF Spec, LedgerSpec, Ledger!Spec

\* What the ledger promises says enough: any service that keeps it, not only
\* this one, closes a run as a success only with its findings stored, and as
\* timed out or rejected only with none.
THEOREM LedgerMatchesFindings == LedgerSpec => []VerdictMatchesFindings
  <1> DEFINE status == [r \in Runs |-> row[r].status]
             Matches == /\ DOMAIN stored = Runs
                        /\ \A r \in Runs :
                             /\ status[r] = "success" => stored[r] = "full"
                             /\ status[r] \in {"timeout", "rejected"} => stored[r] = "none"
  <1>1. Ledger!Init => Matches
    BY DEF Ledger!Init
  <1>2. Matches /\ [Ledger!Next]_(Ledger!vars) => Matches'
    <2> SUFFICES ASSUME Matches, [Ledger!Next]_(Ledger!vars)
                 PROVE  Matches'
      OBVIOUS
    <2>0. DOMAIN status = Runs
      OBVIOUS
    <2>1. CASE UNCHANGED <<status, stored>>
      BY <2>1
    <2>2. ASSUME NEW r \in Runs, Ledger!Open(r)
          PROVE  Matches'
      <3>1. status' = [status EXCEPT ![r] = "running"] /\ stored' = stored
        BY <2>2 DEF Ledger!Open
      <3> HIDE DEF status
      <3> QED
        BY <2>0, <3>1
    <2>3. ASSUME NEW r \in Runs, Ledger!Store(r)
          PROVE  Matches'
      <3>1. status[r] = "running" /\ status' = status /\ stored' = [stored EXCEPT ![r] = "full"]
        BY <2>3 DEF Ledger!Store
      <3> HIDE DEF status
      <3> QED
        BY <2>0, <3>1
    <2>4. ASSUME NEW r \in Runs, Ledger!Break(r)
          PROVE  Matches'
      <3>1. /\ status' = [status EXCEPT ![r] = "failed"]
            /\ stored' = [stored EXCEPT ![r] = "partial"]
        BY <2>4 DEF Ledger!Break
      <3> HIDE DEF status
      <3> QED
        BY <2>0, <3>1
    <2>5. ASSUME NEW r \in Runs, Ledger!Retract(r)
          PROVE  Matches'
      <3>1. status' = [status EXCEPT ![r] = "failed"] /\ stored' = stored
        BY <2>5 DEF Ledger!Retract
      <3> HIDE DEF status
      <3> QED
        BY <2>0, <3>1
    <2>6. ASSUME NEW r \in Runs, NEW s \in Ledger!Terminal, Ledger!Close(r, s)
          PROVE  Matches'
      <3>1. /\ s = "success" => stored[r] = "full"
            /\ s \in {"timeout", "rejected"} => stored[r] = "none"
            /\ status' = [status EXCEPT ![r] = s] /\ stored' = stored
        BY <2>6 DEF Ledger!Close
      <3> HIDE DEF status
      <3> QED
        BY <2>0, <3>1
    <2>7. CASE Ledger!Restart
      <3>1. /\ stored' = stored
            /\ status' = [r \in Runs |-> IF status[r] = "running" THEN "failed" ELSE status[r]]
        BY <2>7 DEF Ledger!Restart
      <3> HIDE DEF status
      <3> QED
        BY <2>0, <3>1
    <2> QED
      BY <2>1, <2>2, <2>3, <2>4, <2>5, <2>6, <2>7 DEF Ledger!Next, Ledger!vars
  <1>3. Matches => VerdictMatchesFindings
    BY DEF VerdictMatchesFindings
  <1> QED
    BY <1>1, <1>2, <1>3, PTL DEF LedgerSpec, Ledger!Spec
=============================================================================
