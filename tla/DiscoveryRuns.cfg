\* Three runs over one scan slot, every fault, two restarts.
SPECIFICATION MCSpec
CONSTANTS
  Runs = {r1, r2, r3}
  NoRun = NoRun
  MaxScans = 1
  MaxCrashes = 2
  Faults = {"flush", "other", "load", "recover"}
INVARIANTS
  TypeOK
  VerdictMatchesFindings
  InterruptedRunsAreOver
CHECK_DEADLOCK FALSE
PROPERTIES
  ClosedRunsStayClosed
  LedgerSpec
  EveryRunCloses
