\* A flush that fails, in one process life.
SPECIFICATION MCSpec
CONSTANTS
  Runs = {r1, r2}
  NoRun = NoRun
  MaxScans = 1
  MaxCrashes = 0
  Faults = {"flush"}
INVARIANTS
  NoRunIsStranded
CHECK_DEADLOCK FALSE
