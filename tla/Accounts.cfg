\* Two requests of any kind, one browser, two addresses and a throttle that keeps
\* one, two sessions; a window, a lock (cut to that at the third failure) and both
\* lifetimes of one tick out of three instants.
SPECIFICATION Spec
CONSTANTS
  Browsers = {b1}
  NoBrowser = NoBrowser
  Addresses = {a1, a2}
  NoAddress = NoAddress
  Requests = {r1, r2}
  Threshold = 2
  LockBase = 1
  LockMax = 1
  MaxAttempts = 1
  Window = 1
  MaxTracked = 1
  Absolute = 1
  Idle = 1
  MaxTime = 2
  MaxFailures = 3
  MaxSessions = 2
SYMMETRY Symmetry
INVARIANTS TypeOK BurstIsBounded
PROPERTIES SessionsExpire LocksHold
CHECK_DEADLOCK FALSE
