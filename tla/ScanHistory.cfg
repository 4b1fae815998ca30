\* Two devices on two addresses, one port, three runs: two that overlap,
\* close and are compared, and one more for the timelines.
SPECIFICATION HistorySpec
CONSTANTS
  Devices = {d1, d2}
  Addresses = {1, 2}
  NoAddress = 0
  Ranges = {{1}, {1, 2}}
  Ports = {p1}
  NotChecked = NotChecked
  SourceLimit = 3
  MaxRun = 3
  MaxCompared = 2
SYMMETRY Symmetry
INVARIANTS
  TimelineIsTrue
  ComparisonIsTrue
CHECK_DEADLOCK FALSE
