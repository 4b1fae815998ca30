\* Two executions and two edits over two ids, one of them used again.
SPECIFICATION Spec
CONSTANTS
  Requests = {r1, r2}
  Edits = {e1, e2}
  MaxId = 2
  MaxNames = 2
  MaxCrashes = 1
  Faults = {"escape", "commit"}
SYMMETRY Symmetry
INVARIANTS
  RecordTellsWhatRan
  LinksResolve
PROPERTIES
  HistorySurvives
  EventsAreTrue
  JournalSpec
CHECK_DEADLOCK FALSE
