\* Four records of any kind and time, three times of which the outer two are
\* whole seconds, pages of two.
SPECIFICATION Spec
CONSTANTS
  Records = {e1, e2, e3, e4}
  PageSize = 2
  Second = 2
  MaxTime = 2
SYMMETRY Symmetry
INVARIANTS
  OnlyRunsRepeat
  WalkIsComplete
CHECK_DEADLOCK FALSE
