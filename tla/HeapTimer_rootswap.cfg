\* One connection is enough.
SPECIFICATION Spec
CONSTANTS
  Ids = {d1}
  NoId = NoId
  Timeout = 2
  PerMs = 2
  MaxTime = 4
  MaxBacks = 0
INVARIANT NeverAborts
CHECK_DEADLOCK FALSE
