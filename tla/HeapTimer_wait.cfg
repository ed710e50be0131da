\* The clock passes between the loop of tick and the end of GetNextTick.
SPECIFICATION Spec
CONSTANTS
  Ids = {d1}
  NoId = NoId
  Timeout = 2
  PerMs = 2
  MaxTime = 4
  MaxBacks = 0
PROPERTY WakesForTimers
CHECK_DEADLOCK FALSE
