\* Four timers make a heap of three levels, where siftdown_ has a choice
\* between two children and a node below them.
SPECIFICATION Spec
CONSTANTS
  Ids = {d1, d2, d3, d4}
  NoId = NoId
  Timeout = 3
  PerMs = 2
  MaxTime = 5
  MaxBacks = 1
SYMMETRY IdSymmetry
INVARIANTS TypeOK RefAgrees HeapOrder
PROPERTIES TickFiresAll ImplementsTimerQueue
\* SiftUpAbort ends the process.
CHECK_DEADLOCK FALSE
