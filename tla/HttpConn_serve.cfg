\* Both trigger modes; a response takes several writev, and the object is
\* used again.
SPECIFICATION FairSpec
CONSTANTS
  HeadLen = 2
  Files = {0, 3}
  Garbage = {0, 1}
  Threshold = 2
  Room = 2
  Lives = 2
INVARIANTS OwedIsGiven NothingOverwritten FileMapped
PROPERTIES SentBeforeClose EveryRequestAnswered
\* The model ends when the object was used Lives times, or SIGPIPE came.
CHECK_DEADLOCK FALSE
