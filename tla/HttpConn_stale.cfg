\* The memory of the object was zero.
SPECIFICATION Spec
CONSTANTS
  HeadLen = 2
  Files = {0, 3}
  Garbage = {0}
  Threshold = 2
  Room = 2
  Lives = 2
PROPERTY KeepAlive
\* The model ends when the object was used Lives times, or SIGPIPE came.
CHECK_DEADLOCK FALSE
