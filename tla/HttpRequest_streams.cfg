\* Two requests, cut and joined by reads in all ways.
SPECIFICATION FairSpec
CONSTANTS
  Bodies = {"none", "line", "bare"}
  Targets = {"file", "missing", "private", "directory"}
  MaxRequests = 2
INVARIANTS AnswersAreAsked WholeRequestsServed
PROPERTIES AllIsRead
\* The connection ends.
CHECK_DEADLOCK FALSE
