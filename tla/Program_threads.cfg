\* The deque has room for one line, so lines are queued and overtaken; the
\* file changes by date and by number of lines; of the two ports the server
\* refuses one.
SPECIFICATION ProgramFairSpec
CONSTANTS
  Producers = {Main, w1}
  Consumers = {Flusher}
  Flusher = Flusher
  Main = Main
  Nobody = Nobody
  Fds = {3, 4, 5}
  Capacity = 1
  MaxItems = 4
  MAX_LINES = 2
  MaxDay = 2
  Ports = {80, 8093}
  InfoLines = 1
INVARIANTS ProgramTypeOK LineInOnePlace NeverWaitsForRoom BoundedOvertaking
INVARIANTS BoundedLoss AllOrNothing
PROPERTIES PutsIntoOpenFile EveryLineIsWritten DestructorReturns
\* The program ends or is killed; the flusher may sleep for good when ~Log
\* calls Close.
CHECK_DEADLOCK FALSE
