SPECIFICATION Spec
CONSTANTS
  Fds = {f1, f2, f3}
  Workers = {w1, w2}
  Main = Main
  Listen = Listen
  NoFd = NoFd
  NoTask = NoTask
  MAX_FD = 2
  MaxConns = 4
  TrigMode = 3
  Timeouts = TRUE
  PromptTasks = TRUE
SYMMETRY Symmetry
INVARIANTS TypeOK Exclusive NoOrphan UserCountExact ClosesOwnConnection NoStrandedBacklog
