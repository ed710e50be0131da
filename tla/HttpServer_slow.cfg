\* Level triggered; timers may close connections that are being served.  The
\* one descriptor is reused, so what is left of a connection meets the next.
\* No symmetry: it is unsound for liveness.
SPECIFICATION FairSpec
CONSTANTS
  Fds = {f1}
  Workers = {w1, w2}
  Main = Main
  Listen = Listen
  NoFd = NoFd
  NoTask = NoTask
  MAX_FD = 1
  MaxConns = 3
  TrigMode = 0
  Timeouts = TRUE
  PromptTasks = FALSE
INVARIANTS TimerForEvent
PROPERTIES HangUpsAreClosed AcceptsWhileRoom
