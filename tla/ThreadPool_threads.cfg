\* Three workers, as many tasks as it takes for two of them to be queued
\* while one worker runs and one sleeps.
SPECIFICATION FairSpec
CONSTANTS
  Workers = {w1, w2, w3}
  Client = Client
  Nobody = Nobody
  MaxTasks = 4
INVARIANTS TypeOK NoLostWakeup
PROPERTIES EveryTaskStarts ShutdownCompletes ImplementsTaskQueue
