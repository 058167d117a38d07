SPECIFICATION FairSpec
CONSTANTS
  LoopThread = loop
  t1 = t1
  t2 = t2
  Threads <- MCThreads
  MaxTasks = 3
  EventfdMax = 2
INVARIANTS
  TypeOK
  NoLostWakeup
  NoLostQuit
PROPERTIES
  ImplementsExecutor
  EveryTaskRuns
  EveryTaskRunsByTimeout
  QuitStops
