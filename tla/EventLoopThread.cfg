SPECIFICATION FairSpec
CONSTANTS
  LoopThread = loop
  main = main
  other = other
  Threads <- MCThreads
  Owner = main
  NoLoop = NoLoop
  MaxTasks = 2
  EventfdMax = 2
INVARIANTS
  TypeOK
  InitCallbackFirst
  LeftOnlyAtEnd
  LoopOrUserQuit
PROPERTIES
  StartReturns
  JoinReturns
