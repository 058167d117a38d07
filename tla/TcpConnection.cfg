SPECIFICATION Spec
CONSTANTS
  main = main
  t1 = t1
  t2 = t2
  LoopThread = main
  Threads = {t1}
  Callers = {main, t1}
  highWaterMark_ = 1
  MaxSends = 2
  MaxLen = 1
  kCheapPrepend = 0
  kInitialSize = 1
  ExtraSize = 4
  MaxBytes = 1
INVARIANTS
  TypeOK
  ToldInOrder
  MessagesInOrder
PROPERTIES
  NoWriteAfterShutdown
  GivesUpWriting
