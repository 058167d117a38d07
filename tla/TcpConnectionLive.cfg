SPECIFICATION FairSpec
CONSTANTS
  main = main
  t1 = t1
  t2 = t2
  LoopThread = main
  Threads = {t1}
  Callers = {main, t1}
  highWaterMark_ = 1
  MaxSends = 0
  MaxLen = 1
  kCheapPrepend = 0
  kInitialSize = 2
  ExtraSize = 4
  MaxBytes = 2
PROPERTIES
  EndReported
