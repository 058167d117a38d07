SPECIFICATION EchoSpec
CONSTANTS
  main = main
  LoopThread = main
  Threads = {}
  Callers = {}
  highWaterMark_ = 0
  MaxSends = 0
  MaxLen = 0
  kCheapPrepend = 0
  kInitialSize = 3
  ExtraSize = 4
  MaxBytes = 3
INVARIANTS
  EchoesAll
