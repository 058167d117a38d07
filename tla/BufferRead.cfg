SPECIFICATION Spec
CONSTANTS
  kCheapPrepend = 2
  kInitialSize = 3
  ExtraSize = 5
  MaxBytes = 9
INVARIANTS
  ZeroMeansClosed
