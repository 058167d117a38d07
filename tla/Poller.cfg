SPECIFICATION Spec
CONSTANTS
  c1 = c1
  c2 = c2
  f1 = f1
  f2 = f2
  Channels <- MCChannels
  Fds <- MCFds
  NoFd = NoFd
  NoChannel = NoChannel
  kInitEventListSize = 1
  MaxEventListSize = 2
SYMMETRY MCSymmetry
INVARIANTS
  TypeOK
  Coherent
  NoDanglingPointer
