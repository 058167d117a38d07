SPECIFICATION Spec
CONSTANTS
  c1 = c1
  c2 = c2
  f1 = f1
  f2 = f2
  Channels = {c1}
  Fds = {f1}
  NoFd = NoFd
  NoChannel = NoChannel
  kInitEventListSize = 1
  MaxEventListSize = 2
INVARIANTS
  RemovedFromPoll
