SPECIFICATION FairSpec
CONSTANTS
  main = main
  u1 = u1
  BaseThread = main
  Users = {u1}
  MaxThreads = 2
  MaxFds = 3
  MaxClients = 4
INVARIANTS
  TypeOK
  Balanced
  DestroyedAfterEstablished
  NoneForgotten
PROPERTIES
  ClientsServed
