SPECIFICATION FairSpec
CONSTANTS
  main = main
  u1 = u1
  BaseThread = main
  Users = {u1}
  MaxThreads = 1
  MaxFds = 2
  MaxClients = 2
PROPERTIES
  ClientsAccepted
