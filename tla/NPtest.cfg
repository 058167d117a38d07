SPECIFICATION FairSpec
CONSTANTS
  c1 = c1
  c2 = c2
  c3 = c3
  c4 = c4
  o1 = o1
  o2 = o2
  o3 = o3
  Clients = {c1, c2, c3, c4}
  NoClient = NoClient
  MaxFd = 3
  MaxNumber <- MCMaxNumber
  Setups <- MCSetups
  MaxEvents = 4
  Objects = {o1, o2, o3}
  MaxHandle = 3
INVARIANTS
  TypeOK
  EveryConnectionWatched
  StuckOnlyAtNewEntry
  OwnReplies
  OwnSlots
  OverrunOnlyIfFull
  NoLostNotify
  OneOwner
PROPERTIES
  AnsweredC1
  ReactorIsExecutor
  EventsHandled
