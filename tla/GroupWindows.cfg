CONSTANTS
  Clients = {c1}
  NoClient = NoClient
  Groups = {g1, g2}
  NoGroup = NoGroup
  Pids = {p1, p2, p3, p4}
  NoPid = NoPid
  QueueDepth = 2
  MaxFaults = 1
SPECIFICATION FairSpec
INVARIANTS
  TypeOK
  FiledOnce
  OwnWindows
  NothingLeaks
  PendingAtMostTwo
PROPERTIES
  OpenReturns
