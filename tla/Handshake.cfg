SPECIFICATION FairSpec
CONSTANTS
  c1 = c1
  c2 = c2
  Clients <- MCClients
  SizeT = 2
  Length <- MCLength
  Server = Server
  MayDie = TRUE
INVARIANTS
  TypeOK
  ConnectedBothWays
  NoReset
PROPERTIES
  EveryClientConnects
CHECK_DEADLOCK FALSE
