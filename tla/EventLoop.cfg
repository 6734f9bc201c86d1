SPECIFICATION FairSpec
CONSTANTS
  Fds = {fd1, fd2}
  Coros = {c1, c2}
  nullptr = nullptr
  Loop = Loop
  MaxEvents = 2
  FullDuplex = FALSE
  Errors = FALSE
INVARIANTS
  TypeOK
  AssertionHolds
  WaiterIsRegistered
PROPERTIES
  ImplementsBlockingIO
  ReadyWaiterResumes
CHECK_DEADLOCK FALSE
