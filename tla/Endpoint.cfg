SPECIFICATION GraphFairSpec
CONSTANTS
  Users = {u1, v1, v2}
  Closer = u1
  Vars = {v1, v2}
  Handles = {h1, h2, h3}
  nullptr = nullptr
  Wakeup = TRUE
INVARIANTS
  GraphTypeOK
  OwnedOnce
  ParentsOutlive
  CachedHandleIsOpen
  OnlyLateCloseMisuses
  ClosedOnDestroyIfZeroed
PROPERTIES
  CloseReturns
CHECK_DEADLOCK FALSE
