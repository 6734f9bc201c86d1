SPECIFICATION FairSpec
CONSTANTS
  Clients = {c1, c2}
  Atomics = 6
INVARIANTS
  TypeOK
  BellMeansDone
  HandlersStayClose
  MemoryOutlivesAccess
PROPERTIES
  ConversationsEnd
CHECK_DEADLOCK FALSE
