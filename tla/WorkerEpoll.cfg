SPECIFICATION FairSpec
CONSTANTS
  Coros = {c1, c2, c3}
  Thread = Thread
  FreshSignals = TRUE
INVARIANTS
  TypeOK
  NoLostSignal
  WorkerIsDriven
PROPERTIES
  EventIsProgressed
  ProgramEndsAfterProgress
CHECK_DEADLOCK FALSE
