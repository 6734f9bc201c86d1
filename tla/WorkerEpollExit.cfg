SPECIFICATION FairSpec
CONSTANTS
  Coros = {c1, c2}
  Thread = Thread
  FreshSignals = TRUE
PROPERTIES
  ProgramEnds
CHECK_DEADLOCK FALSE
