SPECIFICATION FairSpec
CONSTANTS
  Concurrency = 3
  WarmupIterations = 2
  Iterations = 3
  MessageSize = 2
INVARIANTS
  TypeOK
  CounterBound
PROPERTIES
  FinishesUnlessStarved
CHECK_DEADLOCK FALSE
