SPECIFICATION FairSpec
CONSTANTS
  Frames = {f1, f2, f3}
  Main = Main
  nullptr = nullptr
  MaxSuspend = 1
INVARIANTS
  TypeOK
  WakeUpsMatch
  NoDanglingFrame
  NoLeak
PROPERTIES
  FramesReleased
CHECK_DEADLOCK FALSE
