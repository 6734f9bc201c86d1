SPECIFICATION Spec
CONSTANTS
  Fds = {fd1, fd2}
  Coros = {c1, c2}
  nullptr = nullptr
  Loop = Loop
  MaxEvents = 2
  FullDuplex = FALSE
  Errors = TRUE
INVARIANTS
  ResumedWhenReady
CHECK_DEADLOCK FALSE
