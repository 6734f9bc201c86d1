SPECIFICATION Spec
CONSTANTS
  Fds = {fd1, fd2}
  Coros = {c1, c2}
  nullptr = nullptr
  Loop = Loop
  MaxEvents = 2
  FullDuplex = TRUE
  Errors = FALSE
INVARIANTS
  AssertionHolds
CHECK_DEADLOCK FALSE
