SPECIFICATION Spec
CONSTANTS
  Users = {u1, u2, u3}
  Closer = u1
INVARIANTS
  ClosedOnDestroy
CHECK_DEADLOCK FALSE
