SPECIFICATION FairSpec
CONSTANTS
  Coros = {c1, c2, c3}
  Requests = {r1, r2}
  nullptr = nullptr
  Loop = Loop
INVARIANTS
  TypeOK
  OneRequestPerWaiter
  NoWildResume
  CancelHitsOwnRequest
PROPERTIES
  ImplementsOperation
  CompletionResumes
