SPECIFICATION FairSpec
CONSTANTS
  Calls = {c1, c2}
  Requests <- MCRequests
  None = None
CHECK_DEADLOCK FALSE
INVARIANTS
  AskedAsRequested
  ResultIsTheAnswer
PROPERTY
  ReturnsUnlessDenied
