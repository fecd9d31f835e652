SPECIFICATION FairSpec
CONSTANTS
  f1 = f1
  f2 = f2
  Requests = {r1, r2}
  Flows = {f1, f2}
  FlowLists <- MCFlowLists
  CacheValid = 0
  MaxTime = 1
  NoRequest = NoRequest
  NotCached = NotCached
CHECK_DEADLOCK FALSE
PROPERTY
  DenialStaysWithItsCall
