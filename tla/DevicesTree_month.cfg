SPECIFICATION Spec
CONSTANTS
  Ids = {1, 2, 3}
  PageLimit = 2
  MaxChanges = 0
  Size <- MCSize
  Requests <- MCRequests
  Passed = 2
  Remaining = 3
  Multiplier = 2
CHECK_DEADLOCK FALSE
INVARIANT
  CurrentMonthHasCosts
