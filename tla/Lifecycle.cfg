SPECIFICATION FairProcessSpec
CONSTANTS
  Connections = {c1, c2, c3}
  MayStick = {c1, c2}
CHECK_DEADLOCK FALSE
INVARIANTS
  NobodyCutOff
  ExitOnlyWhenCancelled
PROPERTY
  ExitsUnlessStuck
