SPECIFICATION FairSpec
CONSTANTS
  Branches = {"analytics", "API Calls", "process", "Devices", "Exports"}
  NoOne = NoOne
  Nil = Nil
CHECK_DEADLOCK FALSE
INVARIANTS
  CrashHasCause
  ErrorSurvivesRace
  CompleteUnlessRaced
PROPERTY
  ImplementsForkJoin
