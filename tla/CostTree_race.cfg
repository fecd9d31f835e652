SPECIFICATION Spec
CONSTANTS
  Branches = {"analytics", "imports", "process", "API Calls", "Devices",
              "Exports"}
  NoOne = NoOne
  Nil = Nil
CHECK_DEADLOCK FALSE
INVARIANT
  NoConcurrentMapWrites
