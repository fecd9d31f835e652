SPECIFICATION Spec
CONSTANTS
  Exports = {x1, x2, other}
  Mine = {x1, x2}
  Averages = {1, 2}
  Predictions <- MCPredictions
  Passed = 2
  Remaining = 3
  NoPrediction = NoPrediction
CHECK_DEADLOCK FALSE
INVARIANTS
  RootMatchesExports
  OnlyMyExports
  EstimationCoversMonth
