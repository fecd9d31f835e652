SPECIFICATION CalculationsSpec
CONSTANTS
  Kinds = {"window", "cpuRam", "tree", "estimation", "apiCalls"}
  Zones <- MCZones
  LeapYears = {1}
  FirstHour = 745
  LastHour = 11000
  Words = 8
  MaxPredictions = 4
  Price = 2
  Average = 1
  Passed = 3
  Remaining = 5
  NoStat = NoStat
  Labels <- MCLabels
  LabelSets <- MCLabelSets
  StatCosts <- MCStatCosts
  NoTree = NoTree
  Operators = {"o1", "o2", "o3"}
  Flows = {"f"}
  Pipeline <- MCPipeline
  Containers <- MCContainers
  Costs = {12, 24}
  MaxEstimationStats = 4
  NoLabel = NoLabel
  NoResult = NoResult
  Failed = Failed
  Username <- MCUsername
  Consumers <- MCConsumers
  Services <- MCServices
  Values = {1, 4}
  Multipliers <- MCMultipliers
  MaxSamples = 4
CHECK_DEADLOCK FALSE
INVARIANTS
  WindowCoversMonth
  ShrinksAtMonthsEndOnly
  NoOthersPrediction
  PredictionFound
  NodesCostTheirStats
  FiguresAreExact
  OrderMattersForOwnStatsOnly
  TreeMatchesAnswer
