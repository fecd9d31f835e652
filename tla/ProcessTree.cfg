SPECIFICATION Spec
CONSTANTS
  WorkerSources = {"process-task-worker", "process-engine"}
  MarshallingSources = {"marshalling"}
  IoSources = {"process-io", "process-task-worker"}
  PodSets <- MCPodSets
  Factors = {0, 1, 2}
  Instances = {"optimistic-worker"}
  Increases <- MCIncreases
CHECK_DEADLOCK FALSE
INVARIANTS
  TypeOK
  WorkersMatchStats
  DefinitionsSplitOnePod
  SharesMatchStats
