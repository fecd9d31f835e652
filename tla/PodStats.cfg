SPECIFICATION FairSpec
CONSTANTS
  Wanted = {"cpu", "ram", "storage"}
  QueryOutcomes <- MCQueryOutcomes
  QueryError = QueryError
  NoOne = NoOne
  Nil = Nil
CHECK_DEADLOCK FALSE
INVARIANTS
  CostsMatchQueries
  LabelsOfEverySample
  ErrorSurvivesRace
PROPERTY
  ImplementsForkJoin
