SPECIFICATION RunnerSpec
CONSTANTS
  MaxRounds = 2
  M = 2
  P = 2
  SearchConfigs <- MCConfigs
  MaxRaises = 1
  MaxKills = 1
  MaxResumes = 1
INVARIANTS
  FrontierRestorable
  NothingLeaks
PROPERTIES
  ParentEvaluatedFirst
CHECK_DEADLOCK FALSE
