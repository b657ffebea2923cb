SPECIFICATION RunnerSpec
CONSTANTS
  MaxRounds = 2
  M = 2
  P = 2
  SearchConfigs <- MCConfigs
  MaxRaises = 1
  MaxKills = 0
  MaxResumes = 1
INVARIANTS
  InterruptedRoundRetried
CHECK_DEADLOCK FALSE
