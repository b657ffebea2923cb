SPECIFICATION Spec
CONSTANTS
  Slots = {1, 2, 3}
  Ranks = {0, 1}
  MaxRollouts = 3
  MaxDeaths = 3
INVARIANTS
  ServesCurrentWeights
  RanksAgree
  RecordedDeathIsSurvived
CHECK_DEADLOCK FALSE
