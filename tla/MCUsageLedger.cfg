SPECIFICATION Spec
CONSTANTS
  NumSources = 2
  Batch = 1
  MaxTries = 1
  MaxRequests = 2
  MaxLives = 2
  None = None
INVARIANTS
  DroppedCostExact
  ChargedOnce
  SettledAtStop
