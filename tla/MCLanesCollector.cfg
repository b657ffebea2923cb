SPECIFICATION Spec
CONSTANTS
  Budget = 4
  Interval = 2
  Batch = 2
  OverSampling = 3
  MaxPending = 1
  Overlap = 1
  NumRollout = 3
  ResampleLimit = 1
  Kinds = {"root", "beam"}
  RequireExhaustion = TRUE
INVARIANTS
  GroupsConserved
  LaneBatchFresh
  PartialResumable
PROPERTIES
  NoTrainingPastBoundary
CHECK_DEADLOCK FALSE
