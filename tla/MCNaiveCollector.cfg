SPECIFICATION FairSpec
CONSTANTS
  Budget = 6
  Interval = 3
  Batch = 2
  MaxPending = 1
  MaxTail = 1
  NumRollout = 4
  ResampleLimit = 1
  RequireExhaustion = TRUE
INVARIANTS
  ExactlyOnce
  FreshBatch
  UpdateConserved
  CheckpointExactlyOnce
  BoundaryResumable
PROPERTIES
  KeepsLedger
  Terminates
