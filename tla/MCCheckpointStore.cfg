SPECIFICATION FairSpec
CONSTANTS
  NumRollout = 4
  SaveInterval = 1
  Retain = 2
  RequireExhaustion = TRUE
  ReleaseSource = TRUE
  MaxLives = 2
INVARIANTS
  ResumePointIntact
  MarkedIsKept
PROPERTIES
  ResumePointNeverFalls
  MarkedIsExported
CHECK_DEADLOCK FALSE
