SPECIFICATION FairSpec
CONSTANTS
  DatasetSize = 3
  Budget = 7
  Interval = 2
  Defer = FALSE
INVARIANTS
  BoundariesExact
  SamePromptAfterRestart
  BoundaryCanBeScheduled
  DrainReachesCursor
PROPERTIES
  NoReplayedValidation
  ScheduledIsAcknowledged
