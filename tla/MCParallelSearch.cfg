SPECIFICATION FairSpec
CONSTANTS
  Configs <- MCConfigs
INVARIANTS
  ForkPointAlive
  PolicyDoneIsQuiet
  CompletedIsWhole
PROPERTIES
  EveryRunEnds
CHECK_DEADLOCK FALSE
