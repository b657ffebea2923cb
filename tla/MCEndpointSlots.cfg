SPECIFICATION Spec
CONSTANTS
  Endpoints = {1, 2}
  M = 2
  MaxPending = 1
  MaxTail = 1
  Rows = 3
  ProcessWorkers = 2
  MaxTasks = 2
  MaxRollouts = 2
INVARIANTS
  SlotsConserved
  ReleasedIsOver
CHECK_DEADLOCK FALSE
