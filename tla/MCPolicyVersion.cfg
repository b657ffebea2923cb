SPECIFICATION PolicySpec
CONSTANTS
  e1 = e1
  e2 = e2
  w1 = w1
  w2 = w2
  Engines = {e1, e2}
  Rollouts = {w1, w2}
  NumRollout = 4
  MaxLives = 2
SYMMETRY Symmetry
INVARIANTS
  CommittedIsServed
  AcceptedGroupIsPure
CHECK_DEADLOCK FALSE
