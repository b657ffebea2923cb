SPECIFICATION PoolFairSpec
CONSTANTS
  t1 = t1
  t2 = t2
  v1 = v1
  NoCall = NoCall
  Calls = {t1, t2, v1}
  Validations = {v1}
  MaxBreaks = 3
INVARIANTS
  OneLivePool
PROPERTIES
  EveryCallReturns
