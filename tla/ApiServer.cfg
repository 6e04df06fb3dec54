SPECIFICATION ApiSpec
CONSTANTS
  k1 = k1
  k2 = k2
  r1 = r1
  r2 = r2
  Sample = {1, 2}
  TimeOf <- MCTimeOf
  Tables <- MCTables
  Batch = 1
  MaxTime = 2
  Request = {r1, r2}
  Connection = {k1, k2}
  Recent = 1
  Limit = 1
SYMMETRY Interchangeable
INVARIANTS
  PoolIsKept
  AnswerIsFresh
