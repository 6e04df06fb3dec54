SPECIFICATION HistorySpec
CONSTANTS
  walker = walker
  other = other
  Sample = {1, 2, 3}
  TimeOf <- MCTimeOf
  Tables <- MCTables
  Batch = 1
  MaxTime = 2
  Client = {walker, other}
  Walker = walker
  Pages = {0, 6}
  PageSize = 1
  IntRange = 8
INVARIANTS
  HalvesAreExpired
  EventCleansAll
  AnswerIsOneSnapshot
  LivingRowsSeen
