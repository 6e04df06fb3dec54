SPECIFICATION SamplingSpec
CONSTANTS
  Round = 2
  Startup = 1
  MaxTime = 8
  TicksPerSecond = 2
  Word = 32
  Printed = 16
INVARIANTS
  NextIsFresh
  DiskDeltaExact
  WholeSecondsSuffice
CHECK_DEADLOCK FALSE
