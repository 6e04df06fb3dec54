SPECIFICATION Spec
CONSTANTS
  s1 = s1
  s2 = s2
  Sample <- MCSample
  KeyOf <- MCKeyOf
  Inserts <- MCInserts
  MaxQueue = 2
  MaxHandlers = 1
INVARIANTS
  SnapshotWhole
  WrittenIsStored
  StopDrains
PROPERTIES
  QueueServed
  StopReturnsUnlessMissed
