SPECIFICATION PusherSpec
CONSTANTS
  Capacity = 2
  MaxSeq = 5
INVARIANTS
  PusherTypeOK
  OldestFirst
  StopDelayBounded
PROPERTIES
  EverySampleAccounted
  OnlyOldestEvicted
  StopEnds
