SPECIFICATION Spec
CONSTANTS
  Capacity = 1
  MaxSeq = 2
  Worker = "a"
  Host = {"a"}
  NumFields = 1
  Call = {c1, c2}
  MaxFaults = 2
  MaxQueue = 1
  Table <- MCTable
INVARIANTS
  AckedIsTracked
PROPERTY ReplayCompletes
