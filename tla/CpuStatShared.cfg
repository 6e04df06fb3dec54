SPECIFICATION Spec
CONSTANTS
  Field = {"header", "cpu0", "cpu1"}
  Header = "header"
  SeqModulus = 6
  Retries = 2
  Reread = TRUE
  MaxSamples = 4
INVARIANTS
  NoTornSnapshot
PROPERTIES
  SnapshotIsCurrent
  LiveRegionStaysMapped
  UpdateEnds
