SPECIFICATION Spec
CONSTANTS
  Interface = {1}
  Process = {2, 3, 4}
  NumCpus = 2
  MaxEntries = 2
  MaxTraffic = 3
INVARIANTS
  Conservation
  ReportedOnce
  BaselineValid
  HooksPaired
PROPERTIES
  WalkVisitsOnce
  EntriesReclaimed
