SPECIFICATION Spec
CONSTANTS
  Host = {"a", "b"}
  Score = {0, 1, 3}
  Interval = 1
  Window = 1
  MaxReports = 2
  MaxWait = 7
INVARIANTS
  StatesMatchScores
  AgeBounded
  NoStarvation
  OverviewIsTrue
