CONSTANTS
  Ids = {d1, d2}
  Traces = {"t1", "t2"}
  Models = {"big", "small"}
  Contents <- MCContents
  Usages <- MCUsages
  Reports <- MCTimedReports
  None = None
  MaxOutcomes = 2
SPECIFICATION Spec
CHECK_DEADLOCK FALSE
INVARIANTS
  LatestWins
