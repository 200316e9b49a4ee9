CONSTANTS
  Ids = {d1, d2, d3}
  Traces = {"t1", "t2"}
  Models = {"big", "small"}
  Contents <- MCContents
  Usages <- MCUsages
  Reports <- MCReports
  None = None
  MaxOutcomes = 2
SPECIFICATION Spec
SYMMETRY Symmetry
CHECK_DEADLOCK FALSE
INVARIANTS
  TypeOK
  OrderIrrelevant
  CountedOncePerTrace
  CostsConserved
  EvaluatorAgrees
  LabelsExplained
