CONSTANTS
  Models = {"big", "mid", "small"}
  Catalog <- MCCatalog
  Listings <- MCNoIncumbent
  Providers = {"p", "q"}
  Policies <- MCModest
  Initial <- MCModestPolicy
  Requests <- MCNormalRisk
  Traces = {"t1", "t2", "t3"}
  Versions = {"v1", "v2"}
  Buckets = 100
  Hash <- MCHash
  None = None
SPECIFICATION Spec
INVARIANTS
  NonInferior
