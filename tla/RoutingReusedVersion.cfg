CONSTANTS
  Models = {"big", "mid", "small"}
  Catalog <- MCCatalog
  Listings <- MCWhole
  Providers = {"p", "q"}
  Policies <- MCReused
  Initial <- Base
  Requests <- MCRequests
  Traces = {"t1", "t2", "t3"}
  Versions = {"v1", "v2"}
  Buckets = 100
  Hash <- MCHash
  None = None
SPECIFICATION Spec
PROPERTIES
  HoldoutSticky
