CONSTANTS
  Requests = {r1, r2}
  Models = {"big", "small", "mid"}
  Providers = {"p", "q"}
  None = None
  ProviderOf <- MCProviderOf
  Configured = {"p", "q"}
  Config <- MCConfig
  Incumbent = "big"
  Candidates <- MCCandidates
  Fallbacks <- MCFallbacks
  Fits <- MCFits
  Cost <- MCCost
  Budget = 0
  MaxRestarts = 1
SPECIFICATION Spec
SYMMETRY Symmetry
INVARIANTS
  TypeOK
  LedgerAccountsForCalls
  FallbackOrder
PROPERTIES
  CallsStop
  TrailSpec
  ClientSpec
