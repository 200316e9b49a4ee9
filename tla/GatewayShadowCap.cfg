CONSTANTS
  Requests = {r1, r2}
  Models = {"big", "small", "tiny"}
  Providers = {"p", "q", "x"}
  None = None
  ProviderOf <- MCShadowProviderOf
  Configured = {"p", "q"}
  Config <- MCConfig
  Incumbent = "big"
  Candidates <- MCShadowCandidates
  Fallbacks <- MCNoFallbacks
  Fits <- MCShadowFits
  Cost <- MCShadowCost
  Budget = 1
  MaxRestarts = 1
SPECIFICATION Spec
SYMMETRY Symmetry
INVARIANTS
  DailyShadowCap
