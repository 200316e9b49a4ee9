CONSTANTS
  Requests = {r1}
  Models = {"big", "small", "mid"}
  Providers = {"p", "q"}
  None = None
  ProviderOf <- MCProviderOf
  Configured = {"p", "q"}
  Config <- MCConfig
  Incumbent = "big"
  Candidates <- MCCandidates
  Fallbacks <- MCFallbacks
  Fits <- MCFits
  Cost <- MCCost
  Budget = 1
  MaxRestarts = 1
SPECIFICATION FairSpec
PROPERTIES
  RequestsEnd
  ShadowsEnd
