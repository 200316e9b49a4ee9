CONSTANTS
  Requests = {r1}
  OutcomeIds = {"o"}
  PolicyIds = {"cfg", "new"}
  Tenants = {"a", "b"}
  Budgets = {0, 1}
  Configured <- MCConfigured
  Long <- MCLong
  None = None
  Torn = Torn
  Lost = Lost
  MaxSaves = 3
  MaxRestarts = 1
SPECIFICATION Spec
CHECK_DEADLOCK FALSE
INVARIANTS
  Reconstructed
