CONSTANTS
  Calls = {c1, c2, c3}
  Providers = {"p", "q"}
  Configs <- MCConfigs
  Idle = Idle
SPECIFICATION FairSpec
INVARIANTS
  TypeOK
  OpenJustified
  LateFailuresBounded
PROPERTIES
  Recovers
