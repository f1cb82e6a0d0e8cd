\* Two interpretations and two household runs, for two providers.
CONSTANTS
  i1 = i1
  o1 = o1
  mine = mine
  other = other
  Owner = Owner
  None = None
  Providers = {mine, other}
  ProviderOf <- MCProviderOf
  Interpreters = {i1, i2}
  Operators = {o1, o2}
  OwnerKeys = {mine, other}
SPECIFICATION EnvSpec
INVARIANTS
  OwnerRestored
  AgentScoped
  TurnsAreOwners
PROPERTIES
  CallsEnd
CHECK_DEADLOCK FALSE
