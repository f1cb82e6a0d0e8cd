\* A household run beside an interpretation by another provider.
CONSTANTS
  i1 = i1
  o1 = o1
  mine = mine
  other = other
  Owner = Owner
  None = None
  Providers = {mine, other}
  ProviderOf <- MCProviderOf
  Interpreters = {i2}
  Operators = {o1}
  OwnerKeys = {mine, other}
SPECIFICATION EnvSpec
INVARIANTS
  RefusalHonest
CHECK_DEADLOCK FALSE
