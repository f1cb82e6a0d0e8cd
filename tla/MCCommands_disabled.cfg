\* Nothing changes at home while a selector is looked up.
CONSTANTS
  homeOrigin = homeOrigin
  cabin = cabin
  homeToken = homeToken
  homeToken2 = homeToken2
  cabinToken = cabinToken
  None = None
  lamp = lamp
  plug = plug
  group = group
  cluster = cluster
  Invalid = Invalid
  Issuer <- MCIssuer
  Origins = {homeOrigin, cabin}
  Modes = {https}
  Tokens = {homeToken, homeToken2, cabinToken}
  Admins = {a1, a2}
  TrustFaults = FALSE
  Entities = {lamp, plug, group, cluster}
  Groups = {group, cluster}
  Inspected = {group, cluster}
  Script = lamp
  Domain <- MCDomain
  Rank <- MCRank
  Looks <- MCLooks
  Shade <- MCShade
  Code <- MCCode
  Documents <- MCDocuments
  Limit = 1
  MaxTargets = 2
  MaxChanges = 0
SPECIFICATION MCSpec
INVARIANT
  DisabledLeftOut
CHECK_DEADLOCK FALSE
