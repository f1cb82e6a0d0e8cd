\* One command; a write of the trust file can fail.
CONSTANTS
  home = home
  cabin = cabin
  homeToken = homeToken
  homeToken2 = homeToken2
  cabinToken = cabinToken
  None = None
  Issuer <- MCIssuer
  Origins = {home}
  Modes = {https}
  Tokens = {homeToken}
  Admins = {a1}
  TrustFaults = TRUE
SPECIFICATION LocalSpec
INVARIANTS
  RevocationHolds
CHECK_DEADLOCK FALSE
