\* One operation on a file system that can leave the first part of a line.
CONSTANTS
  home = home
  cabin = cabin
  homeToken = homeToken
  homeToken2 = homeToken2
  cabinToken = cabinToken
  None = None
  Issuer <- MCIssuer
  Origins = {home}
  Modes = {https}
  Tokens = {homeToken}
  Admins = {}
  Ops = {o1}
  TrustFaults = FALSE
  TornTails = TRUE
  PowerLoss = FALSE
  JournalLimit = 3
SPECIFICATION Spec
INVARIANTS
  IntentBeforeEffect
CHECK_DEADLOCK FALSE
