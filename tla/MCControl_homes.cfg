\* One operation while one command reconfigures two homes. Trust writes fail,
\* and the journal can end in a torn line.
CONSTANTS
  home = home
  cabin = cabin
  homeToken = homeToken
  homeToken2 = homeToken2
  cabinToken = cabinToken
  None = None
  Issuer <- MCIssuer
  Origins = {home, cabin}
  Modes = {https}
  Tokens = {homeToken, homeToken2, cabinToken}
  Admins = {a1}
  Ops = {o1}
  TrustFaults = TRUE
  TornTails = TRUE
  PowerLoss = FALSE
  JournalLimit = 3
SPECIFICATION Spec
INVARIANTS
  TypeOK
  CredentialScoped
  PostAuthorised
CHECK_DEADLOCK FALSE
