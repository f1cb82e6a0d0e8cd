\* Two operations that share a journal which fills up while they run, on any
\* configuration that earlier commands left behind.
CONSTANTS
  home = home
  cabin = cabin
  homeToken = homeToken
  homeToken2 = homeToken2
  cabinToken = cabinToken
  None = None
  Issuer <- MCIssuer
  Origins = {home}
  Modes = {https}
  Tokens = {homeToken}
  Admins = {}
  Ops = {o1, o2}
  TrustFaults = FALSE
  TornTails = FALSE
  PowerLoss = TRUE
  JournalLimit = 1
SPECIFICATION Spec
INVARIANTS
  JournalBounded
  JournalTruth
  AnswersHonest
PROPERTIES
  ImplementsContract
  Terminates
CHECK_DEADLOCK FALSE
