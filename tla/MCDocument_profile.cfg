CONSTANTS
  None = None
  Writers = {w1, w2}
  Saves = 2
  UniqueNames = TRUE
SPECIFICATION ProfileSpec
INVARIANTS
  ProfileTypeOK
  WholeDocument
  SuccessIsStored
  NoLitter
  UpdatesCompose
SYMMETRY Interchangeable
CHECK_DEADLOCK FALSE
