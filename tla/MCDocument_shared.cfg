\* Two writers with one process identity.
CONSTANTS
  None = None
  Writers = {w1, w2}
  Saves = 2
  UniqueNames = FALSE
SPECIFICATION DocSpec
INVARIANTS
  WholeDocument
CHECK_DEADLOCK FALSE
