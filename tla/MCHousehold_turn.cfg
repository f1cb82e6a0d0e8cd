CONSTANTS
  None = None
  remoteOn = remoteOn
  lightOn = lightOn
  Mutations = {remoteOn, lightOn}
  Remote = {remoteOn}
  Routines <- MCRoutines
  MaxToolCalls = 3
  Widths = {1, 2}
  MaxCalls = 4
SPECIFICATION TurnSpec
INVARIANTS
  TurnTypeOK
  NeverRepeated
  ResultHonest
PROPERTIES
  FailureStops
  IncompleteStops
  TurnEnds
CHECK_DEADLOCK FALSE
