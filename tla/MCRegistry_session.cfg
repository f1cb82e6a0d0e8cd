\* Two commands, or one; every cut of the stream.
CONSTANTS
  Deadline = 2
  Addresses = 2
  CommandCount = 2
  MaxMessages = 6
SPECIFICATION SessionSpec
INVARIANTS
  SessionTypeOK
  StreamWhole
  ResultsBelong
  TokenAsked
  EndsInTime
  SocketsClosed
PROPERTIES
  NothingSentLate
  SessionEnds
CHECK_DEADLOCK FALSE
