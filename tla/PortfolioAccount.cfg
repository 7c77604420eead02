SPECIFICATION Spec
CONSTANTS
  MaxRequest = 2
  Stream = {"futures"}
  MaxWorld = 1
  MaxFault = 1
  MaxLeave = 1
INVARIANTS
  TypeOK
  FreshIsWhole
PROPERTIES
  ReadingsAdvance
  Converges
  StreamsFollowKey
CHECK_DEADLOCK FALSE
