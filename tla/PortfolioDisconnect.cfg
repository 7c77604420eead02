SPECIFICATION Spec
CONSTANTS
  Stream = {"futures"}
  MaxRequest = 1
  MaxWorld = 1
  MaxFault = 1
  MaxLeave = 1
PROPERTIES
  StaysDisconnected
CHECK_DEADLOCK FALSE
