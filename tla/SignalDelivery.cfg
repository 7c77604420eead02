SPECIFICATION DeliverySpec
CONSTANTS
  Symbol = {s1}
  User = {u1}
  Shadow = FALSE
  MaxRetry = 1
  Moves = {"LONG"}
  MaxRow = 1
  MaxFault = 2
  MaxCleanup = 0
  MaxCrash = 0
INVARIANTS
  DeliveryTypeOK
  ChatSettles
PROPERTIES
  OneThread
  EveryDeliveryEnds
