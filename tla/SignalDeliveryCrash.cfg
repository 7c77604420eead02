SPECIFICATION DeliverySpec
CONSTANTS
  Symbol = {s1}
  User = {u1}
  Shadow = FALSE
  MaxRetry = 1
  Moves = {"LONG"}
  MaxRow = 1
  MaxFault = 0
  MaxCleanup = 0
  MaxCrash = 1
PROPERTIES
  EveryDeliveryEnds
