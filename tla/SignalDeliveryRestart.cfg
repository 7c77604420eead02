SPECIFICATION DeliverySpec
CONSTANTS
  Symbol = {s1}
  User = {u1}
  Shadow = FALSE
  MaxRetry = 0
  Moves = {"LONG"}
  MaxRow = 1
  MaxFault = 0
  MaxCleanup = 1
  MaxCrash = 1
INVARIANTS
  ClosingIsShown
