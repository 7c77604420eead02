SPECIFICATION Spec
CONSTANTS
  Account = {a1}
  Worlds <- MCWorlds
  MaxLevel = 2
  MaxRetry = 1
  MaxMove = 3
  MaxFault = 0
  MaxCrash = 0
PROPERTIES
  MilestoneTold
