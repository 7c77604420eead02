SPECIFICATION Spec
CONSTANTS
  Account = {a1}
  Worlds <- MCWorlds
  MaxLevel = 2
  MaxRetry = 1
  MaxMove = 3
  MaxFault = 1
  MaxCrash = 1
INVARIANTS
  TypeOK
  NoSpam
PROPERTIES
  OneShot
  AnnouncesUnlessKilled
  ResolvesGone
