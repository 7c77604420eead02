SPECIFICATION FairSpec
CONSTANTS
  Symbol = {s1}
  Candidates <- MCCandidates
  ConfirmHold = 2
  WeakHold = 2
  EarlyHold = 1
  ConfirmedMax = 2
  RearmTime = 1
  CooldownTime = 2
  StageCRequired = TRUE
INVARIANTS
  TypeOK
  ExclusiveDirections
  NoStaleTimers
PROPERTIES
  HeldBeforeConfirm
  QuietPeriod
  KeepsLifecycle
  ConfirmedEnds
