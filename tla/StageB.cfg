SPECIFICATION Spec
CONSTANTS
  Symbol = {s1, s2, s3}
  MaxCandidates = 2
  Retention = 2
  MaxChange = 3
INVARIANTS
  TypeOK
PROPERTIES
  NoneOverstays
  FollowsSelection
