SPECIFICATION Spec
CONSTANTS
  Scenario = {s1, s2}
  Handler = {h1, h2}
  Plans <- OnePlan
  MaxCandle = 2
  MaxCallback = 3
  Symbol = {1, 2}
  Callback = {c1}
  MaxSymbol = 2
  MaxCall = 3
  MaxBreak = 2
  Person = {u1, u2, u3}
  Admin = {u3}
  Visit = {v1, v2}
  Link = {k1}
  Post = {r1, r2}
  MaxUses = 2
  MaxRestart = 1
  QueueSize = 4
  BatchSize = 2
  FileSize = 3
  MaxEvent = 8
  Signal = {1, 2, 3}
  Batch = 2
  Hour = 3
  MaxRefusal = 2
  Request = {q1, q2}
  Weights = {1, 3}
  Capacity = 5
  Rate = 2
  Attempts = 2
  Screen = {p1, p2}
  MaxMessage = 3
INVARIANTS
  TypeOK
  OneActive
  CandleOnce
  InviteCounted
  OneConnectPerLink
  RecordingWhole
  BudgetKept
  KeyboardStays
PROPERTIES
  NoRevival
  WaitersReleased
  MonitorConverges
  OutcomesEnd
CHECK_DEADLOCK FALSE
