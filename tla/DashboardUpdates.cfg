SPECIFICATION DashFairSpec
CONSTANTS
  Pages = {m1}
  Sockets = {s1, s2}
  NoPage = NoPage
  EffectRuns = 1
  MaxReconnectAttempts = 1
  MaxMessages = 2
  MaxFaults = 2
CHECK_DEADLOCK FALSE
INVARIANTS
  DashTypeOK
  BehindForAReason
PROPERTIES
  CatchesUp
  Settles
