SPECIFICATION Spec
CONSTANTS
  s1 = s1
  s2 = s2
  s3 = s3
  NoSignal = NoSignal
  Signals = {s1, s2, s3}
  Tasks = {t1, t2}
  Threshold = 2
  MaxAttempts = 2
  Rank <- MixedRanks
  Expiry = TRUE
  MaxDeliveries = 1
  MaxCloses = 1
  MaxFaults = 1
SYMMETRY EarlySymmetry
CHECK_DEADLOCK FALSE
INVARIANTS
  TypeOK
  NothingUncounted
  SeverityCovers
  CountedTwiceBounded
  OpenersFinish
PROPERTIES
  ImplementsLedger
