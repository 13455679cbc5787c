SPECIFICATION Spec
CONSTANTS
  s1 = s1
  s2 = s2
  s3 = s3
  NoSignal = NoSignal
  Signals = {s1, s2, s3}
  Tasks = {t1, t2}
  Threshold = 2
  MaxAttempts = 2
  Rank <- SameRanks
  Expiry = FALSE
  MaxDeliveries = 1
  MaxCloses = 1
  MaxFaults = 0
SYMMETRY SignalAndTaskSymmetry
CHECK_DEADLOCK FALSE
INVARIANTS
  CacheNamesActive
