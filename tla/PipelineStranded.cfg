SPECIFICATION FairSpec
CONSTANTS
  p1 = p1
  p2 = p2
  t1 = t1
  t2 = t2
  NoSignal = NoSignal
  Signals = {s1}
  Procs = {p1}
  Tasks = {t1}
  ProcOf <- OneTask
  ThrottleDepth = 1
  QueueMax = 2
  MaxConcurrent = 2
  BatchSize = 2
  FaultKinds = {"db"}
  MaxFaults = 1
  MaxMoves = 9
PROPERTIES
  RecoveredOrRetried
