SPECIFICATION FairSpec
CONSTANTS
  p1 = p1
  p2 = p2
  t1 = t1
  t2 = t2
  NoSignal = NoSignal
  Signals = {s1, s2}
  Procs = {p1}
  Tasks = {t1, t2}
  ProcOf <- OneProcess
  ThrottleDepth = 1
  QueueMax = 2
  MaxConcurrent = 2
  BatchSize = 2
  FaultKinds = {"push", "crash", "stop"}
  MaxFaults = 2
  MaxMoves = 9
PROPERTIES
  EventuallySettled
