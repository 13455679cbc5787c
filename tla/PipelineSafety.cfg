SPECIFICATION Spec
CONSTANTS
  p1 = p1
  p2 = p2
  t1 = t1
  t2 = t2
  NoSignal = NoSignal
  Signals = {s1, s2, s3}
  Procs = {p1, p2}
  Tasks = {t1, t2}
  ProcOf <- TwoProcesses
  ThrottleDepth = 1
  QueueMax = 2
  MaxConcurrent = 2
  BatchSize = 2
  FaultKinds = {"db", "redis", "push", "crash", "stop"}
  MaxFaults = 2
  MaxMoves = 2
SYMMETRY SignalAndProcessSymmetry
CHECK_DEADLOCK FALSE
INVARIANTS
  TypeOK
  NoSignalLost
  NoMultiplication
  AdmissionBound
  OverCountingBounded
  StrandedByFailure
PROPERTIES
  AckOnlyHandled
  ImplementsDelivery
