SPECIFICATION Spec
CONSTANTS
  Pages = {m1}
  Sockets = {s1, s2, s3, s4}
  NoPage = NoPage
  EffectRuns = 2
  MaxReconnectAttempts = 1
  MaxMessages = 2
  MaxFaults = 2
SYMMETRY Symmetry
CHECK_DEADLOCK FALSE
INVARIANTS
  TypeOK
  InOrder
  PassedOverBounded
  OneChain
