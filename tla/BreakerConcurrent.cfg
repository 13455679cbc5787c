SPECIFICATION FairSpec
CONSTANTS
  Callers = {c1, c2}
  Threshold = 2
  HalfOpenMax = 1
  Recovery = 1
  Grace = 2
  CallTicks = 1
  Interrupts = TRUE
INVARIANTS
  TypeOK
  ProbesBounded
PROPERTIES
  OpenEnds
  CooldownCutByLate
