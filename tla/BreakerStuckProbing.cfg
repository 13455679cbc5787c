SPECIFICATION FairSpec
CONSTANTS
  Callers = {c1}
  Threshold = 2
  HalfOpenMax = 2
  Recovery = 1
  Grace = 2
  CallTicks = 0
  Interrupts = FALSE
PROPERTIES
  ProbingEnds
