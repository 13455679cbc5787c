SPECIFICATION FairSpec
CONSTANTS
  Requests = {1, 2, 3, 4}
  Durations <- IncidentMinutes
  Submissions <- Workload
  MaxAttempts = 2
CHECK_DEADLOCK FALSE
INVARIANTS
  TypeOK
  ClosedHasRca
  HistoryIsTrail
  TransitionAppliedOnce
  OkIsTrue
  RcaRowsBounded
PROPERTIES
  ClosedIsFinal
  EveryRequestAnswered
