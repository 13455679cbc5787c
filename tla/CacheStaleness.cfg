SPECIFICATION FairSpec
CONSTANTS
  Readers = {r1, r2}
  Writers = {w1}
  TTL = 2
  MaxRead = 1
  MaxVersion = 2
  MaxFaults = 1
INVARIANTS
  TypeOK
  StaleForAReason
PROPERTIES
  ImplementsListService
  EventuallyFresh
