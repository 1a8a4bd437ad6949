SPECIFICATION FairSpec
CONSTANTS
  Count = 6
  MaxParallel = 3
INVARIANTS
  WithinLimit
  KeepsBusy
  Ordered
PROPERTIES
  KeepsPromise
  Joins
CHECK_DEADLOCK FALSE
