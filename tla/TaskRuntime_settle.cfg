SPECIFICATION UnrebuiltSpec
CONSTANTS
  Tasks = {t1, t2}
  Attempts <- TwiceEach
  Rebuilds = 0
  Repeats = 1
SYMMETRY Symmetry
INVARIANTS
  ToldTheRecord
  EndedOnce
  CancelReaches
  RunningIsOwned
  CallbackInvoked
CHECK_DEADLOCK FALSE
