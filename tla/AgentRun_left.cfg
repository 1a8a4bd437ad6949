SPECIFICATION Spec
CONSTANTS
  MaxTurns = 5
  MaxAttempts = 2
  MaxAutoSteps = 2
  Batches <- MCBatches
  Plans <- MCPlans
INVARIANT NothingLeftBehind
CHECK_DEADLOCK FALSE
