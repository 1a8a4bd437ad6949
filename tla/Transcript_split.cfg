SPECIFICATION Spec
CONSTANTS Hygiene <- Defaults Projections = {"state_aware"} MaxRecent = 80 Threshold = 80 Limits <- TwoRuns
INVARIANT ResultsFollowCalls
CHECK_DEADLOCK FALSE
