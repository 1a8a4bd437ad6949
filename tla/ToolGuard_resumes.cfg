SPECIFICATION Spec
CONSTANTS
  Calls = {c1, c2}
  Slots = {s1}
  Configs <- LongConfigs
INVARIANT BlockedStaysBlocked
CHECK_DEADLOCK FALSE
