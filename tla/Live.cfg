SPECIFICATION FairSpec
PROPERTIES EveryRequestAnswered LaneDrains EveryTaskEnds
CHECK_DEADLOCK FALSE
