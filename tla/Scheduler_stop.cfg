SPECIFICATION FairSpec
CONSTANTS Names = {"j1"} Configured <- NoneOrOne Schedules = {"first", "second"} MaxWorkers = 2 MaxAdds = 1 MaxChanges = 0
PROPERTY StopEnds
CHECK_DEADLOCK FALSE
