SPECIFICATION FairSpec
CONSTANTS
  MaxTurns = 4
  MaxAttempts = 2
  MaxAutoSteps = 2
  Batches <- AgentBatches
  Plans <- AgentPlans
  Msg <- ChannelMessages
  Capacity = 1
  MaxEvents = 2
  BindingLists <- RouteBindings
  Fallback = "main"
  Policies = {"ignore"}
  Tasks = {"t1", "t2"}
  IdleTimeout = 2
  Dirs = {1, 2, 3}
  Artifacts = {3}
  Starts <- ProjectStarts
  Contents = {"empty", "plain", "entry", "twin", "bare", "broken"}
  Manifests = {"none", "default", "garbled", "refused", "headers"}
  MaxEdits = 2
  MaxReloads = 2
INVARIANTS RunsSettle RepliesAreFinal OnlyIdleTimesOut PartsAgree
PROPERTY WorkEnds
CHECK_DEADLOCK FALSE
