SPECIFICATION Spec
INVARIANTS RecordsAreTrue NothingLost CallsPaired MemoryIsTrue RequestIsSound
PROPERTIES StateSurvives SettledStays
CHECK_DEADLOCK FALSE
CONSTANTS
  Runs = {"r1", "r2"}
  Followed = "r1"
  RunSessions = {"s1", "s2"}
  Payloads <- RecordedPayloads
  Budgets <- RecorderBudgets
  ChanCap = 1
  LiveTail = 2
  EndTail = 1
  Kinds = {"assistant", "call", "todo"}
  Keeps = {1, 2}
  StoreThreshold = 3
  Archiving = TRUE
  StoreLimits <- StoreBounds
  Hygiene <- HygieneSettings
  Projections = {"recent", "state_aware"}
  MaxRecent = 4
  TalkThreshold = 7
  TalkLimits <- TalkBudgets
  Managers = {"m1", "m2"}
  Ids = {"i"}
  Texts = {"t1"}
  Owner <- OwnerOf
  Sessions = {"s1", "s2"}
  RecallThreshold = 2
  MaxRecalls = 3
  MaxWrites = 2
  Tasks = {"task"}
  Attempts <- TwiceEach
  Rebuilds = 1
  Repeats = 3
