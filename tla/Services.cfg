SPECIFICATION Spec
INVARIANTS QueueWithinLimit RepeatsAreBounded ShownAsStored ChildrenAreOwned
           CallsEnd AnswersAreTakenWhole OneOfEachRuns StreamsAreWhole LogsAreKept
CONSTANTS
  LaneRequests = {"r1", "r2", "r3"}
  NoRequest = "none"
  LaneConfigs <- LaneSettings
  Sessions = {"s1", "s2"}
  Page = 2
  Cap = 4
  ScreenEvents = 8
  MaxSubmits = 2
  MaxSwitches = 2
  GuardedCalls = {"c1", "c2"}
  Slots = {"s1", "s2"}
  GuardConfigs <- GuardSettings
  Files <- FileTexts
  Limits = {1, 2, 3}
  Around = 1
  Query = "a"
  Hunks <- FileHunks
  MaxHunks = 2
  Chunks <- FileChunks
  Commands = {"c1", "c2"}
  Servers = {"s1", "s2"}
  Tools = {"t1", "t2"}
  Narrow = {"t1"}
  McpRuns = {"r1", "r2"}
  MaxEdits = 1
  Top = "top"
  TopAgent = "a"
  Agents = {"a", "b", "c"}
  Calls = {"c1", "c2", "c3"}
  Known = {"a", "b", "c"}
  Provided = {"a", "b", "c"}
  DepthLimit = 2
  MaxParallel = 1
  MaxRequests = 2
  NodeCalls = {"c1", "c2"}
  Absent = "none"
  Providers = {"openai", "anthropic", "gemini", "whole"}
  Transcripts <- Talks
  Pieces = 2
  MaxAttempts = 2
  Names = {"j1", "j2"}
  Configured <- JobLists
  Schedules = {"first", "second"}
  MaxWorkers = 3
  MaxAdds = 2
  MaxChanges = 2
  Kinds = {"run", "live", "tree", "session", "task", "logs"}
  Publishers = {"p1", "p2"}
  MaxEvents = 3
  RawCap = 1
  OutCap = 1
  Ring = 2
  Runtimes = {1, 2}
  MaxBytes = 2
  MaxBackups = 1
  Sizes = {1, 3}
  MaxLines = 5
  MaxFailures = 1
CHECK_DEADLOCK FALSE
