SPECIFICATION FairSpec
CONSTANTS
  Types = {"qq.deliver", "memory.extract", "future.analyze", "maintenance", "life.tick", "world.extract"}
  Registered = {"qq.deliver", "memory.extract", "future.analyze", "maintenance", "life.tick"}
  Lanes <- MCLanes
  LaneOf <- MCLaneOf
  Concurrency <- MCConcurrency
  Priority <- MCPriority
  MaxAttempts <- MCMaxAttempts
  Retryable = {"qq.deliver", "memory.extract", "future.analyze", "maintenance", "life.tick"}
  AbortMode = {"qq.deliver"}
  Deferred = {"maintenance"}
  Clearable = {"memory.extract"}
  Hanging = {"qq.deliver", "maintenance"}
  Throwing = {"qq.deliver", "memory.extract", "future.analyze"}
  Transactions <- TurnOrSingle
  MaxJobs = 3
  MaxEpoch = 2
INVARIANTS ClaimsAreKept ExtractionGoesFirst
PROPERTIES SettledStaysSettled EveryJobSettles
CHECK_DEADLOCK FALSE
