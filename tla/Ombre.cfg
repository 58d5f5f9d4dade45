SPECIFICATION FairMemorySpec
CONSTANTS
  Batches <- MCBatches
  MaxTries = 2
  MaxRounds = 2
  MaxRetries <- MCRetries
  MaxEpoch = 2
INVARIANTS RecordsAreTrue
PROPERTIES EveryCommitEnds
CHECK_DEADLOCK FALSE
