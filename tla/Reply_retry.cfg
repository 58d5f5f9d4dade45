\* Explicit user retries; no crash, no sweep, no error after the barrier.
SPECIFICATION FairSpec
CONSTANTS
  Messages = {m1, m2, m3}
  MaxBatches = 3
  MaxEpoch = 1
  MaxUserRetries = 2
  MaxStalls = 1
  TimeoutRetries = 1
  Sweeps = FALSE
  PublishErrors = FALSE
  SyncAnswer = FALSE
PROPERTIES PublishedIsHandedOver
CHECK_DEADLOCK FALSE
