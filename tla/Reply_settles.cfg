\* Liveness and refinement under every fault of the code.
SPECIFICATION FairSpec
CONSTANTS
  Messages = {m1, m2}
  MaxBatches = 2
  MaxEpoch = 2
  MaxUserRetries = 0
  MaxStalls = 1
  TimeoutRetries = 1
  Sweeps = TRUE
  PublishErrors = TRUE
  SyncAnswer = TRUE
PROPERTIES
  EveryMessageSettles ImplementsConversation
CHECK_DEADLOCK FALSE
