\* Every fault of the code except the explicit user retry.
SPECIFICATION Spec
CONSTANTS
  Messages = {m1, m2, m3}
  MaxBatches = 3
  MaxEpoch = 2
  MaxUserRetries = 0
  MaxStalls = 1
  TimeoutRetries = 1
  Sweeps = TRUE
  PublishErrors = TRUE
  SyncAnswer = TRUE
SYMMETRY MessageSymmetry
INVARIANTS AtMostOneReply AnswersWholeBatch AdmissionOrder
PROPERTIES PublishedIsFinal
CHECK_DEADLOCK FALSE
