SPECIFICATION FairSpec
CONSTANTS
  Tasks <- MCTasks
  Pictured = {"v1"}
  Persona = {"v2"}
  Chat = {"v1"}
  MaxActive = 1
  MaxStepFailures = 2
  MaxEpoch = 2
INVARIANTS ChainUnbroken SpokenOnce BilledBounded
PROPERTIES OutcomeIsFinal EveryTaskSettles
CHECK_DEADLOCK FALSE
