SPECIFICATION Spec
CONSTANTS
  Events = 2
  Plans = {9}
  Window = 1
  MaxUnanswered = 1
  MaxAttempts = 3
  MaxEpoch = 2
INVARIANTS LifeSharedOnce QueueIsSound
PROPERTIES YieldsToUser
CHECK_DEADLOCK FALSE
