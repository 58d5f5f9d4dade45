SPECIFICATION FairSpec
CONSTANTS
  Messages = {"reply", "nudge"}
  Passive = {"reply"}
  Lines <- MCLines
  Paragraphs <- MCParagraphs
  Media <- MCMedia
  MaxPassiveSends = 4
  MaxAttempts = 2
  Thoughts = TRUE
  LostAnswers = TRUE
  Refusals = TRUE
  Deletable = {"nudge"}
  MaxQueued = 2
  MaxResets = 1
  MaxEpoch = 2
INVARIANTS ClaimsAreSound PassiveNeverTwice ShownAsWritten WithinPassiveBudget
PROPERTIES EveryDeliveryEnds
CHECK_DEADLOCK FALSE
