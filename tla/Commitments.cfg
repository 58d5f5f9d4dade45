SPECIFICATION FairCommitmentsSpec
CONSTANTS
  NMessages = 2
  Topics = {"exam"}
  Mentions <- MCMentions
  MaxNoted = 1
  MaxRows = 3
  MaxTries = 2
  MaxIncarnations = 2
INVARIANTS HistoryIsKept DoneMeansAnalyzed
PROPERTIES NotSilenced EveryPlanEnds
CHECK_DEADLOCK FALSE
