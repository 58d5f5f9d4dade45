SPECIFICATION FairSpec
CONSTANTS
  Media = {"m1"}
  Uploads = {"m1"}
  Counted = {"message"}
  Kinds = {"message"}
  MaxOps = 3
  MaxEpoch = 2
INVARIANTS FilesAreThere
PROPERTIES ReferencesSurvive CleanupComesThrough
CHECK_DEADLOCK FALSE
