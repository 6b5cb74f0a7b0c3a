SPECIFICATION FairSpec
CONSTANTS
  Workflow <- AutoOnly
  Validation <- MCValidation
  Answer <- MCAnswer
  MaxEvents = 2
INVARIANT ValidationOnlyBlocksExecution
CHECK_DEADLOCK FALSE
