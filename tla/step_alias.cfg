SPECIFICATION FairSpec
CONSTANTS
  Workflow <- AutoOnly
  Validation <- NotValidation
  Answer <- FullAnswer
  MaxEvents = 1
INVARIANT GateReadsRepaired
CHECK_DEADLOCK FALSE
