SPECIFICATION FairSpec
CONSTANTS
  Workflow <- HumanOnly
  Validation <- NotValidation
  Answer <- MCAnswer
  MaxEvents = 2
INVARIANT ApprovalPassesOneGate
CHECK_DEADLOCK FALSE
