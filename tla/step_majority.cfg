SPECIFICATION FairSpec
CONSTANTS
  Workflow <- AutoOnly
  Validation <- NotValidation
  Answer <- MCAnswer
  MaxEvents = 1
PROPERTY RecoveredOrderFollowsVote
CHECK_DEADLOCK FALSE
