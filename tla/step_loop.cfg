SPECIFICATION FairSpec
CONSTANTS
  Workflow <- MCWorkflow
  Validation <- MCValidation
  Answer <- MCAnswer
  MaxEvents = 2
INVARIANT TypeOK
INVARIANT ValidationOnlyPlacesNoOrder
INVARIANT OrdersAreAccounted
INVARIANT NoStepTwice
PROPERTY UndisturbedOrderFollowsVote
PROPERTY WorkerStops
CHECK_DEADLOCK FALSE
