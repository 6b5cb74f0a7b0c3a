CONSTANTS
  q1 = q1
  q2 = q2
  p1 = p1
  p2 = p2
  m1 = m1
  m2 = m2
  v1 = v1
  None = None
  Request = {q1, q2}
  Proposal = {p1}
  Market = {m1}
  Review = {v1}
  ProposalOf <- OneProposalOf
  MarketOf <- OneMarketOf
  PathMixes <- MixedPaths
  MaxOpen = 1
  LossLimit = 1
  PastLosses = 1
  MaxAcks = 1
SPECIFICATION PipelineFairSpec
INVARIANTS PipelineTypeOK OneSuccessPerProposal OpenIsProtected ExposureIsRecorded
PROPERTIES RetryTradesNothingTwice DeliveriesEnd
CHECK_DEADLOCK FALSE
