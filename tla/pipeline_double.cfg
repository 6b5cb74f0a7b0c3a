CONSTANTS
  q1 = q1
  q2 = q2
  p1 = p1
  p2 = p2
  m1 = m1
  m2 = m2
  v1 = v1
  None = None
  Request = {q1, q2}
  Proposal = {p1}
  Market = {m1}
  Review = {v1}
  ProposalOf <- OneProposalOf
  MarketOf <- OneMarketOf
  PathMixes <- CallAndResumePaths
  MaxOpen = 2
  LossLimit = 3
  PastLosses = 0
  MaxAcks = 0
SPECIFICATION PipelineSpec
PROPERTIES SuccessIsFinal
CHECK_DEADLOCK FALSE
