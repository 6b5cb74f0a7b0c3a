CONSTANTS
  q1 = q1
  q2 = q2
  p1 = p1
  p2 = p2
  m1 = m1
  m2 = m2
  v1 = v1
  None = None
  Request = {q1}
  Proposal = {p1}
  Market = {m1}
  Review = {v1}
  ProposalOf <- LoneProposalOf
  MarketOf <- OneMarketOf
  PathMixes <- ResumePaths
  MaxOpen = 1
  LossLimit = 3
  PastLosses = 0
  MaxAcks = 0
SPECIFICATION PipelineSpec
PROPERTIES RejectionStands
CHECK_DEADLOCK FALSE
