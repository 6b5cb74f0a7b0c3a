CONSTANTS
  q1 = q1
  q2 = q2
  p1 = p1
  p2 = p2
  m1 = m1
  m2 = m2
  v1 = v1
  None = None
  Request = {q1, q2}
  Proposal = {p1, p2}
  Market = {m1, m2}
  Review = {}
  ProposalOf <- EachProposalOf
  MarketOf <- TwoMarketOf
  PathMixes <- AutoPaths
  MaxOpen = 2
  LossLimit = 0
  PastLosses = 0
  MaxAcks = 1
SPECIFICATION PipelineSpec
INVARIANTS OneTradePerAck
CHECK_DEADLOCK FALSE
