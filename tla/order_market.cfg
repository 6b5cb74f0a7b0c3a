CONSTANTS
  r1 = r1
  r2 = r2
  p1 = p1
  p2 = p2
  m1 = m1
  m2 = m2
  v1 = v1
  v2 = v2
  None = None
  Request = {r1, r2}
  Proposal = {p1, p2}
  Market = {m1}
  Review = {v1, v2}
  ProposalOf <- EachProposalOf
  MarketOf <- SharedMarketOf
  MaxOpen = 2
  LossLimit = 1
  PastLosses = 0
  MaxAcks = 1
SPECIFICATION Spec
SYMMETRY ReviewSymmetry
INVARIANTS OneOpenPerMarket
CHECK_DEADLOCK FALSE
