SPECIFICATION Spec
CONSTANTS
  p1 = p1
  p2 = p2
  b1 = b1
  c1 = c1
  c2 = c2
  Patch <- OnePatch
  Wants <- WantDemo
  Boot = {}
  Caller <- OneCaller
  PathOf <- RouteOnly
  Env <- EnvPaper
  Persisted = "PAPER"
  LiveEnabled = FALSE
  ProductionUrl = FALSE
  MaxFaults = 0
INVARIANTS DemoUsesService
CHECK_DEADLOCK FALSE
