SPECIFICATION Spec
CONSTANTS
  p1 = p1
  p2 = p2
  b1 = b1
  c1 = c1
  c2 = c2
  Patch <- OnePatch
  Wants <- WantPaper
  Boot = {}
  Caller <- OneCaller
  PathOf <- RouteOnly
  Env <- EnvDemo
  Persisted = "DEMO"
  LiveEnabled = FALSE
  ProductionUrl = FALSE
  MaxFaults = 0
INVARIANTS PaperNeverReachesService
CHECK_DEADLOCK FALSE
