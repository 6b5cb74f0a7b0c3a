SPECIFICATION FairSpec
CONSTANTS
  p1 = p1
  p2 = p2
  b1 = b1
  c1 = c1
  c2 = c2
  Patch <- TwoPatches
  Wants <- WantPaperAndDemo
  Boot <- OneBoot
  Caller <- TwoCallers
  PathOf <- RouteAndRun
  Env <- EnvDemo
  Persisted = "DEMO"
  LiveEnabled = FALSE
  ProductionUrl = FALSE
  MaxFaults = 1
INVARIANTS TypeOK RedisFollowsRows
PROPERTIES PaperStopsTheTool PatchesEnd
CHECK_DEADLOCK FALSE
