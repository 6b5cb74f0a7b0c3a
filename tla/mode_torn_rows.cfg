SPECIFICATION Spec
CONSTANTS
  p1 = p1
  p2 = p2
  b1 = b1
  c1 = c1
  c2 = c2
  Patch <- TwoPatches
  Wants <- WantPaperAndDemo
  Boot = {}
  Caller <- OneCaller
  PathOf <- RunOnly
  Env <- EnvDemo
  Persisted = "DEMO"
  LiveEnabled = FALSE
  ProductionUrl = FALSE
  MaxFaults = 0
INVARIANTS PersistedPairAgrees
CHECK_DEADLOCK FALSE
