SPECIFICATION Spec
CONSTANTS
  p1 = p1
  p2 = p2
  b1 = b1
  c1 = c1
  c2 = c2
  Patch <- OnePatch
  Wants <- WantDemo
  Boot = {}
  Caller <- OneCaller
  PathOf <- RunOnly
  Env <- EnvLive
  Persisted = "LIVE"
  LiveEnabled = TRUE
  ProductionUrl = TRUE
  MaxFaults = 0
INVARIANTS VirtualStaysVirtual
CHECK_DEADLOCK FALSE
