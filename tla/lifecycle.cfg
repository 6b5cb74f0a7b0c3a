SPECIFICATION FairSpec
CONSTANTS
  monitor = monitor
  other = other
  MaxTrades = 2
  MaxFaults = 1
  Monitor <- TwoRuns
  Reported <- NoTrade
  Snapshots <- OneMonitor
INVARIANTS TypeOK ClosedIsFlat NoOrphanOrders
PROPERTIES LiveStopKept FlatRowsClose
CHECK_DEADLOCK FALSE
