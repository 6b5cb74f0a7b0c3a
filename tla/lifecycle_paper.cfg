SPECIFICATION Spec
CONSTANTS
  monitor = monitor
  other = other
  MaxTrades = 2
  MaxFaults = 1
  Monitor <- OneMonitor
  Reported <- NoTrade
  Snapshots <- OneMonitor
INVARIANTS NeverClosedLive
CHECK_DEADLOCK FALSE
