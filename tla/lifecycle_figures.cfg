SPECIFICATION Spec
CONSTANTS
  monitor = monitor
  other = other
  MaxTrades = 2
  MaxFaults = 0
  Monitor <- OneMonitor
  Reported <- AllTrades
  Snapshots <- OneMonitor
INVARIANTS NoEarlierPnl
CHECK_DEADLOCK FALSE
