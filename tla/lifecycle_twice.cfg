SPECIFICATION Spec
CONSTANTS
  monitor = monitor
  other = other
  MaxTrades = 1
  MaxFaults = 0
  Monitor <- TwoRuns
  Reported <- NoTrade
  Snapshots <- TwoRuns
PROPERTIES FinalisedOnce
CHECK_DEADLOCK FALSE
