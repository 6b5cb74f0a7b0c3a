SPECIFICATION Spec
CONSTANTS
  Symbols = {btc, eth}
  NBeats = 2
  Period = 2
  MaxGap = 2
  KeyTTL = 3
  MaxAge = 1
  RequiredTicks = 2
  HardLimit = 1
  Horizon = 3
  MaxFaults = 0
  NoSymbol = NoSymbol
PROPERTY FreshReadyIsNotStale
CHECK_DEADLOCK FALSE
