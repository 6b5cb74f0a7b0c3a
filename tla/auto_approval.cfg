SPECIFICATION Spec
CONSTANTS
  Symbols = {btc, eth}
  NBeats = 3
  Period = 2
  MaxGap = 2
  KeyTTL = 3
  MaxAge = 1
  RequiredTicks = 2
  HardLimit = 1
  Horizon = 4
  MaxFaults = 1
  NoSymbol = NoSymbol
SYMMETRY SymbolPermutations
INVARIANTS TypeOK CountIsWitnessed StreakSpanBounded ConfirmedByAnother
CHECK_DEADLOCK FALSE
