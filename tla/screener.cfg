CONSTANTS
  primary = primary
  secondary = secondary
  auto30 = auto30
  auto15 = auto15
  c1 = c1
  c2 = c2
  Screening = {primary, secondary}
  Coin = {c1, c2}
  Pipeline = {auto30, auto15}
  Target <- MCTarget
  Excludes <- MCExcludes
  MaxDispatch <- MCDispatch
  MaxOpen = 2
  Attempts = 2
  MaxFaults = 1
SPECIFICATION Spec
SYMMETRY CoinSymmetry
INVARIANT OneRunPerCoin
PROPERTY ExclusionHolds
CHECK_DEADLOCK FALSE
