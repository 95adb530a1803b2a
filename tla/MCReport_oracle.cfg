SPECIFICATION AnalysisSpec
CONSTANTS
  Pairs <- NoPairs
  x = x
  y = y
  z = z
  None = None
  MinSelected = 20
  Traces <- Forty
  Shuffles <- Rotation
  Totals <- FortyTotals
INVARIANTS
  OracleIsCeiling
CHECK_DEADLOCK FALSE
