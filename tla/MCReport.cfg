SPECIFICATION AnalysisSpec
CONSTANTS
  Pairs <- MCPairs
  x = x
  y = y
  z = z
  None = None
  MinSelected = 2
  Traces <- MCTraces
  Shuffles <- MCShuffles
  Totals <- MCTotals
INVARIANTS
  RowsHoldRuns
  ReturnsLongestRun
  WrongPairings
  RungsNest
  VerdictsMatchRates
  OracleIsCeilingWhenCheap
CHECK_DEADLOCK FALSE
