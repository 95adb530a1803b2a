SPECIFICATION DecoderSpec
CONSTANTS
  a = a
  b = b
  None = None
  Token <- MCToken
  Greedy <- MCGreedy
  Configs <- MCConfigs
  Calls <- MCCalls
  Untied <- MCUntied
  Requests <- MCRequests
INVARIANTS
  TypeOK
  Exact
  ReuseIsExtraTokens
  BlockFitsBudget
  WorkAccounting
  MaxStepsSuffices
  TracesAccountForResult
  MeasurementPredictsReuse
PROPERTIES
  ImplementsPromise
  Terminates
CHECK_DEADLOCK FALSE
