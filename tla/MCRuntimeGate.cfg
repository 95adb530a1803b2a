SPECIFICATION Spec
CONSTANTS
  a = a
  b = b
  None = None
  Token <- MCToken
  Greedy <- MCGreedy
  Untied <- MCUntied
  Requests <- MCRequests
INVARIANTS
  GateNeverFails
PROPERTIES
  RuntimesImplementPromise
CHECK_DEADLOCK FALSE
