SPECIFICATION StudySpec
CONSTANTS
  a = a
  b = b
  stop = stop
  NoEvent = NoEvent
  AnyDrafts = AnyDrafts
  Token <- MCToken
  Greedy <- MCGreedy
  Jobs <- MCJobs
  Untied <- MCUntied
  gamma = 3
  MaxLength = 10
  eos <- MCEos
INVARIANTS
  EosCensors
CHECK_DEADLOCK FALSE
