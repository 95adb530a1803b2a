SPECIFICATION StudySpec
CONSTANTS
  a = a
  b = b
  stop = stop
  NoEvent = NoEvent
  AnyDrafts = AnyDrafts
  Token <- MCToken
  Greedy <- MCGreedy
  Jobs <- MCJobs
  Untied <- MCUntied
  gamma = 3
  MaxLength = 10
  eos <- MCEos
INVARIANTS
  CacheInvariant
  OutputIsGreedy
  SurvivalIsFree
  CensoredOnlyAtOpenEnd
  HorizonSuffices
  FreshIsTheDraft
  FreshCensoredOnlyAtStop
  CountersAccountForResult
  SelfTestNeverRejects
  ChecksAreQuiet
PROPERTIES
  FollowsPromptLoop
  FollowsDraftSession
  Terminates
CHECK_DEADLOCK FALSE
