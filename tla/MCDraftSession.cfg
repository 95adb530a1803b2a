SPECIFICATION Spec
CONSTANTS
  a = a
  b = b
  stop = stop
  Token <- MCToken
  Greedy <- MCGreedy
  Models <- MCModels
  Prompts <- MCPrompts
  eos <- MCEos
  gamma = 2
  MaxLength = 4
  MaxPrompts = 2
INVARIANTS
  CacheIsCommittedPrefix
  FeedsOnlyNewTokens
  DraftMatchesUncached
CHECK_DEADLOCK FALSE
