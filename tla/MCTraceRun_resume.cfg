SPECIFICATION Spec
CONSTANTS
  Prompts = 2
  MaxEvents = 2
  MaxCrashes = 1
INVARIANTS
  ConcatenatesCleanly
CHECK_DEADLOCK FALSE
