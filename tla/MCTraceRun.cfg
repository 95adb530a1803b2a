SPECIFICATION Spec
CONSTANTS
  Prompts = 3
  MaxEvents = 2
  MaxCrashes = 3
INVARIANTS
  FinishedPromptsSurvive
  SummaryCoversEvents
  NothingIsSkipped
PROPERTIES
  LinesAreKept
CHECK_DEADLOCK FALSE
