SPECIFICATION Spec
CONSTANTS
  Threads = {t1, t2}
  Collectors = {c1, c2}
  None = None
  MaxCalls = 2
  MaxFaults = 1
INVARIANTS
  OneTracePerLine
CHECK_DEADLOCK FALSE
