SPECIFICATION FileSpec
CONSTANTS
  None = None
  Numbers = {0, 1}
  MaxLines = 4
INVARIANTS
  CacheSizeIsLoop
PROPERTY
  StableMetrics
CHECK_DEADLOCK FALSE
