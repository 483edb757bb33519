SPECIFICATION FairSpec
CONSTANTS
  MaxChunks = 1
  Timeout = 1
  HTTPProxy = FALSE
  Cloned = TRUE
  Results = {"bytes", "error"}
PROPERTY TimeoutCloses
CHECK_DEADLOCK FALSE
