SPECIFICATION FairSpec
CONSTANTS
  MaxChunks = 2
  Timeout = 1
  HTTPProxy = TRUE
  Cloned = FALSE
  Results = {"bytes", "error", "other"}
INVARIANT TypeOK FaithfulStream ReportIsSound AtMostOneLeaks
PROPERTY ErrorClosesBoth TimeoutCloses
CHECK_DEADLOCK FALSE
