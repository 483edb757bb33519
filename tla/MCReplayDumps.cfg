SPECIFICATION Spec
CONSTANTS
  NFiles = 2
  Kinds = {"dump", "request", "match"}
  MaxHops = 2
INVARIANT DumpsReplayed
CHECK_DEADLOCK FALSE
