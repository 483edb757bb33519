SPECIFICATION Spec
CONSTANTS
  Chunks = 3
INVARIANT TypeOK LeftAsFound AloneIsWhole NotLostTwice
CHECK_DEADLOCK FALSE
