SPECIFICATION Spec
CONSTANTS
  NFiles = 3
  Kinds = {"pair", "dump", "other"}
  MaxHops = 2
INVARIANT TypeOK NoMapRace AnsweredOnce WholeWhileOpen
CHECK_DEADLOCK FALSE
