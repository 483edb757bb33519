SPECIFICATION Spec
CONSTANTS
  NFiles = 2
  Exchanges <- SomeExchanges
  Apis = {"h1"}
  MaxRuns = 3
  Kill = TRUE
  Removes = TRUE
INVARIANTS TypeOK SumOfTheRuns PanicExplained
CHECK_DEADLOCK FALSE
