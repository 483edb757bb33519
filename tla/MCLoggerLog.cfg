SPECIFICATION FairSpec
CONSTANTS
  Ids = {a}
  QueueCap = 1
  MaxSent = 2
  ElasticAddr = FALSE
  KafkaAddr = TRUE
  OutputFolder = FALSE
  OutputFormat = "yaml"
  DumpRequest = FALSE
  DumpResponse = FALSE
  MaxSize = 1
  Faults = {"new", "dump", "fill", "marshal", "save", "retry", "halt"}
INVARIANT TypeOK InSubmissionOrder EvenHanded
PROPERTY StructuredFrozen ExportedEventually CloseDrains KeepsThePromise
CHECK_DEADLOCK FALSE
