SPECIFICATION Spec
CONSTANTS
  Ids = {a}
  QueueCap = 1
  MaxSent = 2
  ElasticAddr = FALSE
  KafkaAddr = TRUE
  OutputFolder = TRUE
  OutputFormat = "jsonl"
  DumpRequest = FALSE
  DumpResponse = FALSE
  MaxSize = 0
  Faults = {}
INVARIANT ExportsCarryData
CHECK_DEADLOCK FALSE
