SPECIFICATION Spec
CONSTANTS
  Sessions = {s1}
  MaxRequests = 1
  Options <- FilterOptions
  Encodings = {}
  QueueCap = 1
  MaxSent = 2
  ElasticAddr = FALSE
  KafkaAddr = FALSE
  OutputFolder = TRUE
  OutputFormat = ""
  DumpRequest = FALSE
  DumpResponse = FALSE
  MaxSize = 0
  Faults = {}
INVARIANT TaggedIfEither
CHECK_DEADLOCK FALSE
