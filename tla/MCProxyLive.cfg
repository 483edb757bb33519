SPECIFICATION FairSpec
CONSTANTS
  Sessions = {s1, s2}
  MaxRequests = 2
  Options <- LiveOptions
  Encodings = {}
  QueueCap = 1
  MaxSent = 4
  ElasticAddr = FALSE
  KafkaAddr = FALSE
  OutputFolder = TRUE
  OutputFormat = ""
  DumpRequest = FALSE
  DumpResponse = FALSE
  MaxSize = 1
  Faults = {"dump", "save", "halt"}
INVARIANT DumpsInOrder
PROPERTY HooksReturn
CHECK_DEADLOCK FALSE
