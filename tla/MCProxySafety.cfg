SPECIFICATION Spec
CONSTANTS
  Sessions = {s1, s2}
  MaxRequests = 3
  Options <- SafetyOptions
  Encodings = {"br", "br;q=1"}
  QueueCap = 1
  MaxSent = 6
  ElasticAddr = FALSE
  KafkaAddr = FALSE
  OutputFolder = TRUE
  OutputFormat = "jsonl"
  DumpRequest = FALSE
  DumpResponse = FALSE
  MaxSize = 0
  Faults = {}
SYMMETRY SessionSymmetry
INVARIANT TypeOK VerdictOfItsExchange FiledUnderItsExchange PairsLogged ResponseClosesFile
CHECK_DEADLOCK FALSE
