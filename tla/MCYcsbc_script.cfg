SPECIFICATION FairSpec
CONSTANTS
  Word = 16
  RecordCount = 4
  OperationCount = 3
  InsertStart = 0
  Proportion <- Everything
  RequestDist = "zipfian"
  FieldLenDist = "uniform"
  FieldLength = 2
  OrderedInserts = FALSE
  Hash <- MCHash
  Throwing = {}
  NumClients = 2
  Command <- Script
PROPERTIES
  LoadsThenRuns
  Termination
