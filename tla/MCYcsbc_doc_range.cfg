SPECIFICATION Spec
CONSTANTS
  Word = 16
  RecordCount = 4
  OperationCount = 4
  InsertStart = 0
  Proportion <- WorkloadD
  RequestDist = "latest"
  FieldLenDist = "constant"
  FieldLength = 1
  OrderedInserts = TRUE
  Hash <- MCHash
  Throwing = {}
  NumClients = 2
  Command <- LoadAndRun
INVARIANTS
  InsertsGrowTheKeyRange
