SPECIFICATION Spec
CONSTANTS
  Word = 16
  RecordCount = 4
  OperationCount = 4
  InsertStart = 0
  Proportion <- WorkloadA
  RequestDist = "zipfian"
  FieldLenDist = "zipfian"
  FieldLength = 2
  OrderedInserts = TRUE
  Hash <- MCHash
  Throwing = {}
  NumClients = 2
  Command <- LoadAndRun
INVARIANTS
  FieldsHaveMinimumLength
