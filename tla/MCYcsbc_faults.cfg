SPECIFICATION Spec
CONSTANTS
  Word = 16
  RecordCount = 4
  OperationCount = 4
  InsertStart = 14
  Proportion <- ReadScanDelete
  RequestDist = "latest"
  FieldLenDist = "constant"
  FieldLength = 1
  OrderedInserts = TRUE
  Hash <- MCHash
  Throwing <- AnyThrow
  NumClients = 2
  Command <- LoadAndRun
INVARIANTS
  LoadReportIsTrue
PROPERTIES
  RunOnlyShrinks
