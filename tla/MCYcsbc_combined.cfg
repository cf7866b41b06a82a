SPECIFICATION Spec
CONSTANTS
  Word = 16
  RecordCount = 3
  OperationCount = 4
  InsertStart = 0
  Proportion <- NoDelete
  RequestDist = "zipfian"
  FieldLenDist = "constant"
  FieldLength = 1
  OrderedInserts = TRUE
  Hash <- MCHash
  Throwing = {}
  NumClients = 3
  Command <- ThreeThreads
INVARIANTS
  TypeOK
  IInv
  FuturesMatchThreads
  SequenceKeysDistinct
  InsertsAreNew
  KeysAccountedFor
  RecordsLoaded
  TransactionsHit
  LoadReportIsTrue
  RunReportIsTrue
PROPERTIES
  PhasesDoNotOverlap
