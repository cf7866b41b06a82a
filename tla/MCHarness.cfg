SPECIFICATION LogFairSpec
CONSTANTS
  splitlsm = splitlsm
  unifiedlsm = unifiedlsm
  misspelt = misspelt
  workloada = workloada
  Db <- MCDb
  File <- MCFile
  Target <- MCTarget
  Targets <- MCTargets
  Threads <- MCThreads
  Known <- MCKnown
  MaxStops = 2
INVARIANTS
  HInv
  LoggedOnce
  DatabaseIsAccountedFor
  LostResultsBounded
  DoneMeansLogged
  GrepFindsLog
  ParserReadsResults
  PlotsComplete
PROPERTIES
  Completion
