SPECIFICATION Spec
CONSTANTS
  t1 = t1
  t2 = t2
  k1 = k1
  k2 = k2
  v1 = v1
  v2 = v2
  b1 = b1
  b2 = b2
  b3 = b3
  b4 = b4
  NULL = NULL
  Thread <- MCThread
  Key <- MCKey
  Value <- MCValue
  Block <- MCBlock
  SDBMHash <- MCSDBMHash
  MaxEntries = 2
  MaxCalls = 4
INVARIANTS
  TypeOK
  HashInv
  WorkSeesLiveKeys
  OneEntryPerKey
  KeyCopiesAccountedFor
PROPERTIES
  IsConcurrentMap
SYMMETRY Symmetry
