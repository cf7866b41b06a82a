SPECIFICATION Spec
CONSTANTS
  Thread = {t1, t2}
  Rounds = 2
  Modulus = 11
  Multiplier = 2
  Seed = 1
  Values <- MCValues
  FieldCount = 2
  WriteAllFields = FALSE
  MaxDraws = 2
  Slack = 1
SYMMETRY Symmetry
INVARIANTS
  DrawsTypeOK
  DrawsSerial
  SameOperations
