SPECIFICATION FairSpec
CONSTANTS
  String <- MCString
  CommandLines <- MCCommandLines
  Dashed <- MCDashed
  Assignment <- MCAssignment
  File <- MCFile
  Bindings <- MCBindings
  Stoi <- MCStoi
  Decimal <- MCDecimal
INVARIANTS
  TypeOK
  AcceptsExactlyOptions
  LastSettingWins
  ResultLineIsNeedle
PROPERTIES
  ParsingEnds
