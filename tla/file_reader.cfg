SPECIFICATION Spec
CONSTANTS
  Inputs <- MCInputs
  Cut <- MCCut
  NumberOf <- MCNumberOf
  MaxLine = 7
  MaxLong = 500
  MaxColumn = 100
INVARIANTS
  TypeOK
  WholeBeforeUse
  RecordsAsWritten
  ListHonoured
  KeyFound
PROPERTY
  VerdictSpec
