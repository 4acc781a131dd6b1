SPECIFICATION Spec
CONSTANTS
  p1 = p1
  p2 = p2
  f1 = f1
  f2 = f2
  f3 = f3
  o1 = o1
  o2 = o2
  h1 = h1
  NoFile = NoFile
  NoName = NoName
  Parsers <- TwoParsers
  Files <- ThreeFiles
  Names <- ThreeNames
  KindOf <- TwoTables
  Fields <- Contents
  MaxAborts = 1
  MaxLost = 1
SYMMETRY Symmetry
INVARIANTS
  TypeOK
  RefsAreRows
  OneIdPerFile
  RowsBounded
