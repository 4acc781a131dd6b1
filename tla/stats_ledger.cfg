SPECIFICATION FairSpec
CONSTANTS
  p1 = p1
  p2 = p2
  f1 = f1
  f2 = f2
  f3 = f3
  k1 = k1
  k2 = k2
  k3 = k3
  NoFile = NoFile
  Keys <- ThreeKeys
  DayOf <- TwoDays
  Parsers <- TwoParsers
  Files <- ThreeFiles
  Records <- ThreeContents
  MaxAborts = 1
INVARIANTS
  TypeOK
  DuplicatesBounded
PROPERTIES
  LedgerSpec
  AllPosted
