SPECIFICATION Spec
CONSTANTS
  r1 = r1
  r2 = r2
  f1 = f1
  f2 = f2
  f3 = f3
  Runs <- TwoRuns
  Files <- ThreeFiles
  DayOf <- Dates
  Age = 1
  LastDay = 2
SYMMETRY Symmetry
INVARIANTS
  TypeOK
  Kept
PROPERTY
  RemoteGrows
