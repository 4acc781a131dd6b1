SPECIFICATION SupSpec
CONSTANTS
  w1 = w1
  w2 = w2
  w3 = w3
  f1 = f1
  NoFile = NoFile
  Workers <- ThreeWorkers
  Files <- OneFile
  Content <- AllGood
  LikeMatches <- ItselfOnly
  MaxFaults <- OnceEach
  MaxSlips = 1
  MaxStrays = 1
SYMMETRY Symmetry
INVARIANTS
  SupTypeOK
  OneScript
  SupervisedLosesNothing
