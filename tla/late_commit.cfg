SPECIFICATION Spec
CONSTANTS
  w1 = w1
  w2 = w2
  w3 = w3
  f1 = f1
  f2 = f2
  f3 = f3
  NoFile = NoFile
  Workers <- OneWorker
  Files <- OneFile
  Content <- AllGood
  LikeMatches <- ItselfOnly
  MaxFaults <- OnlyLate
INVARIANT NeverTwice
