SPECIFICATION FairSpec
CONSTANTS
  w1 = w1
  w2 = w2
  w3 = w3
  f1 = f1
  f2 = f2
  f3 = f3
  NoFile = NoFile
  Workers <- OneWorker
  Files <- ThreeFiles
  Content <- OneOfEach
  LikeMatches <- ItselfOnly
  MaxFaults <- Unsignalled
INVARIANTS
  NothingLost
  ZeroMeansLoaded
  OnlyWholeFiles
PROPERTY Handled
