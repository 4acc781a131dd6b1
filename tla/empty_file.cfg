SPECIFICATION FairSpec
CONSTANTS
  w1 = w1
  w2 = w2
  w3 = w3
  f1 = f1
  f2 = f2
  f3 = f3
  NoFile = NoFile
  Workers <- OneWorker
  Files <- OneFile
  Content <- AllEmpty
  LikeMatches <- ItselfOnly
  MaxFaults <- NoFault
PROPERTY EmptyFinished
