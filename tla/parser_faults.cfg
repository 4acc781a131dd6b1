SPECIFICATION Spec
CONSTANTS
  w1 = w1
  w2 = w2
  w3 = w3
  f1 = f1
  f2 = f2
  f3 = f3
  NoFile = NoFile
  Workers <- ThreeWorkers
  Files <- OneFile
  Content <- AllGood
  LikeMatches <- ItselfOnly
  MaxFaults <- AllFaults
SYMMETRY Symmetry
INVARIANTS
  TypeOK
  AtomicLoad
  OneHolder
  SemaphoresHeld
  AtMostOnce
  ZeroMeansLoaded
PROPERTY
  OnceSpec
  OnlyBusyLoses
