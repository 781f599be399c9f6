SPECIFICATION Spec
CONSTANTS
  r1 = r1
  r2 = r2
  t1 = t1
  t2 = t2
  NoName = NoName
  NoFile = NoFile
  Run = {r1, r2}
  Name <- Names
  TempName = {t1, t2}
  Sub = {0, 1, 2}
  ParentSub <- Parents
  Member <- Files
  SubOf <- SubOfFile
  PathOf <- Paths
  Body <- SomeBodies
  ReadBody <- Mixtures
  MaxFaults = 1
  MaxEdits = 1
  Plans <- AllPlans
INVARIANTS
  TypeOK
  PackedIsWhole
  UnpackedIsWhole
  RefusedForCause
  TempsAreCleared
  OperationsDone
PROPERTIES
  InputSurvives
  EveryRunEnds
CHECK_DEADLOCK FALSE
