SPECIFICATION Spec
CONSTANTS
  w1 = w1
  w2 = w2
  p1 = p1
  p2 = p2
  a = a
  b = b
  c = c
  d = d
  t1 = t1
  t2 = t2
  none = none
  Worker = {w1, w2}
  Process = {p1, p2}
  Path = {a, b, c}
  TempName = {t1, t2}
  NoTemp = none
  ProcessOf <- TwoProcesses
  InputOf <- ChainInput
  OutputOf <- ChainOutput
  Waits <- ChainWaits
  Configs <- ChainConfigs
  StoredFiles <- ChainStored
  ChunkSize = 2
  MaxFaults = 1
INVARIANTS
  TypeOK
  SuccessIsFaithful
  RoundTrip
  DamagedGivesPrefix
  LateOutput
PROPERTIES
  EveryCallReturns
  ImplementsTransform
CHECK_DEADLOCK FALSE
