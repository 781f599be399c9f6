SPECIFICATION Spec
CONSTANTS
  w1 = w1
  w2 = w2
  p1 = p1
  p2 = p2
  a = a
  b = b
  c = c
  d = d
  t1 = t1
  t2 = t2
  none = none
  Worker = {w1, w2}
  Process = {p1}
  Path = {a, b, c, d}
  TempName = {t1, t2}
  NoTemp = none
  ProcessOf <- OneProcess
  InputOf <- PoolInput
  OutputOf <- PoolOutput
  Waits <- NoWaits
  Configs <- PoolConfigs
  StoredFiles <- PoolStored
  ChunkSize = 2
  MaxFaults = 1
INVARIANTS
  TempsAccountedFor
  RefusalLeavesOutput
PROPERTIES
  SourceIsStable
CHECK_DEADLOCK FALSE
