SPECIFICATION Spec
CONSTANTS
  x = x
  y = y
  z = z
  N = 3
  Unreadable = {3}
  OutName <- Distinct
  MaxFaults = 2
INVARIANTS
  TypeOK
  WorkersKeepTheirData
  ZeroMeansAllSucceeded
  NothingLeftBehind
  SuccessesAreCounted
PROPERTIES
  PoolReturns
  ImplementsTransform
CHECK_DEADLOCK FALSE
