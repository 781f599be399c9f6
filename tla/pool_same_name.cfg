SPECIFICATION Spec
CONSTANTS
  x = x
  y = y
  z = z
  N = 3
  Unreadable = {}
  OutName <- SameBaseName
  MaxFaults = 0
INVARIANT
  EveryFileHasItsOutput
CHECK_DEADLOCK FALSE
