SPECIFICATION Spec
CONSTANTS
  x = x
  y = y
  z = z
  N = 3
  Unreadable = {}
  OutName <- Distinct
  MaxFaults = 1
INVARIANT
  OnlyCreatedAreJoined
CHECK_DEADLOCK FALSE
