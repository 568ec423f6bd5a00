SPECIFICATION Spec
CONSTANTS
  MaxRenewals = 1
  MaxFaults = 0
INVARIANT
  RaceClosed
CHECK_DEADLOCK FALSE
