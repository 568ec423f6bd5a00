SPECIFICATION Spec
CONSTANTS
  MaxRenewals = 2
  MaxFaults = 1
INVARIANT
  TermReachesChronyd
PROPERTIES
  StopEnds
  RenewalLoaded
  ServiceRestored
CHECK_DEADLOCK FALSE
