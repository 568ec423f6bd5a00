CONSTANTS
  Workers = 2  Intervals = {1, 2}  SleepFloor = 2  MaxBatch = 2
  Duration = 1  Timeout = 1  WordSize = 8  MaxLag = 0  MaxExtra = 1
SPECIFICATION Spec
INVARIANTS SendsAccounted LossWithinSent NeverAhead SocketsHeld
PROPERTIES RunReturns
