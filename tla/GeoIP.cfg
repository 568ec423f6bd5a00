CONSTANTS
  w1 = w1  w2 = w2  a = a  None = None  Absent = Absent
  Worker = {w1, w2}  IP = {a}
  ReopenCheckInterval = 1  CacheSize = 1
  MaxClock = 1  MaxVersion = 2  MaxRemovals = 1
SPECIFICATION FairSpec
INVARIANTS LookupUndisturbed StaleBounded
PROPERTIES ChecksSpaced NewFileNoticed
