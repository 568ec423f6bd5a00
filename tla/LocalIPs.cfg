CONSTANTS
  we = we  wd = wd  client = client  server = server  t1 = t1  t2 = t2  w1 = w1  w2 = w2
  None = None  Nil = Nil
  Addr = {we, wd, client, server}  Port = {123, 1024}
  Timestamp = {t1, t2}  Worker = {w1, w2}
  Interval = 2  Hosts <- HostLists  Frames <- Exchanges  Wire <- OnTheWire
  MaxClock = 3  MaxChanges = 1  MaxParseErrors = 1
SPECIFICATION Spec
SYMMETRY WorkerSymmetry
INVARIANTS UpstreamNotCounted FilterAgrees
PROPERTIES ListKept
