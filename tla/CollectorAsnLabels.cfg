CONSTANTS
  a = a  x = x  y = y  eu = eu  us = us  o = o  as1 = as1  as2 = as2  as3 = as3
  NoASN = NoASN  Nil = Nil  Absent = Absent  Unset = Unset
  IP = {a}  XID = {x}  Country = {eu}  Org = {o}  ASN = {as1, as2, as3}
  DecimalRank <- Ranks
  Version = {"4", "other"}  Family = {"ipv4"}
  NumWorkers = 1  NumShards = 1  ShardIndex <- OneShard
  GeoOf <- GeoThree  Frames <- CountedRequests
  HoursPerDay = 2  TicksPerHour = 4
  PendingMax = 1  PendingTTL = 0  PendingSweepEvery = 2  ActiveWindow = 0
  ASNTotalsMax = 3  AsnTopN = 1
  RingSize = 1  MaxFrames = 4  MaxClock = 0  MaxWall = 0  MaxSteps = 0  MaxDrops = 0
SPECIFICATION Spec
INVARIANTS AsnLabelsBounded
