CONSTANTS
  a = a  x = x  y = y  eu = eu  us = us  o = o  as1 = as1  as2 = as2  as3 = as3
  NoASN = NoASN  Nil = Nil  Absent = Absent  Unset = Unset
  IP = {a}  XID = {x}  Country = {eu}  Org = {o}  ASN = {as1}
  DecimalRank <- Ranks
  Version = {"4", "other"}  Family = {"ipv4"}
  NumWorkers = 2  NumShards = 2  ShardIndex <- LastShard
  GeoOf <- GeoFixed  Frames <- PairedFrames
  HoursPerDay = 2  TicksPerHour = 4
  PendingMax = 1  PendingTTL = 0  PendingSweepEvery = 3  ActiveWindow = 0
  ASNTotalsMax = 1  AsnTopN = 1
  RingSize = 1  MaxFrames = 2  MaxClock = 1  MaxWall = 0  MaxSteps = 0  MaxDrops = 0
SPECIFICATION FairSpec
PROPERTIES RequestsEventuallyPublished ExpiredEntriesLeave
