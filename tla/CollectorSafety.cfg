CONSTANTS
  a = a  b = b  c = c  x = x  y = y  eu = eu  us = us  o = o  as1 = as1  as2 = as2  as3 = as3
  NoASN = NoASN  Nil = Nil  Absent = Absent  Unset = Unset
  IP = {a, b, c}  XID = {x, y}  Country = {eu, us}  Org = {o}  ASN = {as1, as2}
  DecimalRank <- Ranks
  Version = {"4", "other"}  Family = {"ipv4"}
  NumWorkers = 2  NumShards = 2  ShardIndex <- TwoShards
  GeoOf <- GeoMoving  Frames <- ScenarioFrames
  HoursPerDay = 2  TicksPerHour = 4
  PendingMax = 1  PendingTTL = 0  PendingSweepEvery = 2  ActiveWindow = 0
  ASNTotalsMax = 1  AsnTopN = 1
  RingSize = 1  MaxFrames = 3  MaxClock = 1  MaxWall = 1  MaxSteps = 1  MaxDrops = 2
SPECIFICATION ScenarioSpec
INVARIANTS TypeOK CountsConserved BreakdownsAgree AsnTotalsSound DropsCoverUnanswered
  SweepNotLost PendingBounded ActiveGaugeSound KernelDropsNotOvercounted
PROPERTIES CountersOnlyGrow
