---------------------------- MODULE SketchProofs ----------------------------
(***************************************************************************)
(* For every hash function, every number of registers and hours and every  *)
(* interleaving, the registers the collector keeps are those of the sets   *)
(* of keys HourlyWindow keeps in their place. The argument: adding a key   *)
(* to a sketch of S gives a sketch of S and the key, and merging sketches  *)
(* of S and T gives a sketch of their union.                               *)
(* Then the window: bucket by bucket, the ring holds the clients of the    *)
(* last day, for any length of the day and any hours without traffic.      *)
(***************************************************************************)
EXTENDS SketchWindow, FiniteSetTheorems, TLAPS

Sketch == [Index -> Int]

(* Add compares ranks: Rho(k) is a number.                                 *)
LEMMA RhoInt == \A k : Rho(k) \in Int
<1> SUFFICES ASSUME NEW k PROVE Rho(k) \in Int
  OBVIOUS
<1> DEFINE S == {n \in 0 .. HashBits - 1 : LowBits(k) >= 2 ^ n}
<1>1. IsFiniteSet(0 .. HashBits - 1)
  BY HllAssumption, FS_Interval, SMT
<1>2. Cardinality(S) \in Nat
  BY <1>1, FS_Subset, FS_CardinalityType, Zenon
<1>3. Bits \in Int
  BY HllAssumption DEF Bits
<1> QED
  BY <1>2, <1>3 DEF Rho, Len64

(* HyperLogLog.New is the sketch of no key.                                *)
LEMMA NewRepresents == NewSketch \in Sketch /\ Represents(NewSketch, {})
  BY DEF NewSketch, Sketch, Represents

(* HyperLogLog.Add: the sketch of the keys so far becomes that of the keys *)
(* so far and the new one.                                                 *)
LEMMA AddRepresents ==
  ASSUME NEW r \in Sketch, NEW S, NEW k, Represents(r, S)
  PROVE  AddKey(r, k) \in Sketch /\ Represents(AddKey(r, k), S \union {k})
<1> DEFINE q == AddKey(r, k)
<1>1. q \in Sketch /\ \A i \in Index :
        q[i] = IF i = IndexOf(k) /\ Rho(k) > r[i] THEN Rho(k) ELSE r[i]
  BY RhoInt, Zenon DEF AddKey, Sketch
<1>2. \A l \in S \union {k} : IndexOf(l) \in Index => Rho(l) <= q[IndexOf(l)]
  <2> SUFFICES ASSUME NEW l \in S \union {k}, IndexOf(l) \in Index
               PROVE  Rho(l) <= q[IndexOf(l)]
    OBVIOUS
  <2>1. Rho(l) \in Int /\ Rho(k) \in Int /\ r[IndexOf(l)] \in Int
    BY RhoInt DEF Sketch
  <2>2. l \in S => Rho(l) <= r[IndexOf(l)]
    BY DEF Represents
  <2> HIDE DEF q
  <2> QED
    BY <1>1, <2>1, <2>2
<1>3. ASSUME NEW i \in Index
      PROVE  q[i] = 0 \/ \E l \in S \union {k} : IndexOf(l) = i /\ Rho(l) = q[i]
  <2> HIDE DEF q
  <2>1. r[i] = 0 \/ \E l \in S : IndexOf(l) = i /\ Rho(l) = r[i]
    BY DEF Represents
  <2> QED
    BY <1>1, <2>1
<1> QED
  BY <1>1, <1>2, <1>3 DEF Represents

(* HyperLogLog.Merge: the sketch of a union.                               *)
LEMMA MergeSketchRepresents ==
  ASSUME NEW r \in Sketch, NEW s \in Sketch, NEW S, NEW T,
         Represents(r, S), Represents(s, T)
  PROVE  /\ MergeSketch(r, s) \in Sketch
         /\ Represents(MergeSketch(r, s), S \union T)
<1> DEFINE q == MergeSketch(r, s)
<1>1. q \in Sketch /\ \A i \in Index : q[i] = IF s[i] > r[i] THEN s[i] ELSE r[i]
  BY DEF MergeSketch, Sketch
<1>2. \A l \in S \union T : IndexOf(l) \in Index => Rho(l) <= q[IndexOf(l)]
  <2> SUFFICES ASSUME NEW l \in S \union T, IndexOf(l) \in Index
               PROVE  Rho(l) <= q[IndexOf(l)]
    OBVIOUS
  <2>1. Rho(l) \in Int /\ r[IndexOf(l)] \in Int /\ s[IndexOf(l)] \in Int
    BY RhoInt DEF Sketch
  <2>2. (l \in S => Rho(l) <= r[IndexOf(l)]) /\ (l \in T => Rho(l) <= s[IndexOf(l)])
    BY DEF Represents
  <2> HIDE DEF q
  <2> QED
    BY <1>1, <2>1, <2>2
<1>3. ASSUME NEW i \in Index
      PROVE  q[i] = 0 \/ \E l \in S \union T : IndexOf(l) = i /\ Rho(l) = q[i]
  <2> HIDE DEF q
  <2>1. /\ r[i] = 0 \/ \E l \in S : IndexOf(l) = i /\ Rho(l) = r[i]
        /\ s[i] = 0 \/ \E l \in T : IndexOf(l) = i /\ Rho(l) = s[i]
    BY DEF Represents
  <2> QED
    BY <1>1, <2>1
<1> QED
  BY <1>1, <1>2, <1>3 DEF Represents

(* A set of keys has one sketch: the estimate depends on which clients     *)
(* came, and not on how often, in which order or through which bucket.     *)
THEOREM SketchUnique ==
  ASSUME NEW r \in Sketch, NEW s \in Sketch, NEW S,
         Represents(r, S), Represents(s, S),
         \A i \in Index : r[i] >= 0 /\ s[i] >= 0
  PROVE  r = s
<1>1. ASSUME NEW i \in Index PROVE r[i] = s[i]
  <2>1. r[i] \in Int /\ s[i] \in Int
    BY DEF Sketch
  <2>2. r[i] = 0 \/ r[i] <= s[i]
    BY <1>1 DEF Represents
  <2>3. s[i] = 0 \/ s[i] <= r[i]
    BY <1>1 DEF Represents
  <2> QED
    BY <2>1, <2>2, <2>3
<1> QED
  BY <1>1 DEF Sketch
-----------------------------------------------------------------------------
SketchType ==
  /\ time \in Int /\ step \in Int /\ hour \in Hours \union {Unset}
  /\ hourly \in [Hours -> SUBSET IP] /\ cloned \in [Hours -> SUBSET IP]
  /\ sketch \in [Hours -> Sketch] /\ snapshot \in [Hours -> Sketch]
  /\ merged \in Sketch /\ at \in Idle .. HoursPerDay

(* The merge so far is the sketch of the clones before at.                 *)
MergedSoFar ==
  at # Idle => Represents(merged, UNION {cloned[h] : h \in 0 .. at - 1})

ClonesRepresent == \A h \in Hours : Represents(snapshot[h], cloned[h])

SketchInv ==
  SketchType /\ SketchesRepresent /\ ClonesRepresent /\ MergedSoFar

(* The hour of the wall clock is an hour of the ring.                      *)
LEMMA WallHourType == ASSUME time \in Int, step \in Int PROVE WallHour \in Hours
<1> DEFINE t == time + step
<1>1. t \in Int /\ HoursPerDay \in Nat \ {0}
  BY RingAssumption
<1> HIDE DEF t
<1>2. t % HoursPerDay \in 0 .. HoursPerDay - 1
  BY <1>1
<1> QED
  BY <1>2 DEF t, WallHour, Hours

(* currentBucketLocked does the same to the sketches and to the sets.      *)
LEMMA RollRepresents ==
  ASSUME SketchType, SketchesRepresent
  PROVE  LET keys == Rolled(hourly, hour, WallHour) IN
         /\ keys \in [Hours -> SUBSET IP] /\ RolledSketches \in [Hours -> Sketch]
         /\ \A h \in Hours : Represents(RolledSketches[h], keys[h])
<1>1. CASE hour = Unset \/ hour = WallHour
  BY <1>1 DEF Rolled, RolledSketches, SketchType, SketchesRepresent
<1>2. CASE ~ (hour = Unset \/ hour = WallHour)
  <2>1. Rolled(hourly, hour, WallHour) =
          [h \in Hours |-> IF h \in Entered(hour, WallHour) THEN {} ELSE hourly[h]]
    BY <1>2 DEF Rolled
  <2>2. RolledSketches =
          [h \in Hours |->
             IF h \in Entered(hour, WallHour) THEN NewSketch ELSE sketch[h]]
    BY <1>2 DEF RolledSketches
  <2> QED
    BY <2>1, <2>2, NewRepresents DEF SketchType, SketchesRepresent
<1> QED
  BY <1>1, <1>2

LEMMA SketchInitInv == SketchInit => SketchInv
<1> SUFFICES ASSUME SketchInit PROVE SketchInv
  OBVIOUS
<1>1. HoursPerDay \in Nat
  BY RingAssumption
<1>2. SketchType
  BY <1>1, NewRepresents
     DEF SketchInit, Init, SketchType, NewRing, EmptyRing, Idle
<1>3. SketchesRepresent /\ ClonesRepresent
  BY NewRepresents
     DEF SketchInit, Init, SketchesRepresent, ClonesRepresent, NewRing, EmptyRing
<1> QED
  BY <1>2, <1>3 DEF SketchInit, SketchInv, MergedSoFar

LEMMA SketchStep == SketchInv /\ [SketchNext]_sketchVars => SketchInv'
<1> SUFFICES ASSUME SketchInv, [SketchNext]_sketchVars PROVE SketchInv'
  OBVIOUS
<1> USE DEF SketchInv
<1>h. HoursPerDay \in Nat \ {0} /\ WallHour \in Hours
  BY RingAssumption, WallHourType DEF SketchType
<1>r. /\ Rolled(hourly, hour, WallHour) \in [Hours -> SUBSET IP]
      /\ RolledSketches \in [Hours -> Sketch]
      /\ \A h \in Hours :
           Represents(RolledSketches[h], Rolled(hourly, hour, WallHour)[h])
  BY RollRepresents
<1>1. ASSUME NEW ip \in IP, AddClient(ip) PROVE SketchInv'
  <2> DEFINE keys == Rolled(hourly, hour, WallHour)
             regs == RolledSketches
  <2>1. /\ keys \in [Hours -> SUBSET IP] /\ regs \in [Hours -> Sketch]
        /\ \A h \in Hours : Represents(regs[h], keys[h])
    BY <1>r
  <2>2. /\ hourly' = [keys EXCEPT ![WallHour] = @ \union {ip}]
        /\ sketch' = [regs EXCEPT ![WallHour] = AddKey(@, ip)]
        /\ hour' = WallHour
        /\ UNCHANGED <<time, step, snapshot, cloned, merged, at>>
    BY <1>1 DEF AddClient, Add, Added, mergeVars
  <2> HIDE DEF keys, regs
  <2>3. /\ AddKey(regs[WallHour], ip) \in Sketch
        /\ Represents(AddKey(regs[WallHour], ip), keys[WallHour] \union {ip})
    BY <1>h, <2>1, AddRepresents
  <2>4. SketchType'
    BY <1>h, <2>1, <2>2, <2>3 DEF SketchType
  <2>5. SketchesRepresent'
    BY <1>h, <2>1, <2>2, <2>3 DEF SketchesRepresent
  <2>6. ClonesRepresent' /\ MergedSoFar'
    BY <2>2 DEF ClonesRepresent, MergedSoFar
  <2> QED
    BY <2>4, <2>5, <2>6
<1>2. CASE CloneRing
  <2>1. /\ hourly' = Rolled(hourly, hour, WallHour) /\ hour' = WallHour
        /\ sketch' = RolledSketches /\ snapshot' = sketch' /\ cloned' = hourly'
        /\ merged' = NewSketch /\ at' = 0 /\ UNCHANGED <<time, step>>
    BY <1>2 DEF CloneRing, Clone
  <2>2. SketchType'
    BY <1>h, <1>r, <2>1, NewRepresents DEF SketchType, Idle
  <2>3. SketchesRepresent' /\ ClonesRepresent'
    BY <1>r, <2>1 DEF SketchesRepresent, ClonesRepresent
  <2>4. UNION {cloned'[h] : h \in 0 .. at' - 1} = {}
    BY <2>1
  <2> QED
    BY <2>1, <2>2, <2>3, <2>4, NewRepresents, Zenon DEF MergedSoFar
<1>3. CASE MergeNext
  <2>1. /\ at \in Hours /\ at' = at + 1
        /\ merged' = MergeSketch(merged, snapshot[at])
        /\ UNCHANGED <<time, step, hour, hourly, sketch, snapshot, cloned>>
    BY <1>3 DEF MergeNext, vars
  <2> DEFINE before == UNION {cloned[h] : h \in 0 .. at - 1}
  <2>2. at # Idle /\ at \in Nat /\ at' \in 0 .. HoursPerDay
    BY <1>h, <2>1 DEF Hours, Idle
  <2>3. Represents(merged, before) /\ Represents(snapshot[at], cloned[at])
    BY <2>1, <2>2 DEF MergedSoFar, ClonesRepresent
  <2>4. /\ merged' \in Sketch
        /\ Represents(merged', before \union cloned[at])
    <3> HIDE DEF before
    <3> QED
      BY <2>1, <2>3, MergeSketchRepresents DEF SketchType
  <2>5. UNION {cloned'[h] : h \in 0 .. at' - 1} = before \union cloned[at]
    <3>1. 0 .. at' - 1 = (0 .. at - 1) \union {at}
      BY <2>1, <2>2
    <3> QED
      BY <2>1, <3>1
  <2>6. SketchType'
    BY <1>h, <2>1, <2>2, <2>4 DEF SketchType, Idle
  <2>7. SketchesRepresent' /\ ClonesRepresent'
    BY <2>1 DEF SketchesRepresent, ClonesRepresent
  <2>8. MergedSoFar'
    BY <2>4, <2>5, Zenon DEF MergedSoFar
  <2> QED
    BY <2>6, <2>7, <2>8
<1>4. CASE Publish
  <2>1. /\ snapshot' = NewRing /\ cloned' = EmptyRing /\ merged' = NewSketch
        /\ at' = Idle /\ UNCHANGED <<time, step, hour, hourly, sketch>>
    BY <1>4 DEF Publish, vars
  <2>2. SketchType'
    BY <1>h, <2>1, NewRepresents DEF SketchType, NewRing, EmptyRing, Idle
  <2>3. SketchesRepresent' /\ ClonesRepresent'
    BY <2>1, NewRepresents
       DEF SketchesRepresent, ClonesRepresent, NewRing, EmptyRing
  <2> QED
    BY <2>1, <2>2, <2>3 DEF MergedSoFar
<1>5. CASE TimePasses
  <2>1. /\ time' \in Int /\ step' \in Int
        /\ UNCHANGED <<hour, hourly, sketch, snapshot, cloned, merged, at>>
    BY <1>5, WindowAssumption
       DEF TimePasses, Pass, SetClock, SketchType, mergeVars
  <2> QED
    BY <2>1 DEF SketchType, SketchesRepresent, ClonesRepresent, MergedSoFar
<1>6. CASE UNCHANGED sketchVars
  BY <1>6 DEF sketchVars, vars, mergeVars, SketchType, SketchesRepresent,
              ClonesRepresent, MergedSoFar
<1> QED
  BY <1>1, <1>2, <1>3, <1>4, <1>5, <1>6 DEF SketchNext

LEMMA SketchInvariance == SketchSpec => []SketchInv
<1> QED
  BY SketchInitInv, SketchStep, PTL DEF SketchSpec

(* hll.go:50-82, aggregate.go:148-165: SketchesRepresent, for any hash     *)
(* function, precision, number of clients and ring.                        *)
THEOREM SketchesRepresentAlways == SketchSpec => []SketchesRepresent
<1>1. SketchInv => SketchesRepresent
  BY DEF SketchInv
<1> QED
  BY <1>1, SketchInvariance, PTL

(* aggregate.go:374-391: MergeRepresents, what Flush publishes is the      *)
(* sketch of the ring at one instant.                                      *)
THEOREM MergeRepresentsAlways == SketchSpec => []MergeRepresents
<1>1. SketchInv => MergeRepresents
  <2> SUFFICES ASSUME SketchInv, at = HoursPerDay
               PROVE  Represents(merged, MergedKeys(cloned))
    BY DEF MergeRepresents
  <2>1. at # Idle
    BY RingAssumption DEF Idle
  <2>2. UNION {cloned[h] : h \in 0 .. at - 1} = MergedKeys(cloned)
    BY DEF MergedKeys, Hours
  <2> QED
    BY <2>1, <2>2 DEF SketchInv, MergedSoFar
<1> QED
  BY <1>1, SketchInvariance, PTL
-----------------------------------------------------------------------------
(* Arithmetic of the ring: a remainder is what it is, and hours less than  *)
(* a day apart have buckets of their own.                                  *)
LEMMA AtLeastOnce ==
  ASSUME NEW m \in Nat \ {0}, NEW k \in Int PROVE k >= 1 => k * m >= m
OBVIOUS

LEMMA Quotient ==
  ASSUME NEW m \in Nat \ {0}, NEW a \in Int
  PROVE  /\ a % m \in 0 .. m - 1
         /\ \E q \in Int : a = q * m + (a % m)
<1>1. a % m \in 0 .. m - 1 /\ a \div m \in Int /\ a = m * (a \div m) + (a % m)
  OBVIOUS
<1>2. m * (a \div m) = (a \div m) * m
  BY <1>1
<1> QED
  BY <1>1, <1>2, Zenon

LEMMA Remainder ==
  ASSUME NEW m \in Nat \ {0}, NEW a \in Int, NEW q \in Int, NEW r \in 0 .. m - 1,
         a = q * m + r
  PROVE  a % m = r
<1>1. PICK p \in Int : a = p * m + (a % m)
  BY Quotient, Zenon
<1> DEFINE s == a % m
<1>2. s \in 0 .. m - 1 /\ a = p * m + s
  BY <1>1, Quotient
<1> HIDE DEF s
<1>3. (q - p) * m = s - r /\ (p - q) * m = r - s
  BY <1>2
<1>4. ~ (q - p >= 1) /\ ~ (p - q >= 1)
  <2>1. q - p >= 1 => (q - p) * m >= m
    BY AtLeastOnce
  <2>2. p - q >= 1 => (p - q) * m >= m
    BY AtLeastOnce
  <2> QED
    BY <1>2, <1>3, <2>1, <2>2
<1>5. q = p
  BY <1>4
<1> QED
  BY <1>2, <1>5 DEF s

(* The hours passed since an hour shown on the clock, if less than a day.  *)
LEMMA HoursBetween ==
  ASSUME NEW m \in Nat \ {0}, NEW a \in Int, NEW k \in 0 .. m - 1
  PROVE  (((a + k) % m) - (a % m)) % m = k
<1>1. PICK p \in Int : a = p * m + (a % m)
  BY Quotient, Zenon
<1>0. a + k \in Int
  OBVIOUS
<1>2. PICK q \in Int : a + k = q * m + ((a + k) % m)
  BY <1>0, Quotient, Zenon
<1> DEFINE r == a % m
           s == (a + k) % m
<1>3. r \in 0 .. m - 1 /\ s \in 0 .. m - 1
  BY Quotient
<1>4. a = p * m + r /\ a + k = q * m + s
  BY <1>1, <1>2
<1> HIDE DEF r, s
<1>5. s - r = (p - q) * m + k
  BY <1>3, <1>4
<1>6. (s - r) % m = k
  BY <1>3, <1>5, Remainder
<1> QED
  BY <1>6 DEF r, s

LEMMA HoursLater ==
  ASSUME NEW m \in Nat \ {0}, NEW a \in Int, NEW i \in Int
  PROVE  ((a % m) + i) % m = (a + i) % m
<1> DEFINE r == a % m
<1>1. PICK p \in Int : a = p * m + r
  BY Quotient, Zenon
<1>2. r \in 0 .. m - 1
  BY Quotient
<1> HIDE DEF r
<1> DEFINE s == (r + i) % m
<1>0. r + i \in Int
  BY <1>2
<1>3. PICK q \in Int : r + i = q * m + s
  BY <1>0, Quotient, Zenon
<1>4. s \in 0 .. m - 1
  BY <1>0, Quotient, Zenon
<1> HIDE DEF s
<1>5. a + i = (p + q) * m + s /\ a + i \in Int /\ p + q \in Int
  BY <1>1, <1>2, <1>3, <1>4
<1>6. (a + i) % m = s
  BY <1>4, <1>5, Remainder, Zenon
<1> QED
  BY <1>6 DEF r, s

LEMMA HoursApart ==
  ASSUME NEW m \in Nat \ {0}, NEW a \in Int, NEW k \in 0 .. m - 1,
         (a + k) % m = a % m
  PROVE  k = 0
<1> DEFINE r == a % m
<1>1. (((a + k) % m) - (a % m)) % m = k
  BY HoursBetween, Zenon
<1>2. r \in 0 .. m - 1
  BY Quotient
<1>3. (r - r) % m = k
  BY <1>1
<1> HIDE DEF r
<1>4. 0 = 0 * m + 0 /\ 0 \in 0 .. m - 1
  OBVIOUS
<1>5. 0 % m = 0
  BY <1>4, Remainder
<1>6. r - r = 0
  BY <1>2
<1> QED
  BY <1>3, <1>5, <1>6

(* Every bucket is that of some hour of the last day.                      *)
LEMMA HoursCover ==
  ASSUME NEW m \in Nat \ {0}, NEW a \in Int, NEW h \in 0 .. m - 1
  PROVE  \E k \in 0 .. m - 1 : (a - k) % m = h
<1> DEFINE r == a % m
<1>1. PICK p \in Int : a = p * m + r
  BY Quotient, Zenon
<1>2. r \in 0 .. m - 1
  BY Quotient
<1> HIDE DEF r
<1>3. CASE h <= r
  <2>1. /\ a - (r - h) = p * m + h /\ r - h \in 0 .. m - 1
        /\ a - (r - h) \in Int
    BY <1>1, <1>2, <1>3
  <2>2. (a - (r - h)) % m = h
    BY <2>1, Remainder, Zenon
  <2> QED
    BY <2>1, <2>2
<1>4. CASE h > r
  <2>1. /\ a - (r - h + m) = (p - 1) * m + h /\ r - h + m \in 0 .. m - 1
        /\ a - (r - h + m) \in Int /\ p - 1 \in Int
    BY <1>1, <1>2, <1>4
  <2>2. (a - (r - h + m)) % m = h
    BY <2>1, Remainder, Zenon
  <2> QED
    BY <2>1, <2>2
<1> QED
  BY <1>2, <1>3, <1>4
-----------------------------------------------------------------------------
(* The bucket that hour t has by the clock as it is set now.               *)
BucketOf(t) == (t + step) % HoursPerDay

RolledNow == Rolled(hourly, hour, WallHour)

(* The ring, were it used now, has of every hour since u exactly the       *)
(* clients seen in it.                                                     *)
ExactSince(u) ==
  \A t \in time - HoursPerDay + 1 .. time :
    t > u => RolledNow[BucketOf(t)] = {ip \in IP : <<ip, t>> \in log}

(* The hour of the ring is that of its last use, by the clock as it is set *)
(* now.                                                                    *)
Synced ==
  \/ hour = Unset /\ hourly = EmptyRing /\ log = {}
  \/ hour = BucketOf(usedAt)

WindowType ==
  /\ time \in Nat /\ usedAt \in Nat /\ setAt \in Nat /\ steps \in Nat
  /\ step \in Int /\ hour \in Hours \union {Unset}
  /\ hourly \in [Hours -> SUBSET IP]
  /\ usedAt <= time /\ time - usedAt <= MaxGap /\ setAt <= time
  /\ \A ip, t : <<ip, t>> \in log => t \in Int /\ t <= usedAt

(* Bucket by bucket. With a clock that was never set every hour is exact.  *)
(* After it was set the hours since the first use u are.                   *)
WindowInv ==
  /\ WindowType
  /\ steps = 0 => Synced /\ ExactSince(- HoursPerDay)
  /\ \/ usedAt <= setAt
     \/ /\ Synced
        /\ \E u \in Int : u <= setAt + MaxGap /\ ExactSince(u)

LEMMA BucketFacts ==
  ASSUME step \in Int, NEW t \in Int
  PROVE  /\ BucketOf(t) \in Hours
         /\ \A i \in Int : (BucketOf(t) + i) % HoursPerDay = BucketOf(t + i)
         /\ \A k \in 0 .. HoursPerDay - 1 :
              /\ (BucketOf(t + k) - BucketOf(t)) % HoursPerDay = k
              /\ BucketOf(t + k) = BucketOf(t) => k = 0
<1> DEFINE m == HoursPerDay
           a == t + step
<1>1. m \in Nat \ {0} /\ a \in Int
  BY RingAssumption
<1>2. \A i \in Int : t + i + step = a + i
  OBVIOUS
<1>3. \A i \in Int : BucketOf(t + i) = (a + i) % m
  BY <1>2, Zenon DEF BucketOf
<1>4. BucketOf(t) = a % m
  BY DEF BucketOf
<1> HIDE DEF m, a
<1>5. BucketOf(t) \in Hours
  BY <1>1, <1>4, Quotient, Zenon DEF Hours, m
<1>6. ASSUME NEW i \in Int
      PROVE  (BucketOf(t) + i) % HoursPerDay = BucketOf(t + i)
  BY <1>1, <1>3, <1>4, HoursLater, Zenon DEF m
<1>7. ASSUME NEW k \in 0 .. HoursPerDay - 1
      PROVE  /\ (BucketOf(t + k) - BucketOf(t)) % HoursPerDay = k
             /\ BucketOf(t + k) = BucketOf(t) => k = 0
  <2>1. k \in 0 .. m - 1 /\ k \in Int
    BY <1>1 DEF m
  <2>2. BucketOf(t + k) = (a + k) % m
    BY <1>3, <2>1, Zenon
  <2>3. (((a + k) % m) - (a % m)) % m = k
    BY <1>1, <2>1, HoursBetween, Zenon
  <2>4. (a + k) % m = a % m => k = 0
    BY <1>1, <2>1, HoursApart, Zenon
  <2> QED
    BY <1>4, <2>2, <2>3, <2>4, Zenon DEF m
<1> QED
  BY <1>5, <1>6, <1>7, Zenon

(* What currentBucketLocked makes of the bucket of an hour t, when the     *)
(* clock shows v, less than a day after the last use.                      *)
LEMMA RolledAt ==
  ASSUME WindowType, hour = BucketOf(usedAt),
         NEW v \in Int, usedAt <= v, v < usedAt + HoursPerDay,
         NEW t \in v - HoursPerDay + 1 .. v
  PROVE  Rolled(hourly, hour, BucketOf(v))[BucketOf(t)]
           = IF t > usedAt THEN {} ELSE hourly[BucketOf(t)]
<1> DEFINE k == v - usedAt
<1>0. HoursPerDay \in Nat \ {0} /\ usedAt \in Int /\ step \in Int
  BY RingAssumption DEF WindowType
<1>1. k \in 0 .. HoursPerDay - 1 /\ usedAt + k = v /\ t \in Int
  BY <1>0
<1> HIDE DEF k
<1>2. (BucketOf(v) - hour) % HoursPerDay = k /\ (BucketOf(v) = hour => k = 0)
  BY <1>0, <1>1, BucketFacts, Zenon
<1>3. BucketOf(t) \in Hours /\ hour \in Int
  <2>1. BucketOf(t) \in Hours /\ BucketOf(usedAt) \in Hours
    BY <1>0, <1>1, BucketFacts
  <2> QED
    BY <1>0, <2>1 DEF Hours
<1>4. \A i \in 1 .. k : (hour + i) % HoursPerDay = BucketOf(usedAt + i)
  BY <1>0, <1>1, BucketFacts
<1>5. CASE k = 0
  <2>1. hour = BucketOf(v) /\ ~ (t > usedAt)
    BY <1>0, <1>1, <1>5
  <2> QED
    BY <2>1 DEF Rolled
<1>6. CASE k # 0
  <2>1. Rolled(hourly, hour, BucketOf(v)) =
          [h \in Hours |-> IF h \in Entered(hour, BucketOf(v)) THEN {} ELSE hourly[h]]
    BY <1>2, <1>3, <1>6, RingAssumption DEF Rolled
  <2>2. Entered(hour, BucketOf(v)) = {BucketOf(usedAt + i) : i \in 1 .. k}
    BY <1>2, <1>4, Zenon DEF Entered
  <2>3. t > usedAt => BucketOf(t) \in Entered(hour, BucketOf(v))
    <3>1. t > usedAt => t - usedAt \in 1 .. k /\ usedAt + (t - usedAt) = t
      BY <1>0, <1>1
    <3> QED
      BY <2>2, <3>1
  <2>4. ~ (t > usedAt) => BucketOf(t) \notin Entered(hour, BucketOf(v))
    <3> SUFFICES ASSUME t <= usedAt, NEW i \in 1 .. k,
                        BucketOf(t) = BucketOf(usedAt + i)
                 PROVE  FALSE
      BY <1>0, <1>1, <2>2
    <3> DEFINE j == usedAt + i - t
    <3>1. j \in 0 .. HoursPerDay - 1 /\ t + j = usedAt + i /\ j # 0
      BY <1>0, <1>1
    <3> HIDE DEF j
    <3>2. BucketOf(t + j) = BucketOf(t) => j = 0
      BY <1>0, <1>1, <3>1, BucketFacts, Zenon
    <3> QED
      BY <3>1, <3>2
  <2> QED
    BY <1>3, <2>1, <2>3, <2>4
<1> QED
  BY <1>5, <1>6

(* A use of the ring leaves it, as it would be rolled, as it was.          *)
LEMMA RolledOnce ==
  ASSUME NEW ring, NEW h PROVE Rolled(ring, h, h) = ring
BY DEF Rolled

LEMMA WindowInitInv == Init => WindowInv
<1> SUFFICES ASSUME Init PROVE WindowInv
  OBVIOUS
<1>1. HoursPerDay \in Nat \ {0} /\ MaxGap \in Nat
  BY RingAssumption, WindowAssumption
<1>2. WindowType
  BY <1>1 DEF Init, WindowType, EmptyRing
<1>3. Synced
  BY DEF Init, Synced
<1>4. ExactSince(- HoursPerDay)
  <2> SUFFICES ASSUME NEW t \in time - HoursPerDay + 1 .. time
               PROVE  RolledNow[BucketOf(t)] = {ip \in IP : <<ip, t>> \in log}
    BY DEF ExactSince
  <2>1. RolledNow = EmptyRing /\ log = {}
    BY DEF Init, RolledNow, Rolled
  <2>2. BucketOf(t) \in Hours
    BY <1>1, BucketFacts DEF Init
  <2> QED
    BY <2>1, <2>2 DEF EmptyRing
<1> QED
  BY <1>2, <1>3, <1>4 DEF Init, WindowInv

(* HandleFrame's and Flush's sections.                                     *)
LEMMA UseStep ==
  ASSUME WindowInv, Clone \/ \E ip \in IP : Add(ip)
  PROVE  WindowInv'
<1>0. /\ HoursPerDay \in Nat \ {0} /\ MaxGap \in Nat
      /\ time \in Nat /\ step \in Int /\ usedAt \in Nat /\ setAt \in Nat
      /\ usedAt <= time /\ time - usedAt <= MaxGap
  BY RingAssumption, WindowAssumption DEF WindowInv, WindowType
<1>1. /\ UNCHANGED <<time, step, steps, setAt>>
      /\ hour' = WallHour /\ usedAt' = time
  BY DEF Clone, Add
<1>2. WallHour = BucketOf(time) /\ WallHour \in Hours
  BY <1>0, BucketFacts DEF WallHour, BucketOf
<1>3. WallHour' = WallHour /\ \A t : BucketOf(t)' = BucketOf(t)
  BY <1>1 DEF WallHour, BucketOf
<1>4. RolledNow' = hourly'
  BY <1>1, <1>3, RolledOnce DEF RolledNow
<1>5. RolledNow \in [Hours -> SUBSET IP]
  BY DEF WindowInv, WindowType, RolledNow, Rolled
<1>6. Synced'
  BY <1>1, <1>2, <1>3, Zenon DEF Synced
<1>7. /\ hourly' \in [Hours -> SUBSET IP]
      /\ \A ip, t : <<ip, t>> \in log' => <<ip, t>> \in log \/ t = time
  <2>1. CASE Clone
    BY <2>1, <1>5 DEF Clone, RolledNow
  <2>2. ASSUME NEW ip \in IP, Add(ip)
        PROVE  /\ hourly' \in [Hours -> SUBSET IP]
               /\ \A i, t : <<i, t>> \in log' => <<i, t>> \in log \/ t = time
    BY <1>2, <1>5, <2>2 DEF Add, Added, RolledNow
  <2> QED
    BY <2>1, <2>2
<1>8. WindowType'
  <2>1. \A ip, t : <<ip, t>> \in log' => t \in Int /\ t <= time
    BY <1>0, <1>7 DEF WindowInv, WindowType
  <2> QED
    BY <1>0, <1>1, <1>2, <1>7, <2>1 DEF WindowInv, WindowType
<1>9. ASSUME NEW u \in Int, ExactSince(u) PROVE ExactSince(u)'
  <2> SUFFICES ASSUME NEW t \in time - HoursPerDay + 1 .. time, t > u
               PROVE  hourly'[BucketOf(t)] = {i \in IP : <<i, t>> \in log'}
    BY <1>1, <1>3, <1>4, Zenon DEF ExactSince
  <2>1. RolledNow[BucketOf(t)] = {i \in IP : <<i, t>> \in log}
    BY <1>9 DEF ExactSince
  <2>2. t \in Int /\ BucketOf(t) \in Hours
    BY <1>0, BucketFacts
  <2>3. t # time => BucketOf(t) # WallHour
    <3> DEFINE j == time - t
    <3>1. j \in 0 .. HoursPerDay - 1 /\ t + j = time /\ (j = 0 => t = time)
      BY <1>0
    <3> HIDE DEF j
    <3>2. BucketOf(t + j) = BucketOf(t) => j = 0
      BY <1>0, <2>2, <3>1, BucketFacts, Zenon
    <3> QED
      BY <1>2, <3>1, <3>2
  <2>4. CASE Clone
    BY <2>1, <2>4 DEF Clone, RolledNow
  <2>5. ASSUME NEW ip \in IP, Add(ip)
        PROVE  hourly'[BucketOf(t)] = {i \in IP : <<i, t>> \in log'}
    <3>1. /\ hourly' = [RolledNow EXCEPT ![WallHour] = @ \union {ip}]
          /\ log' = log \union {<<ip, time>>}
      BY <2>5 DEF Add, Added, RolledNow
    <3>2. CASE t = time
      <4>1. hourly'[BucketOf(t)] = RolledNow[BucketOf(t)] \union {ip}
        BY <1>2, <1>5, <3>1, <3>2
      <4> QED
        BY <2>1, <3>1, <3>2, <4>1
    <3>3. CASE t # time
      <4>1. hourly'[BucketOf(t)] = RolledNow[BucketOf(t)]
        BY <1>5, <2>2, <2>3, <3>1, <3>3
      <4> QED
        BY <2>1, <3>1, <3>3, <4>1
    <3> QED
      BY <3>2, <3>3
  <2> QED
    BY <2>4, <2>5
<1>10. ExactSince(time)'
  BY <1>0, <1>1 DEF ExactSince
<1>11. \E u \in Int : u <= setAt + MaxGap /\ ExactSince(u)'
  <2>1. CASE usedAt <= setAt
    <3>1. time \in Int /\ time <= setAt + MaxGap
      BY <1>0, <2>1
    <3> QED
      BY <1>10, <1>1, <3>1
  <2>2. CASE \E u \in Int : u <= setAt + MaxGap /\ ExactSince(u)
    BY <1>9, <2>2
  <2> QED
    BY <2>1, <2>2 DEF WindowInv
<1>12. steps' = 0 => ExactSince(- HoursPerDay)'
  <2>1. - HoursPerDay \in Int
    BY <1>0
  <2> QED
    BY <1>1, <1>9, <2>1 DEF WindowInv
<1> QED
  BY <1>1, <1>6, <1>8, <1>11, <1>12 DEF WindowInv

(* An hour goes by: the bucket of the new hour is empty, were the ring     *)
(* used, and all others are as they were.                                  *)
LEMMA PassStep == ASSUME WindowInv, Pass PROVE WindowInv'
<1>0. /\ HoursPerDay \in Nat \ {0} /\ MaxGap \in Nat /\ MaxGap < HoursPerDay
      /\ time \in Nat /\ step \in Int /\ usedAt \in Nat /\ setAt \in Nat
      /\ usedAt <= time /\ time + 1 - usedAt <= MaxGap
  BY RingAssumption, WindowAssumption DEF WindowInv, WindowType, Pass
<1>1. /\ time' = time + 1 /\ log' = {e \in log : e[2] > time' - HoursPerDay}
      /\ UNCHANGED <<hourly, hour, step, steps, setAt, usedAt>>
  BY DEF Pass
<1>2. \A ip, t : <<ip, t>> \in log' <=> <<ip, t>> \in log /\ t > time + 1 - HoursPerDay
  <2>1. \A e : e \in log' <=> e \in log /\ e[2] > time' - HoursPerDay
    BY <1>1, Zenon
  <2>2. \A ip, t : <<ip, t>>[2] = t
    OBVIOUS
  <2>3. time' - HoursPerDay = time + 1 - HoursPerDay
    BY <1>0, <1>1
  <2> QED
    BY <2>1, <2>2, <2>3, Zenon
<1>3. WallHour = BucketOf(time) /\ WallHour' = BucketOf(time + 1)
      /\ \A t : BucketOf(t)' = BucketOf(t)
  BY <1>1 DEF WallHour, BucketOf
<1>4. WindowType'
  BY <1>0, <1>1, <1>2 DEF WindowInv, WindowType
<1>5. Synced => Synced'
  <2>1. log = {} => log' = {}
    BY <1>1
  <2> QED
    BY <1>1, <1>3, <2>1, Zenon DEF Synced
<1>6. ASSUME Synced, NEW u \in Int, ExactSince(u) PROVE ExactSince(u)'
  <2> SUFFICES ASSUME NEW t \in time + 1 - HoursPerDay + 1 .. time + 1, t > u
               PROVE  Rolled(hourly, hour, BucketOf(time + 1))[BucketOf(t)]
                        = {i \in IP : <<i, t>> \in log'}
    <3>1. RolledNow' = Rolled(hourly, hour, BucketOf(time + 1))
      BY <1>1, <1>3, Zenon DEF RolledNow
    <3>2. time' - HoursPerDay + 1 .. time' = time + 1 - HoursPerDay + 1 .. time + 1
      BY <1>0, <1>1
    <3> QED
      BY <1>3, <3>1, <3>2, Zenon DEF ExactSince
  <2>1. t \in Int /\ BucketOf(t) \in Hours /\ t > time + 1 - HoursPerDay
    BY <1>0, BucketFacts
  <2>2. {i \in IP : <<i, t>> \in log'} = {i \in IP : <<i, t>> \in log}
    BY <1>2, <2>1
  <2>3. t # time + 1 =>
          /\ t \in time - HoursPerDay + 1 .. time
          /\ Rolled(hourly, hour, BucketOf(time))[BucketOf(t)]
               = {i \in IP : <<i, t>> \in log}
    BY <1>0, <1>3, <1>6 DEF ExactSince, RolledNow
  <2>4. t = time + 1 => {i \in IP : <<i, t>> \in log} = {}
    BY <1>0 DEF WindowInv, WindowType
  <2>5. CASE hour = Unset /\ hourly = EmptyRing /\ log = {}
    <3>1. Rolled(hourly, hour, BucketOf(time + 1)) = EmptyRing
      BY <2>5 DEF Rolled
    <3> QED
      BY <2>1, <2>2, <2>5, <3>1 DEF EmptyRing
  <2>6. CASE hour = BucketOf(usedAt)
    <3>w. WindowType
      BY DEF WindowInv
    <3>1. /\ time + 1 \in Int /\ usedAt <= time + 1 /\ time + 1 < usedAt + HoursPerDay
          /\ time \in Int /\ time < usedAt + HoursPerDay
      BY <1>0
    <3>2. Rolled(hourly, hour, BucketOf(time + 1))[BucketOf(t)]
            = IF t > usedAt THEN {} ELSE hourly[BucketOf(t)]
      <4> DEFINE v == time + 1
      <4>1. v \in Int /\ usedAt <= v /\ v < usedAt + HoursPerDay
        BY <3>1
      <4>2. t \in v - HoursPerDay + 1 .. v
        BY <1>0
      <4> HIDE DEF v
      <4>3. Rolled(hourly, hour, BucketOf(v))[BucketOf(t)]
              = IF t > usedAt THEN {} ELSE hourly[BucketOf(t)]
        BY <2>6, <3>w, <4>1, <4>2, RolledAt, Zenon
      <4> QED
        BY <4>3 DEF v
    <3>3. CASE t = time + 1
      <4>1. t > usedAt
        BY <1>0, <3>3
      <4> QED
        BY <2>2, <2>4, <3>2, <3>3, <4>1
    <3>4. CASE t # time + 1
      <4>1. Rolled(hourly, hour, BucketOf(time))[BucketOf(t)]
              = IF t > usedAt THEN {} ELSE hourly[BucketOf(t)]
        BY <1>0, <2>3, <2>6, <3>w, <3>1, <3>4, RolledAt, Zenon
      <4> QED
        BY <2>2, <2>3, <3>2, <3>4, <4>1
    <3> QED
      BY <3>3, <3>4
  <2> QED
    BY <1>6, <2>5, <2>6 DEF Synced
<1>7. steps' = 0 => Synced' /\ ExactSince(- HoursPerDay)'
  <2>1. - HoursPerDay \in Int
    BY <1>0
  <2> QED
    BY <1>1, <1>5, <1>6, <2>1 DEF WindowInv
<1>8. CASE usedAt <= setAt
  BY <1>1, <1>4, <1>7, <1>8 DEF WindowInv
<1>9. CASE Synced /\ \E u \in Int : u <= setAt + MaxGap /\ ExactSince(u)
  <2>1. \E u \in Int : u <= setAt + MaxGap /\ ExactSince(u)'
    BY <1>6, <1>9
  <2> QED
    BY <1>1, <1>4, <1>5, <1>7, <1>9, <2>1 DEF WindowInv
<1> QED
  BY <1>8, <1>9 DEF WindowInv

LEMMA SetClockStep == ASSUME WindowInv, SetClock PROVE WindowInv'
<1>1. /\ setAt' = time /\ steps' = steps + 1 /\ step' \in Int
      /\ UNCHANGED <<hourly, hour, time, usedAt, log>>
  BY WindowAssumption DEF WindowInv, WindowType, SetClock
<1>2. WindowType'
  BY <1>1 DEF WindowInv, WindowType
<1>3. steps' # 0 /\ usedAt' <= setAt'
  BY <1>1 DEF WindowInv, WindowType
<1> QED
  BY <1>2, <1>3 DEF WindowInv

LEMMA WindowInvariance == SketchSpec => []WindowInv
<1>1. WindowInv /\ UNCHANGED vars => WindowInv'
  BY DEF vars, WindowInv, WindowType, Synced, ExactSince, RolledNow, WallHour,
         BucketOf
<1>2. WindowInv /\ [SketchNext]_sketchVars => WindowInv'
  BY <1>1, UseStep, PassStep, SetClockStep
     DEF SketchNext, AddClient, CloneRing, MergeNext, Publish, TimePasses, sketchVars
<1> QED
  BY <1>2, WindowInitInv, PTL DEF SketchSpec, SketchInit

(* All hours of the last day are exact: so is the merge.                   *)
LEMMA ExactMerge ==
  ASSUME WindowType, NEW u \in Int, u <= time - HoursPerDay, ExactSince(u)
  PROVE  MergedNow = SeenWithin(HoursPerDay)
<1>0. HoursPerDay \in Nat \ {0} /\ time \in Nat /\ step \in Int
  BY RingAssumption DEF WindowType
<1>1. MergedNow = UNION {RolledNow[h] : h \in Hours}
  BY DEF MergedNow, MergedKeys, RolledNow
<1>2. \A t \in time - HoursPerDay + 1 .. time :
        RolledNow[BucketOf(t)] = {ip \in IP : <<ip, t>> \in log}
  BY <1>0 DEF ExactSince
<1>3. ASSUME NEW ip \in MergedNow PROVE ip \in SeenWithin(HoursPerDay)
  <2>1. PICK h \in Hours : ip \in RolledNow[h]
    BY <1>1
  <2> DEFINE a == time + step
  <2>2. a \in Int /\ h \in 0 .. HoursPerDay - 1
    BY <1>0 DEF Hours
  <2>3. PICK k \in 0 .. HoursPerDay - 1 : (a - k) % HoursPerDay = h
    BY <1>0, <2>2, HoursCover, Zenon
  <2> DEFINE t == time - k
  <2>4. t \in time - HoursPerDay + 1 .. time /\ a - k = t + step
    BY <1>0, <2>3
  <2> HIDE DEF a, t
  <2>5. h = BucketOf(t)
    BY <2>3, <2>4 DEF BucketOf
  <2>6. ip \in IP /\ <<ip, t>> \in log
    BY <1>2, <2>1, <2>4, <2>5
  <2> QED
    BY <2>4, <2>6 DEF SeenWithin
<1>4. ASSUME NEW ip \in SeenWithin(HoursPerDay) PROVE ip \in MergedNow
  <2>1. PICK t \in time - HoursPerDay + 1 .. time : ip \in IP /\ <<ip, t>> \in log
    BY DEF SeenWithin
  <2>2. ip \in RolledNow[BucketOf(t)]
    BY <1>2, <2>1
  <2>3. BucketOf(t) \in Hours
    BY <1>0, BucketFacts
  <2> QED
    BY <1>1, <2>2, <2>3
<1> QED
  BY <1>3, <1>4, Zenon

(* aggregate.go:148-165, 378-390: WindowExact, for a day of any number of  *)
(* hours, any clients and any hours without traffic.                       *)
THEOREM WindowAlwaysExact == SketchSpec => []WindowExact
<1>1. WindowInv => WindowExact
  <2> SUFFICES ASSUME WindowInv, steps = 0
               PROVE  MergedNow = SeenWithin(HoursPerDay)
    BY DEF WindowExact
  <2>1. - HoursPerDay \in Int /\ - HoursPerDay <= time - HoursPerDay
    BY RingAssumption DEF WindowInv, WindowType
  <2> QED
    BY <2>1, ExactMerge DEF WindowInv
<1> QED
  BY <1>1, WindowInvariance, PTL

(* aggregate.go:148-165: WindowHeals, however often and however far the    *)
(* clock was set, a day after the ring's first use since.                  *)
THEOREM WindowAlwaysHeals == SketchSpec => []WindowHeals
<1>1. WindowInv => WindowHeals
  <2> SUFFICES ASSUME WindowInv, time - setAt >= HoursPerDay + MaxGap
               PROVE  MergedNow = SeenWithin(HoursPerDay)
    BY DEF WindowHeals
  <2>1. /\ HoursPerDay \in Nat \ {0} /\ MaxGap \in Nat /\ time \in Nat
        /\ usedAt \in Nat /\ setAt \in Nat /\ time - usedAt <= MaxGap
    BY RingAssumption, WindowAssumption DEF WindowInv, WindowType
  <2>2. ~ (usedAt <= setAt)
    BY <2>1
  <2>3. PICK u \in Int : u <= setAt + MaxGap /\ ExactSince(u)
    BY <2>2 DEF WindowInv
  <2>4. u <= time - HoursPerDay
    BY <2>1, <2>3
  <2> QED
    BY <2>3, <2>4, ExactMerge DEF WindowInv
<1> QED
  BY <1>1, WindowInvariance, PTL
=============================================================================
