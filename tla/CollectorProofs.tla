--------------------------- MODULE CollectorProofs ---------------------------
(***************************************************************************)
(* Proofs about Collector for any number of workers, shards, clients and   *)
(* labels: its type invariant, then the safety invariants that need        *)
(* nothing of the counts, each inductive together with the type invariant. *)
(***************************************************************************)
EXTENDS CollectorProperties, FiniteSumProofs

LEMMA NewCountersType == newWorkerCounters \in Counters
  BY DEF newWorkerCounters, Counters

LEMMA AddCountersType ==
  ASSUME NEW c \in Counters, NEW d \in Counters
  PROVE  AddCounters(c, d) \in Counters
  BY DEF AddCounters, Counters

LEMMA IncType ==
  ASSUME NEW S, NEW counts \in [S -> Nat], NEW k \in S
  PROVE  Inc(counts, k) \in [S -> Nat]
  BY DEF Inc

LEMMA CountRequestType ==
  ASSUME NEW c \in Counters, NEW f \in Frame, NEW g \in Geo
  PROVE  CountRequest(c, f, g) \in Counters
  <1>1. VersionLabel(f.version) \in Version
    BY CollectorAssumption, Zenon DEF CollectorAssumption, Frame, VersionLabel
  <1>2. g.country \in Country /\ g.asn \in AsnKey /\ f.family \in Family
    BY Zenon DEF Geo, Frame
  <1>. QED
    BY <1>1, <1>2, IncType, Zenon DEF CountRequest, Counters

LEMMA CountResponseType ==
  ASSUME NEW c \in Counters, NEW g \in Geo
  PROVE  CountResponse(c, g) \in Counters
  BY IncType, Zenon DEF CountResponse, Counters, Geo

LEMMA SeqFacts ==
  ASSUME NEW T, NEW s \in Seq(T), NEW e \in T
  PROVE  /\ Append(s, e) \in Seq(T)
         /\ s # <<>> => Head(s) \in T /\ Tail(s) \in Seq(T)
  OBVIOUS

LEMMA InitType == Init => TypeOK
  <1>. SUFFICES ASSUME Init PROVE TypeOK
    OBVIOUS
  <1>1. 0 \in Worker /\ 0 \in Shard
    BY CollectorAssumption DEF CollectorAssumption, Worker, Shard
  <1>2. m \in Metrics
    BY DEF Init, Metrics
  <1>3. RingType /\ CountersType /\ TablesType /\ SketchesType /\ WorldType
    BY NewCountersType DEF Init, EmptyRing,
       RingType, CountersType, TablesType, SketchesType, WorldType, DropsInit
  <1>4. HandleType
    BY <1>1 DEF Init, IdleFrame, HandleType, WorkerPCs, RequestPCs
  <1>5. FlusherType
    BY <1>1, NewCountersType DEF Init, NewFlush, FlusherType, FlushPCs
  <1>. QED
    BY <1>2, <1>3, <1>4, <1>5 DEF TypeOK

LEMMA EnvironmentType == TypeOK /\ Environment => TypeOK'
  <1>. SUFFICES ASSUME TypeOK, Environment PROVE TypeOK'
    OBVIOUS
  <1>1. /\ HandleType' /\ CountersType' /\ TablesType' /\ SketchesType'
        /\ FlusherType' /\ m' \in Metrics
    BY DEF TypeOK, Environment, counters, tables, sketches, flusher, asns,
           HandleType, CountersType, TablesType, SketchesType, FlusherType,
           ActiveIn
  <1>2. RingType'
    <2>1. ASSUME NEW w \in Worker, NEW f \in Frames, Capture(w, f)
          PROVE  RingType'
      <3>. DEFINE S == Seq([frame : Frames, ts : Nat])
      <3>1. ring \in [Worker -> S] /\ [frame |-> f, ts |-> wall] \in [frame : Frames, ts : Nat]
        BY Zenon DEF TypeOK, RingType, WorldType
      <3>2. Append(ring[w], [frame |-> f, ts |-> wall]) \in S
        BY <3>1, SeqFacts, Zenon
      <3>. QED
        BY <2>1, <3>1, <3>2, Zenon DEF Capture, RingType
    <2>. QED
      BY <2>1, Zenon DEF TypeOK, RingType, Environment, Tick, StepWall
  <1>3. WorldType'
    <2>1. ASSUME NEW w \in Worker, NEW f \in Frames, Capture(w, f)
          PROVE  WorldType'
      BY <2>1 DEF Capture, TypeOK, WorldType, drops
    <2>2. CASE KernelDrop /\ UNCHANGED <<ring, clock, wall, env>>
      BY <2>2 DEF KernelDrop, TypeOK, WorldType
    <2>3. CASE SocketsChange /\ UNCHANGED <<ring, clock, wall, env>>
      BY <2>3 DEF SocketsChange, TypeOK, WorldType
    <2>4. CASE Tick
      BY <2>4 DEF Tick, TypeOK, WorldType, drops
    <2>5. CASE StepWall
      BY <2>5 DEF StepWall, TypeOK, WorldType, drops
    <2>. QED
      BY <2>1, <2>2, <2>3, <2>4, <2>5 DEF Environment
  <1>. QED
    BY <1>1, <1>2, <1>3 DEF TypeOK

(* Replacing what one worker holds.                                        *)
LEMMA SetFrameType ==
  ASSUME HandleType, NEW w \in Worker,
         NEW r \in [pc : WorkerPCs, frame : Frames \union {Absent}, ts : Nat,
                    n : Nat, shard : Shard, now : Nat],
         hf' = [hf EXCEPT ![w] = r], framesSinceSweep' \in Nat,
         r.pc # "idle" => r.frame \in Frames,
         r.pc \in {"store", "pair"} => r.frame.xid \in XID,
         r.pc \in RequestPCs => r.frame.direction = "request"
  PROVE  HandleType'
  <1>1. hf'[w] = r /\ \A v \in Worker : v # w => hf'[v] = hf[v]
    BY DEF HandleType
  <1>2. hf' \in [Worker -> [pc : WorkerPCs, frame : Frames \union {Absent}, ts : Nat,
                            n : Nat, shard : Shard, now : Nat]]
    BY DEF HandleType
  <1>3. ASSUME NEW v \in Worker
        PROVE  /\ hf'[v].pc # "idle" => hf'[v].frame \in Frames
               /\ hf'[v].pc \in {"store", "pair"} => hf'[v].frame.xid \in XID
               /\ hf'[v].pc \in RequestPCs => hf'[v].frame.direction = "request"
    BY <1>1 DEF HandleType
  <1>. QED
    BY <1>2, <1>3, Zenon DEF HandleType

LEMMA GotoType ==
  ASSUME HandleType, NEW w \in Worker, NEW pc \in WorkerPCs \ {"idle"},
         Goto(w, pc), UNCHANGED framesSinceSweep \/ framesSinceSweep' \in Nat,
         hf[w].frame \in Frames,
         pc \in {"store", "pair"} => hf[w].frame.xid \in XID,
         pc \in RequestPCs => hf[w].frame.direction = "request"
  PROVE  HandleType'
  <1>. DEFINE r == [hf[w] EXCEPT !.pc = pc, !.n = 0, !.now = 0]
  <1>1. r \in [pc : WorkerPCs, frame : Frames \union {Absent}, ts : Nat,
               n : Nat, shard : Shard, now : Nat]
    BY Zenon DEF HandleType
  <1>2. r.pc = pc /\ r.frame = hf[w].frame
    BY DEF HandleType
  <1>3. hf' = [hf EXCEPT ![w] = r]
    BY Zenon DEF HandleType, Goto
  <1>4. framesSinceSweep' \in Nat
    BY DEF HandleType
  <1>. HIDE DEF r
  <1>. QED
    BY <1>1, <1>2, <1>3, <1>4, SetFrameType, Zenon

LEMMA ReturnType ==
  ASSUME HandleType, NEW w \in Worker, Return(w), UNCHANGED framesSinceSweep
  PROVE  HandleType'
  <1>1. 0 \in Shard
    BY CollectorAssumption DEF CollectorAssumption, Shard
  <1>. QED
    BY <1>1 DEF HandleType, Return, IdleFrame, WorkerPCs, RequestPCs

LEMMA SweptPendingType ==
  ASSUME TablesType, NEW s \in Shard, NEW cutoff \in Int
  PROVE  SweptPending(s, cutoff) \in [Key -> Nat \union {Absent}]
  BY DEF TablesType, SweptPending

LEMMA EvictedActiveType ==
  ASSUME TablesType, NEW s \in Shard, NEW cutoff \in Int
  PROVE  EvictedActive(s, cutoff) \in [IP -> Nat \union {Absent}]
  BY DEF TablesType, EvictedActive

LEMMA Limits ==
  /\ PendingMax \in Nat /\ PendingTTL \in Nat /\ ActiveWindow \in Nat
  /\ PendingSweepEvery \in Nat \ {0}
  BY CollectorAssumption, Zenon DEF CollectorAssumption

LEMMA HourType ==
  ASSUME NEW t \in Nat
  PROVE  HourOf(t) \in Hours
  <1>1. TicksPerHour \in Nat \ {0} /\ HoursPerDay \in Nat \ {0}
    BY CollectorAssumption, RingAssumption DEF CollectorAssumption, RingAssumption
  <1>2. t \div TicksPerHour \in Int
    BY <1>1
  <1>. QED
    BY <1>1, <1>2 DEF HourOf, Hours

LEMMA RingTypes ==
  ASSUME NEW r \in [Hours -> SUBSET IP], NEW h0, NEW h1 \in Hours, NEW ip \in IP
  PROVE  /\ Rolled(r, h0, h1) \in [Hours -> SUBSET IP]
         /\ Added(r, h0, h1, ip) \in [Hours -> SUBSET IP]
         /\ MergedKeys(r) \subseteq IP
  <1>1. Rolled(r, h0, h1) \in [Hours -> SUBSET IP]
    BY DEF Rolled
  <1>2. Added(r, h0, h1, ip) \in [Hours -> SUBSET IP]
    BY <1>1 DEF Added
  <1>3. MergedKeys(r) \subseteq IP
    BY DEF MergedKeys
  <1>. QED
    BY <1>1, <1>2, <1>3

(* The frame a busy worker holds.                                          *)
LEMMA FrameFacts ==
  ASSUME TypeOK, NEW w \in Worker, hf[w].pc # "idle"
  PROVE  /\ hf[w].frame \in Frames /\ hf[w].frame \in Frame
         /\ hf[w].frame.ip \in IP /\ hf[w].frame.direction \in Direction
         /\ hf[w].frame.xid \in XID \union {Nil}
         /\ hf[w].ts \in Nat /\ hf[w].now \in Nat /\ hf[w].n \in Nat
         /\ hf[w].shard \in Shard
  <1>1. hf[w].frame \in Frames
    BY DEF TypeOK, HandleType
  <1>2. hf[w].frame \in Frame
    BY <1>1, CollectorAssumption DEF CollectorAssumption
  <1>. QED
    BY <1>1, <1>2, Zenon DEF TypeOK, HandleType, Frame

LEMMA HandleFrameType ==
  ASSUME TypeOK, NEW w \in Worker, HandleFrame(w)
  PROVE  TypeOK'
  <1>1. FlusherType' /\ WorldType'
    BY DEF HandleFrame, flusher, asns, world, drops, TypeOK, FlusherType, WorldType
  <1>2. SUFFICES RingType' /\ HandleType' /\ CountersType' /\ TablesType'
                 /\ SketchesType' /\ m' \in Metrics
    BY <1>1 DEF TypeOK
  <1>. USE DEF counters, tables, sketches
  <1>3. CASE AddFrame(w)
    <2>1. /\ Head(ring[w]) \in [frame : Frames, ts : Nat]
          /\ Tail(ring[w]) \in Seq([frame : Frames, ts : Nat])
      <3>. DEFINE T == [frame : Frames, ts : Nat]
      <3>1. ring[w] \in Seq(T) /\ ring[w] # <<>>
        BY <1>3, Zenon DEF AddFrame, TypeOK, RingType
      <3>. HIDE DEF T
      <3>2. Head(ring[w]) \in T /\ Tail(ring[w]) \in Seq(T)
        BY <3>1
      <3>. QED
        BY <3>2 DEF T
    <2>2. RingType'
      BY <1>3, <2>1, Zenon DEF AddFrame, TypeOK, RingType
    <2>3. 0 \in Shard
      BY CollectorAssumption DEF CollectorAssumption, Shard
    <2>4. HandleType'
      <3>. DEFINE r == [IdleFrame EXCEPT !.pc = "cas", !.n = framesSinceSweep',
                                         !.frame = Head(ring[w]).frame,
                                         !.ts = Head(ring[w]).ts]
      <3>1. framesSinceSweep' \in Nat /\ hf' = [hf EXCEPT ![w] = r] /\ HandleType
        BY <1>3 DEF AddFrame, TypeOK, HandleType
      <3>2. Head(ring[w]).frame \in Frames /\ Head(ring[w]).ts \in Nat
        BY <2>1
      <3>3. /\ r \in [pc : WorkerPCs, frame : Frames \union {Absent}, ts : Nat,
                     n : Nat, shard : Shard, now : Nat]
            /\ r.pc = "cas" /\ r.frame \in Frames
        BY <3>1, <3>2, <2>3, Zenon DEF IdleFrame, WorkerPCs
      <3>. QED
        BY <3>1, <3>3, SetFrameType, Zenon DEF RequestPCs
    <2>. QED
      BY <1>3, <2>2, <2>4 DEF AddFrame, TypeOK, CountersType, TablesType, SketchesType
  <1>4. CASE CompareAndSwap(w)
    <2>1. HandleType'
      BY <1>4, GotoType, FrameFacts DEF CompareAndSwap, At, TypeOK, HandleType,
         WorkerPCs, RequestPCs
    <2>. QED
      BY <1>4, <2>1, Zenon DEF CompareAndSwap, TypeOK, RingType, CountersType,
         TablesType, SketchesType
  <1>5. CASE SweepShard(w)
    <2>1. TablesType'
      <3>. DEFINE cutoff == hf[w].ts - PendingTTL
      <3>1. hf[w].ts \in Nat /\ hf[w].shard \in Shard
        BY Zenon DEF TypeOK, HandleType
      <3>2. PendingTTL \in Nat
        BY CollectorAssumption DEF CollectorAssumption
      <3>3. cutoff \in Int
        BY <3>1, <3>2
      <3>4. pending' = SweptPending(hf[w].shard, cutoff) /\ active' = active
        BY <1>5, Zenon DEF SweepShard
      <3>. HIDE DEF cutoff
      <3>5. SweptPending(hf[w].shard, cutoff) \in [Key -> Nat \union {Absent}]
        BY <3>1, <3>3, SweptPendingType, Zenon DEF TypeOK
      <3>. QED
        BY <3>4, <3>5, Zenon DEF TypeOK, TablesType
    <2>2. HandleType'
      <3>. DEFINE r == IF hf[w].shard + 1 \in Shard
                       THEN [hf[w] EXCEPT !.shard = @ + 1]
                       ELSE [hf[w] EXCEPT !.pc = "count", !.shard = 0]
      <3>1. /\ hf' = [hf EXCEPT ![w] = r] /\ framesSinceSweep' \in Nat
            /\ hf[w].pc = "sweep" /\ HandleType
        BY <1>5, Zenon DEF SweepShard, At, TypeOK, HandleType
      <3>2. 0 \in Shard
        BY CollectorAssumption DEF CollectorAssumption, Shard
      <3>3. /\ r \in [pc : WorkerPCs, frame : Frames \union {Absent}, ts : Nat,
                     n : Nat, shard : Shard, now : Nat]
            /\ r.pc \in {"sweep", "count"} /\ r.frame \in Frames
        BY <3>1, <3>2, ZenonT(40) DEF HandleType, WorkerPCs
      <3>. QED
        BY <3>1, <3>3, SetFrameType, Zenon DEF RequestPCs
    <2>. QED
      BY <1>5, <2>1, <2>2, Zenon DEF SweepShard, TypeOK, RingType, CountersType,
         SketchesType
  <1>6. CASE Count(w)
    <2>. DEFINE f == hf[w].frame
    <2>1. /\ f \in Frames /\ f \in Frame /\ f.ip \in IP /\ f.direction \in Direction
          /\ f.xid \in XID \union {Nil} /\ hf[w].pc = "count"
      BY <1>6, FrameFacts DEF Count, At
    <2>2. PICK g \in GeoOf[f.ip] :
            \/ /\ f.direction = "request"
               /\ wc' = [wc EXCEPT ![w] = CountRequest(@, f, g)]
               /\ counted' = CountRequest(counted, f, g)
               /\ Goto(w, "clock")
            \/ /\ f.direction = "response"
               /\ wc' = [wc EXCEPT ![w] = CountResponse(@, g)]
               /\ counted' = CountResponse(counted, g)
               /\ IF f.xid = Nil THEN Return(w) ELSE Goto(w, "pair")
      BY <1>6, Zenon DEF Count
    <2>3. g \in Geo
      BY <2>1, CollectorAssumption DEF CollectorAssumption
    <2>4. CountersType'
      BY <2>1, <2>2, <2>3, CountRequestType, CountResponseType
      DEF TypeOK, CountersType
    <2>5. HandleType'
      <3>1. UNCHANGED framesSinceSweep
        BY <1>6 DEF Count
      <3>2. CASE f.direction = "request" /\ Goto(w, "clock")
        BY <3>1, <3>2, <2>1, GotoType DEF TypeOK, WorkerPCs, RequestPCs
      <3>3. CASE Return(w)
        BY <3>1, <3>3, ReturnType DEF TypeOK
      <3>4. CASE f.xid # Nil /\ Goto(w, "pair")
        BY <3>1, <3>4, <2>1, GotoType DEF TypeOK, WorkerPCs, RequestPCs
      <3>. QED
        BY <3>2, <3>3, <3>4, <2>2
    <2>6. m' \in Metrics
      <3>1. m.packets \in [Direction -> Nat]
        BY DEF TypeOK, Metrics
      <3>2. [m.packets EXCEPT ![f.direction] = @ + 1] \in [Direction -> Nat]
        BY <2>1, <3>1
      <3>3. m' = [m EXCEPT !.packets = [m.packets EXCEPT ![f.direction] = @ + 1]]
        BY <1>6 DEF Count
      <3>. QED
        BY <3>2, <3>3, ZenonT(40) DEF TypeOK, Metrics
    <2>. QED
      BY <1>6, <2>4, <2>5, <2>6, Zenon DEF Count, TypeOK, RingType, TablesType,
         SketchesType
  <1>7. CASE ReadClock(w)
    <2>1. HandleType'
      <3>. DEFINE r == [hf[w] EXCEPT !.pc = "active", !.now = clock]
      <3>1. /\ hf' = [hf EXCEPT ![w] = r] /\ framesSinceSweep' \in Nat
            /\ hf[w].pc = "clock" /\ HandleType /\ clock \in Nat
        BY <1>7, Zenon DEF ReadClock, At, TypeOK, HandleType, WorldType
      <3>2. /\ r \in [pc : WorkerPCs, frame : Frames \union {Absent}, ts : Nat,
                     n : Nat, shard : Shard, now : Nat]
            /\ r.pc = "active" /\ r.frame \in Frames
            /\ r.frame.direction = "request"
        BY <3>1, Zenon DEF HandleType, WorkerPCs, RequestPCs
      <3>. QED
        BY <3>1, <3>2, SetFrameType, Zenon
    <2>. QED
      BY <1>7, <2>1, Zenon DEF ReadClock, TypeOK, RingType, CountersType,
         TablesType, SketchesType
  <1>8. CASE TouchActive(w)
    <2>1. /\ hf[w].frame \in Frames /\ hf[w].frame.ip \in IP /\ hf[w].now \in Nat
          /\ hf[w].frame.direction = "request"
      BY <1>8, FrameFacts DEF TouchActive, At, TypeOK, HandleType, RequestPCs
    <2>2. HandleType'
      BY <1>8, <2>1, GotoType DEF TouchActive, TypeOK, WorkerPCs, RequestPCs
    <2>3. TablesType'
      BY <1>8, <2>1 DEF TouchActive, TypeOK, TablesType
    <2>4. m' \in Metrics
      <3>1. CASE active[hf[w].frame.ip] = Absent
        BY <1>8, <3>1 DEF TouchActive, TypeOK
      <3>2. CASE active[hf[w].frame.ip] # Absent
        <4>1. hf[w].now - active[hf[w].frame.ip] \in Int
          BY <3>2, <2>1 DEF TypeOK, TablesType
        <4>2. m.interval \in SUBSET Int
          BY DEF TypeOK, Metrics
        <4>3. m.interval \union {hf[w].now - active[hf[w].frame.ip]} \in SUBSET Int
          BY <4>1, <4>2
        <4>. QED
          BY <1>8, <3>2, <4>3 DEF TouchActive, TypeOK, Metrics
      <3>. QED
        BY <3>1, <3>2
    <2>. QED
      BY <1>8, <2>2, <2>3, <2>4, Zenon DEF TouchActive, TypeOK, RingType,
         CountersType, SketchesType
  <1>9. CASE AddToBucket(w)
    <2>1. /\ hf[w].frame \in Frames /\ hf[w].frame.ip \in IP
          /\ hf[w].frame.xid \in XID \union {Nil}
          /\ hf[w].frame.direction = "request"
      BY <1>9, FrameFacts DEF AddToBucket, At, TypeOK, HandleType, RequestPCs
    <2>2. HandleType'
      BY <1>9, <2>1, GotoType, ReturnType DEF AddToBucket, TypeOK, WorkerPCs, RequestPCs
    <2>3. SketchesType'
      <3>1. wall \in Nat /\ hourly \in [Hours -> SUBSET IP]
        BY Zenon DEF TypeOK, SketchesType, WorldType
      <3>2. HourOf(wall) \in Hours
        BY <3>1, HourType
      <3>3. Added(hourly, hour, HourOf(wall), hf[w].frame.ip) \in [Hours -> SUBSET IP]
        BY <2>1, <3>1, <3>2, RingTypes, Zenon
      <3>. QED
        BY <1>9, <3>2, <3>3, Zenon DEF AddToBucket, SketchesType
    <2>. QED
      BY <1>9, <2>2, <2>3, Zenon DEF AddToBucket, TypeOK, RingType,
         CountersType, TablesType
  <1>10. CASE StorePending(w)
    <2>. DEFINE k == <<hf[w].frame.ip, hf[w].frame.xid>>
    <2>1. k \in Key /\ hf[w].ts \in Nat
      BY <1>10, FrameFacts DEF StorePending, At, TypeOK, HandleType, Key
    <2>2. HandleType'
      BY <1>10, ReturnType DEF StorePending, TypeOK
    <2>3. TablesType'
      BY <1>10, <2>1 DEF StorePending, TypeOK, TablesType
    <2>4. m' \in Metrics
      BY <1>10 DEF StorePending, TypeOK, Metrics
    <2>. QED
      BY <1>10, <2>2, <2>3, <2>4, Zenon DEF StorePending, TypeOK, RingType,
         CountersType, SketchesType
  <1>11. CASE PairResponse(w)
    <2>. DEFINE k == <<hf[w].frame.ip, hf[w].frame.xid>>
    <2>1. k \in Key /\ hf[w].ts \in Nat
      BY <1>11, FrameFacts DEF PairResponse, At, TypeOK, HandleType, Key
    <2>2. HandleType'
      BY <1>11, ReturnType DEF PairResponse, TypeOK
    <2>3. TablesType'
      BY <1>11, <2>1 DEF PairResponse, TypeOK, TablesType
    <2>4. m' \in Metrics
      <3>1. CASE pending[k] # Absent /\ hf[w].ts - pending[k] >= 0
        <4>1. m.latency \union {hf[w].ts - pending[k]} \in SUBSET Nat
          <5>1. m.latency \in SUBSET Nat /\ pending[k] \in Nat \union {Absent}
            BY <2>1, Zenon DEF TypeOK, TablesType, Metrics
          <5>. QED
            BY <2>1, <3>1, <5>1
        <4>. QED
          BY <1>11, <3>1, <4>1, ZenonT(40) DEF PairResponse, TypeOK, Metrics
      <3>. QED
        BY <1>11, <3>1 DEF PairResponse, TypeOK
    <2>. QED
      BY <1>11, <2>2, <2>3, <2>4, Zenon DEF PairResponse, TypeOK, RingType,
         CountersType, SketchesType
  <1>. QED
    BY <1>3, <1>4, <1>5, <1>6, <1>7, <1>8, <1>9, <1>10, <1>11 DEF HandleFrame

LEMMA PrunedType ==
  ASSUME NEW totals \in [ASN -> Nat], NEW t \in Pruned(totals)
  PROVE  t \in [ASN -> Nat]
  BY DEF Pruned, pruneToLargest

LEMMA KeysFinite ==
  IsFiniteSet(AsnKey) /\ \A a : IsFiniteSet(KeysOf(a))
  <1>. DEFINE P == (ASN \union {NoASN}) \X Org
              r == [p \in P |-> [asn |-> p[1], asOrg |-> p[2]]]
  <1>1. IsFiniteSet(P)
    <2>1. IsFiniteSet(ASN) /\ IsFiniteSet(Org)
      BY AsnAssumption DEF AsnAssumption
    <2>2. IsFiniteSet(ASN \union {NoASN})
      BY <2>1, FS_AddElement
    <2>. QED
      BY <2>1, <2>2, FS_Product
  <1>2. r \in Surjection(P, AsnKey)
    <2>1. r \in [P -> AsnKey]
      BY DEF AsnKey
    <2>2. ASSUME NEW k \in AsnKey PROVE \E p \in P : r[p] = k
      <3>1. <<k.asn, k.asOrg>> \in P /\ k = [asn |-> k.asn, asOrg |-> k.asOrg]
        BY DEF AsnKey
      <3>2. r[<<k.asn, k.asOrg>>] = k
        BY <3>1
      <3>. QED
        BY <3>1, <3>2, Zenon
    <2>. QED
      BY <2>1, <2>2, Zenon DEF Surjection
  <1>3. IsFiniteSet(AsnKey)
    BY <1>1, <1>2, FS_Surjection, Zenon
  <1>4. \A a : KeysOf(a) \subseteq AsnKey
    BY DEF KeysOf
  <1>. QED
    BY <1>3, <1>4, FS_Subset

(* Sums over some of the keys of one worker's or Flush's map.              *)
LEMMA AsnSumType ==
  ASSUME NEW c \in Counters, NEW S \in SUBSET AsnKey
  PROVE  SumOver(c.asnRequests, S) \in Nat
  <1>1. IsFiniteSet(S)
    BY KeysFinite, FS_Subset
  <1>2. \A k \in S : c.asnRequests[k] \in Nat
    BY DEF Counters
  <1>. QED
    BY <1>1, <1>2, SumType

(* The counting of a table's entries gives a natural number.               *)
LEMMA ActiveInFinite ==
  ASSUME NEW t, NEW s
  PROVE  Cardinality(ActiveIn(t, s)) \in Nat
  <1>1. IsFiniteSet(IP)
    BY CollectorAssumption DEF CollectorAssumption
  <1>2. ActiveIn(t, s) \subseteq IP
    BY DEF ActiveIn
  <1>. QED
    BY <1>1, <1>2, FS_Subset, FS_CardinalityType

LEMMA FlushType == TypeOK /\ Flush => TypeOK'
  <1>. SUFFICES ASSUME TypeOK, Flush PROVE TypeOK'
    OBVIOUS
  <1>1. RingType' /\ HandleType' /\ WorldType' /\ counted' \in Counters
    BY Zenon DEF Flush, world, drops, TypeOK, RingType, HandleType, WorldType, CountersType
  <1>2. SUFFICES wc' \in [Worker -> Counters] /\ TablesType' /\ SketchesType'
                 /\ FlusherType' /\ m' \in Metrics
    BY <1>1 DEF TypeOK, CountersType
  <1>3. 0 \in Worker /\ 0 \in Shard
    BY CollectorAssumption DEF CollectorAssumption, Worker, Shard
  <1>4. /\ fl.worker \in Worker /\ fl.snap \in Counters /\ fl.shard \in Shard
        /\ fl.cutoff \in Int /\ fl.count \in Nat
    BY DEF TypeOK, FlusherType
  <1>. USE DEF tables, sketches, asns
  <1>5. CASE DrainWorker
    <2>1. wc' \in [Worker -> Counters]
      BY <1>5, <1>4, NewCountersType DEF DrainWorker, TypeOK, CountersType
    <2>2. AddCounters(fl.snap, wc[fl.worker]) \in Counters
      BY <1>4, AddCountersType DEF TypeOK, CountersType
    <2>3. FlusherType'
      BY <1>5, <1>3, <2>2, Zenon DEF DrainWorker, TypeOK, FlusherType, FlushPCs
    <2>. QED
      BY <1>5, <2>1, <2>3, Zenon DEF DrainWorker, TypeOK, TablesType, SketchesType
  <1>6. CASE Publish
    <2>1. lastDrops' \in Nat /\ DropsDelta(lastDrops', lastDrops) \in Nat
      BY <1>6 DEF Publish, TypeOK, FlusherType, WorldType, DropsDelta
    <2>2. FlusherType'
      BY <1>6, <2>1 DEF Publish, TypeOK, FlusherType, FlushPCs
    <2>3. \A k \in Country : Unanswered(fl.snap, k) \in Nat /\ fl.snap.requests[k] \in Nat
      BY <1>4 DEF Unanswered, Counters
    <2>4. m' \in Metrics
      <3>. DEFINE R == [k \in Country |-> m.requests[k] + fl.snap.requests[k]]
                  D == [k \in Country |-> m.drops[k] + Unanswered(fl.snap, k)]
                  K == m.kernelDrops + DropsDelta(lastDrops', lastDrops)
      <3>1. R \in [Country -> Nat] /\ D \in [Country -> Nat] /\ K \in Nat
        BY <2>1, <2>3 DEF TypeOK, Metrics
      <3>2. m' = [m EXCEPT !.kernelDrops = K, !.requests = R, !.drops = D]
        BY <1>6 DEF Publish
      <3>. HIDE DEF R, D, K
      <3>. QED
        BY <3>1, <3>2, Zenon DEF TypeOK, Metrics
    <2>. QED
      BY <1>6, <2>2, <2>4, Zenon DEF Publish, TypeOK, CountersType, TablesType,
         SketchesType
  <1>7. CASE PublishBreakdowns
    <2>1. asnTotals' \in [ASN -> Nat] /\ asnMetric' \in [AsnLabel -> Nat]
      <3>1. \A S \in SUBSET AsnKey : SumOver(fl.snap.asnRequests, S) \in Nat
        BY <1>4, AsnSumType
      <3>2. Accumulated(asnTotals, fl.snap.asnRequests) \in [ASN -> Nat]
        BY <3>1 DEF Accumulated, KeysOf, TypeOK, FlusherType
      <3>3. asnTotals' \in [ASN -> Nat]
        BY <1>7, <3>2, PrunedType DEF PublishBreakdowns
      <3>4. asnMetric' \in [AsnLabel -> Nat]
        <4>. DEFINE S(l) == {k \in AsnKey : foldASN(k, topNASNs(asnTotals', AsnTopN)) = l}
        <4>1. asnMetric' = [l \in AsnLabel |-> asnMetric[l] + SumOver(fl.snap.asnRequests, S(l))]
          BY <1>7, Zenon DEF PublishBreakdowns
        <4>2. \A l \in AsnLabel : SumOver(fl.snap.asnRequests, S(l)) \in Nat
          BY <3>1
        <4>. HIDE DEF S
        <4>. QED
          BY <4>1, <4>2 DEF TypeOK, FlusherType
      <3>. QED
        BY <3>3, <3>4
    <2>2. clock - ActiveWindow \in Int
      BY CollectorAssumption DEF CollectorAssumption, TypeOK, WorldType
    <2>3. FlusherType'
      <3>1. fl' = [fl EXCEPT !.pc = "evict", !.snap = newWorkerCounters,
                             !.cutoff = clock - ActiveWindow]
            /\ UNCHANGED lastDrops
        BY <1>7 DEF PublishBreakdowns
      <3>. QED
        BY <3>1, <2>1, <2>2, NewCountersType, Zenon DEF TypeOK, FlusherType, FlushPCs
    <2>4. m' \in Metrics
      <3>. DEFINE V == [v \in Version |-> m.version[v] + fl.snap.versionRequests[v]]
                  F == [f \in Family |-> m.family[f] + fl.snap.familyRequests[f]]
      <3>1. V \in [Version -> Nat] /\ F \in [Family -> Nat]
        <4>1. /\ m.version \in [Version -> Nat] /\ m.family \in [Family -> Nat]
              /\ fl.snap.versionRequests \in [Version -> Nat]
              /\ fl.snap.familyRequests \in [Family -> Nat]
          BY <1>4, Zenon DEF Counters, TypeOK, Metrics
        <4>. QED
          BY <4>1
      <3>2. m' = [m EXCEPT !.version = V, !.family = F]
        BY <1>7 DEF PublishBreakdowns
      <3>. HIDE DEF V, F
      <3>. QED
        BY <3>1, <3>2, Zenon DEF TypeOK, Metrics
    <2>. QED
      BY <1>7, <2>3, <2>4, Zenon DEF PublishBreakdowns, TypeOK, CountersType,
         TablesType, SketchesType
  <1>8. CASE EvictShard
    <2>1. TablesType'
      BY <1>8, <1>4, EvictedActiveType DEF EvictShard, TypeOK, TablesType
    <2>2. Cardinality(ActiveIn(active', fl.shard)) \in Nat
      BY ActiveInFinite
    <2>3. FlusherType'
      <3>. DEFINE n == fl.count + Cardinality(ActiveIn(active', fl.shard))
                  s == IF fl.shard + 1 \in Shard THEN fl.shard + 1 ELSE 0
                  pc == IF fl.shard + 1 \in Shard THEN "evict" ELSE "gauge"
      <3>1. n \in Nat /\ s \in Shard /\ pc \in FlushPCs
        BY <1>3, <1>4, <2>2 DEF FlushPCs
      <3>2. fl' = [fl EXCEPT !.count = n, !.shard = s, !.pc = pc]
        BY <1>8 DEF EvictShard
      <3>. HIDE DEF n, s, pc
      <3>. QED
        BY <1>8, <3>1, <3>2, Zenon DEF EvictShard, TypeOK, FlusherType
    <2>. QED
      BY <1>8, <2>1, <2>3, Zenon DEF EvictShard, TypeOK, CountersType, SketchesType
  <1>9. CASE SetActive
    <2>1. wall - PendingTTL \in Int
      BY CollectorAssumption DEF CollectorAssumption, TypeOK, WorldType
    <2>2. FlusherType'
      BY <1>9, <2>1, Zenon DEF SetActive, TypeOK, FlusherType, FlushPCs
    <2>3. m' \in Metrics
      BY <1>9, <1>4 DEF SetActive, TypeOK, Metrics
    <2>. QED
      BY <1>9, <2>2, <2>3, Zenon DEF SetActive, TypeOK, CountersType, TablesType,
         SketchesType
  <1>10. CASE ExpireShard
    <2>1. TablesType'
      BY <1>10, <1>4, SweptPendingType DEF ExpireShard, TypeOK, TablesType
    <2>2. FlusherType'
      BY <1>10, <1>3, Zenon DEF ExpireShard, TypeOK, FlusherType, FlushPCs
    <2>. QED
      BY <1>10, <2>1, <2>2, Zenon DEF ExpireShard, TypeOK, CountersType, SketchesType
  <1>11. CASE MergeHourly
    <2>1. SketchesType' /\ MergedKeys(hourly') \subseteq IP
      <3>1. HourOf(wall) \in Hours /\ hourly \in [Hours -> SUBSET IP]
        BY HourType DEF TypeOK, WorldType, SketchesType
      <3>2. Rolled(hourly, hour, HourOf(wall)) \in [Hours -> SUBSET IP]
        BY <3>1 DEF Rolled
      <3>3. SketchesType'
        BY <1>11, <3>1, <3>2 DEF MergeHourly, SketchesType
      <3>. QED
        BY <3>3 DEF SketchesType, MergedKeys
    <2>2. FlusherType'
      BY <1>11, <1>3, NewCountersType DEF MergeHourly, NewFlush, TypeOK, FlusherType,
         FlushPCs
    <2>3. m' \in Metrics
      BY <1>11, <2>1 DEF MergeHourly, TypeOK, Metrics
    <2>. QED
      BY <1>11, <2>1, <2>2, <2>3, Zenon DEF MergeHourly, TypeOK, CountersType, TablesType
  <1>. QED
    BY <1>5, <1>6, <1>7, <1>8, <1>9, <1>10, <1>11 DEF Flush

LEMMA StutterType == TypeOK /\ UNCHANGED vars => TypeOK'
  BY Zenon DEF vars, drops, TypeOK, RingType, HandleType, CountersType, TablesType, SketchesType,
     FlusherType, WorldType

LEMMA NextType == TypeOK /\ [Next]_vars => TypeOK'
  BY EnvironmentType, HandleFrameType, FlushType, StutterType DEF Next

(* Every variable of the collector keeps its type, a worker past AddFrame  *)
(* keeps a frame of the kind its branch handles, for any number of workers,*)
(* shards, clients and labels.                                             *)
THEOREM TypeCorrect == Spec => []TypeOK
  BY InitType, NextType, PTL DEF Spec
-----------------------------------------------------------------------------
(* A worker that takes a step other than its CAS is not the witness.       *)
LEMMA SweepStep ==
  TypeOK /\ SweepNotLost /\ [Next]_vars => SweepNotLost'
  <1>. SUFFICES ASSUME TypeOK, SweepNotLost, [Next]_vars,
                       framesSinceSweep' >= PendingSweepEvery
                PROVE  \E v \in Worker : hf'[v].pc = "cas" /\ hf'[v].n = framesSinceSweep'
    BY DEF SweepNotLost
  <1>1. CASE UNCHANGED <<hf, framesSinceSweep>>
    BY <1>1 DEF SweepNotLost
  <1>2. ASSUME NEW w \in Worker, HandleFrame(w)
        PROVE  \E v \in Worker : hf'[v].pc = "cas" /\ hf'[v].n = framesSinceSweep'
    <2>1. CASE AddFrame(w)
      BY <2>1 DEF AddFrame, IdleFrame, TypeOK, HandleType
    <2>2. CASE CompareAndSwap(w)
      <3>1. ~WinsSweep(w) /\ UNCHANGED framesSinceSweep /\ Goto(w, "count")
        <4>1. framesSinceSweep' # 0
          BY Limits
        <4>. QED
          BY <2>2, <4>1, Zenon DEF CompareAndSwap
      <3>2. PICK v \in Worker : hf[v].pc = "cas" /\ hf[v].n = framesSinceSweep
        BY <3>1 DEF SweepNotLost
      <3>3. v # w
        BY <3>1, <3>2 DEF WinsSweep
      <3>4. hf'[v] = hf[v]
        BY <3>1, <3>3 DEF Goto, TypeOK, HandleType
      <3>. QED
        BY <3>1, <3>2, <3>4
    <2>3. ASSUME hf[w].pc # "cas", UNCHANGED framesSinceSweep,
                 \A v \in Worker : v # w => hf'[v] = hf[v]
          PROVE  \E v \in Worker : hf'[v].pc = "cas" /\ hf'[v].n = framesSinceSweep'
      BY <2>3 DEF SweepNotLost
    <2>4. CASE SweepShard(w)
      BY <2>3, <2>4 DEF SweepShard, At, TypeOK, HandleType
    <2>5. CASE Count(w)
      BY <2>3, <2>5 DEF Count, At, Goto, Return, TypeOK, HandleType
    <2>6. CASE ReadClock(w)
      BY <2>3, <2>6 DEF ReadClock, At, TypeOK, HandleType
    <2>7. CASE TouchActive(w)
      BY <2>3, <2>7 DEF TouchActive, At, Goto, TypeOK, HandleType
    <2>8. CASE AddToBucket(w)
      BY <2>3, <2>8 DEF AddToBucket, At, Goto, Return, TypeOK, HandleType
    <2>9. CASE StorePending(w)
      BY <2>3, <2>9 DEF StorePending, At, Return, TypeOK, HandleType
    <2>10. CASE PairResponse(w)
      BY <2>3, <2>10 DEF PairResponse, At, Return, TypeOK, HandleType
    <2>. QED
      BY <1>2, <2>1, <2>2, <2>4, <2>5, <2>6, <2>7, <2>8, <2>9, <2>10 DEF HandleFrame
  <1>. QED
    BY <1>1, <1>2 DEF Next, Environment, Flush, vars

(* aggregate.go:173-177: whatever the number of workers and the threshold, *)
(* losing CAS races never leaves the frame counter past the threshold with *)
(* no worker that will win its CAS.                                        *)
THEOREM SweepAlwaysPending == Spec => []SweepNotLost
  <1>1. Init => SweepNotLost
    <2>1. Init => framesSinceSweep = 0
      BY Zenon DEF Init
    <2>. QED
      BY <2>1, Limits DEF SweepNotLost
  <1>. QED
    BY <1>1, TypeCorrect, SweepStep, PTL DEF Spec

LEMMA PendingInFinite ==
  ASSUME NEW s
  PROVE  IsFiniteSet(PendingIn(s)) /\ Cardinality(PendingIn(s)) \in Nat
  <1>1. IsFiniteSet(Key)
    BY CollectorAssumption, FS_Product DEF CollectorAssumption, Key
  <1>2. PendingIn(s) \subseteq Key
    BY DEF PendingIn
  <1>. QED
    BY <1>1, <1>2, FS_Subset, FS_CardinalityType

LEMMA OneMore ==
  ASSUME NEW S, IsFiniteSet(S), NEW e
  PROVE  /\ IsFiniteSet(S \union {e})
         /\ Cardinality(S \union {e}) <= Cardinality(S) + 1
  <1>1. Cardinality(S) \in Nat
    BY FS_CardinalityType
  <1>2. /\ IsFiniteSet(S \union {e})
        /\ Cardinality(S \union {e}) = IF e \in S THEN Cardinality(S)
                                       ELSE Cardinality(S) + 1
    BY FS_AddElement, Zenon
  <1>. QED
    BY <1>1, <1>2

(* A step that stores no key keeps every shard within its bound.           *)
LEMMA PendingShrinks ==
  ASSUME PendingBounded, NEW s \in Shard, PendingIn(s)' \subseteq PendingIn(s)
  PROVE  Cardinality(PendingIn(s)') <= PendingMax
  <1>1. /\ Cardinality(PendingIn(s)') <= Cardinality(PendingIn(s))
        /\ Cardinality(PendingIn(s)') \in Nat
    BY PendingInFinite, FS_Subset, FS_CardinalityType
  <1>2. Cardinality(PendingIn(s)) <= PendingMax /\ PendingMax \in Nat
    BY CollectorAssumption DEF CollectorAssumption, PendingBounded
  <1>. QED
    BY <1>1, <1>2, PendingInFinite

LEMMA PendingStep ==
  TypeOK /\ PendingBounded /\ [Next]_vars => PendingBounded'
  <1>. SUFFICES ASSUME TypeOK, PendingBounded, [Next]_vars, NEW s \in Shard
                PROVE  Cardinality(PendingIn(s)') <= PendingMax
    BY DEF PendingBounded
  <1>1. CASE UNCHANGED pending
    BY <1>1, PendingShrinks DEF PendingIn
  <1>2. ASSUME NEW r, NEW cutoff, pending' = SweptPending(r, cutoff)
        PROVE  Cardinality(PendingIn(s)') <= PendingMax
    <2>1. PendingIn(s)' \subseteq PendingIn(s)
      BY <1>2 DEF PendingIn, SweptPending
    <2>. QED
      BY <2>1, PendingShrinks
  <1>3. ASSUME NEW w \in Worker, StorePending(w)
        PROVE  Cardinality(PendingIn(s)') <= PendingMax
    <2>. DEFINE k == <<hf[w].frame.ip, hf[w].frame.xid>>
    <2>1. k \in Key /\ k[1] \in IP
      BY <1>3, FrameFacts DEF StorePending, At, TypeOK, HandleType, Key
    <2>2. SUFFICES ASSUME ~Overflows(k), pending' = [pending EXCEPT ![k] = hf[w].ts]
                   PROVE  Cardinality(PendingIn(s)') <= PendingMax
      BY <1>1, <1>3 DEF StorePending
    <2>3. CASE pending[k] # Absent \/ ShardIndex[k[1]] # s
      <3>1. PendingIn(s)' \subseteq PendingIn(s)
        BY <2>1, <2>2, <2>3 DEF PendingIn, TypeOK, TablesType
      <3>. QED
        BY <3>1, PendingShrinks
    <2>4. CASE pending[k] = Absent /\ ShardIndex[k[1]] = s
      <3>1. ~(Cardinality(PendingIn(s)) >= PendingMax)
        BY <2>2, <2>4 DEF Overflows
      <3>2. PendingIn(s)' \subseteq PendingIn(s) \union {k}
        BY <2>1, <2>2 DEF PendingIn, TypeOK, TablesType
      <3>3. /\ IsFiniteSet(PendingIn(s) \union {k})
            /\ Cardinality(PendingIn(s) \union {k}) <= Cardinality(PendingIn(s)) + 1
        BY PendingInFinite, OneMore, ZenonT(40)
      <3>4. /\ Cardinality(PendingIn(s)') <= Cardinality(PendingIn(s) \union {k})
            /\ Cardinality(PendingIn(s)') \in Nat
            /\ Cardinality(PendingIn(s) \union {k}) \in Nat
        BY <3>2, <3>3, FS_Subset, FS_CardinalityType
      <3>. QED
        <4>1. Cardinality(PendingIn(s)) \in Nat
          BY PendingInFinite, Zenon
        <4>. QED
          BY <3>1, <3>3, <3>4, <4>1, Limits
    <2>. QED
      BY <2>3, <2>4
  <1>4. ASSUME NEW w \in Worker, PairResponse(w)
        PROVE  Cardinality(PendingIn(s)') <= PendingMax
    <2>1. PendingIn(s)' \subseteq PendingIn(s)
      BY <1>4 DEF PairResponse, PendingIn, TypeOK, TablesType
    <2>. QED
      BY <2>1, PendingShrinks
  <1>5. ASSUME NEW w \in Worker, HandleFrame(w)
        PROVE  Cardinality(PendingIn(s)') <= PendingMax
    BY <1>1, <1>2, <1>3, <1>4, <1>5, ZenonT(40) DEF HandleFrame, AddFrame, CompareAndSwap,
       SweepShard, Count, ReadClock, TouchActive, AddToBucket, tables
  <1>6. CASE Flush
    BY <1>1, <1>2, <1>6, ZenonT(40) DEF Flush, DrainWorker, Publish, PublishBreakdowns,
       EvictShard, SetActive, ExpireShard, MergeHourly, tables
  <1>. QED
    BY <1>1, <1>5, <1>6 DEF Next, Environment, tables, vars

(* aggregate.go:224-233: no shard's pending table ever exceeds PendingMax, *)
(* for any bound, any sharding and any interleaving of workers and sweeps. *)
THEOREM PendingTablesBounded == Spec => []PendingBounded
  <1>1. Init => PendingBounded
    <2>. SUFFICES ASSUME Init, NEW s \in Shard PROVE Cardinality(PendingIn(s)) <= PendingMax
      BY DEF PendingBounded
    <2>1. pending = [k \in Key |-> Absent]
      BY Zenon DEF Init
    <2>2. PendingIn(s) = {}
      BY <2>1 DEF PendingIn
    <2>. QED
      BY <2>2, FS_EmptySet, Limits
  <1>. QED
    BY <1>1, TypeCorrect, PendingStep, PTL DEF Spec

(* The drops not yet exported are covered by drops that happened, also     *)
(* after a flush that saw the sum fall.                                    *)
DropsInv ==
  /\ KernelDropsNotOvercounted
  /\ m.kernelDrops + unseen <= dropped
  /\ m.kernelDrops + tpDrops + unseen <= dropped + lastDrops

LEMMA DropsStep == TypeOK /\ DropsInv /\ [Next]_vars => DropsInv'
  <1>. SUFFICES ASSUME TypeOK, DropsInv, [Next]_vars PROVE DropsInv'
    OBVIOUS
  <1>. USE DEF DropsInv, KernelDropsNotOvercounted
  <1>1. /\ m.kernelDrops \in Nat /\ lastDrops \in Nat
        /\ tpDrops \in Nat /\ unseen \in Nat /\ dropped \in Nat
    BY DEF TypeOK, Metrics, WorldType, FlusherType
  <1>2. CASE m'.kernelDrops = m.kernelDrops /\ UNCHANGED <<lastDrops, drops>>
    BY <1>1, <1>2 DEF drops
  <1>3. CASE Environment
    <2>1. UNCHANGED <<m, lastDrops>>
      BY <1>3 DEF Environment, flusher
    <2>2. CASE KernelDrop
      BY <1>1, <2>1, <2>2 DEF KernelDrop
    <2>3. CASE SocketsChange
      BY <1>1, <2>1, <2>3 DEF SocketsChange
    <2>. QED
      BY <1>2, <1>3, <2>1, <2>2, <2>3, ZenonT(40) DEF Environment, Capture, Tick, StepWall
  <1>4. ASSUME NEW w \in Worker, HandleFrame(w)
        PROVE  DropsInv'
    <2>1. UNCHANGED <<lastDrops, drops>>
      BY <1>4 DEF HandleFrame, flusher, world
    <2>2. m'.kernelDrops = m.kernelDrops
      BY <1>4, Zenon DEF HandleFrame, AddFrame, CompareAndSwap, SweepShard, Count, ReadClock,
         TouchActive, AddToBucket, StorePending, PairResponse, TypeOK, Metrics
    <2>. QED
      BY <1>2, <2>1, <2>2
  <1>5. CASE Flush
    <2>1. UNCHANGED drops
      BY <1>5 DEF Flush, world
    <2>2. CASE Publish
      <3>1. m'.kernelDrops = m.kernelDrops + DropsDelta(lastDrops', lastDrops)
        BY <2>2 DEF Publish, TypeOK, Metrics
      <3>2. lastDrops' \in {tpDrops, lastDrops}
        BY <2>2 DEF Publish
      <3>. QED
        BY <1>1, <2>1, <3>1, <3>2 DEF DropsDelta, drops
    <2>3. CASE ~Publish
      <3>1. UNCHANGED lastDrops
        BY <1>5, <2>3, Zenon DEF Flush, DrainWorker, PublishBreakdowns, EvictShard, SetActive,
           ExpireShard, MergeHourly
      <3>2. m'.kernelDrops = m.kernelDrops
        BY <1>5, <2>3, Zenon DEF Flush, DrainWorker, PublishBreakdowns, EvictShard, SetActive,
           ExpireShard, MergeHourly, TypeOK, Metrics
      <3>. QED
        BY <1>2, <2>1, <3>1, <3>2
    <2>. QED
      BY <2>2, <2>3
  <1>. QED
    BY <1>2, <1>3, <1>4, <1>5 DEF Next, vars

(* aggregate.go:300-311: whatever sockets are reopened between flushes,    *)
(* the exported kernel drops never exceed the frames the kernel dropped.   *)
THEOREM DropsNeverOvercounted == Spec => []KernelDropsNotOvercounted
  <1>1. Init => DropsInv
    <2>1. Init => m.kernelDrops = 0
      BY DEF Init
    <2>2. Init => lastDrops = 0 /\ DropsInit
      BY Zenon DEF Init
    <2>. QED
      BY <2>1, <2>2 DEF DropsInit, DropsInv, KernelDropsNotOvercounted
  <1>2. Spec => []DropsInv
    BY <1>1, TypeCorrect, DropsStep, PTL DEF Spec
  <1>. QED
    BY <1>2, PTL DEF DropsInv

(* The clients in the shards before shard n.                               *)
Below(t, n) == {ip \in IP : ShardIndex[ip] < n /\ t[ip] # Absent}

(* What Flush has counted is still in the shards it has visited: workers   *)
(* only add to them, and it evicts in the shard it counts next.            *)
ActiveInv ==
  /\ fl.pc \in {"drain", "publish", "breakdown"} => fl.count = 0 /\ fl.shard = 0
  /\ fl.pc = "evict" => fl.count <= Cardinality(Below(active, fl.shard))
  /\ fl.pc = "gauge" => fl.count <= Cardinality(Below(active, NumShards))

LEMMA BelowFinite ==
  ASSUME NEW t, NEW n
  PROVE  IsFiniteSet(Below(t, n)) /\ Cardinality(Below(t, n)) \in Nat
  <1>1. IsFiniteSet(IP)
    BY CollectorAssumption DEF CollectorAssumption
  <1>2. Below(t, n) \subseteq IP
    BY DEF Below
  <1>. QED
    BY <1>1, <1>2, FS_Subset, FS_CardinalityType

LEMMA BelowGrows ==
  ASSUME NEW t, NEW u, NEW n, \A ip \in IP : t[ip] # Absent => u[ip] # Absent
  PROVE  Cardinality(Below(t, n)) <= Cardinality(Below(u, n))
  <1>1. Below(t, n) \subseteq Below(u, n)
    BY DEF Below
  <1>. QED
    BY <1>1, BelowFinite, FS_Subset

LEMMA BelowNext ==
  ASSUME NEW t, NEW s \in Shard
  PROVE  Cardinality(Below(t, s + 1)) = Cardinality(Below(t, s)) + Cardinality(ActiveIn(t, s))
  <1>1. ShardIndex \in [IP -> Shard] /\ NumShards \in Nat
    BY CollectorAssumption DEF CollectorAssumption
  <1>2. Below(t, s + 1) = Below(t, s) \union ActiveIn(t, s)
    BY <1>1 DEF Below, ActiveIn, Shard
  <1>3. Below(t, s) \intersect ActiveIn(t, s) = {}
    BY <1>1 DEF Below, ActiveIn, Shard
  <1>4. ActiveIn(t, s) \subseteq Below(t, s + 1)
    BY <1>2
  <1>5. IsFiniteSet(ActiveIn(t, s)) /\ IsFiniteSet(Below(t, s))
    BY <1>4, BelowFinite, FS_Subset
  <1>. DEFINE below == Cardinality(Below(t, s))
              here == Cardinality(ActiveIn(t, s))
              both == Cardinality(Below(t, s) \intersect ActiveIn(t, s))
              either == Cardinality(Below(t, s) \union ActiveIn(t, s))
  <1>6. either = below + here - both
    BY <1>5, FS_Union
  <1>7. both = 0
    BY <1>3, FS_EmptySet
  <1>8. below \in Nat /\ here \in Nat
    BY <1>5, FS_CardinalityType
  <1>9. either = below + here
    <2>. HIDE DEF below, here, both, either
    <2>. QED
      BY <1>6, <1>7, <1>8
  <1>. QED
    BY <1>2, <1>9, Zenon

LEMMA ActiveStep == TypeOK /\ ActiveInv /\ [Next]_vars => ActiveInv'
  <1>. SUFFICES ASSUME TypeOK, ActiveInv, [Next]_vars PROVE ActiveInv'
    OBVIOUS
  <1>0. /\ fl.count \in Nat /\ fl.shard \in Shard /\ DOMAIN active = IP
        /\ NumShards \in Nat \ {0} /\ ShardIndex \in [IP -> Shard] /\ Absent \notin Int
    BY CollectorAssumption DEF CollectorAssumption, TypeOK, FlusherType, TablesType
  <1>1. ASSUME UNCHANGED fl, \A ip \in IP : active[ip] # Absent => active'[ip] # Absent
        PROVE  ActiveInv'
    <2>1. \A n \in Nat : /\ Cardinality(Below(active, n)) <= Cardinality(Below(active', n))
                         /\ Cardinality(Below(active, n)) \in Nat
                         /\ Cardinality(Below(active', n)) \in Nat
      BY <1>1, BelowGrows, BelowFinite
    <2>. QED
      BY <1>0, <1>1, <2>1 DEF ActiveInv, Shard
  <1>2. ASSUME NEW w \in Worker, HandleFrame(w)
        PROVE  ActiveInv'
    <2>1. UNCHANGED fl
      BY <1>2 DEF HandleFrame, flusher
    <2>2. CASE TouchActive(w)
      <3>1. active' = [active EXCEPT ![hf[w].frame.ip] = hf[w].now] /\ hf[w].now \in Nat
        BY <2>2 DEF TouchActive, TypeOK, HandleType
      <3>. QED
        BY <1>0, <1>1, <2>1, <3>1
    <2>3. CASE UNCHANGED active
      BY <1>1, <2>1, <2>3
    <2>. QED
      BY <1>2, <2>2, <2>3, Zenon DEF HandleFrame, AddFrame, CompareAndSwap, SweepShard, Count,
         ReadClock, AddToBucket, StorePending, PairResponse, tables
  <1>3. CASE EvictShard
    <2>. DEFINE s == fl.shard
                more == Cardinality(ActiveIn(active', s))
                before == Cardinality(Below(active, s))
                after == Cardinality(Below(active', s + 1))
    <2>1. Below(active', s) = Below(active, s)
      BY <1>0, <1>3 DEF EvictShard, EvictedActive, Below, ActiveIn, Shard
    <2>2. after = before + more /\ before \in Nat /\ after \in Nat
      BY <1>0, <2>1, BelowNext, BelowFinite
    <2>3. fl.count <= before
      BY <1>3 DEF ActiveInv, EvictShard
    <2>4. /\ fl'.count = fl.count + more
          /\ fl'.shard = IF s + 1 \in Shard THEN s + 1 ELSE 0
          /\ fl'.pc = IF s + 1 \in Shard THEN "evict" ELSE "gauge"
      BY <1>3 DEF EvictShard, TypeOK, FlusherType
    <2>5. s + 1 \notin Shard => s + 1 = NumShards
      BY <1>0 DEF Shard
    <2>6. more \in Nat
      <3>1. ActiveIn(active', s) \subseteq IP /\ IsFiniteSet(IP)
        BY CollectorAssumption DEF CollectorAssumption, ActiveIn
      <3>. QED
        BY <3>1, FS_Subset, FS_CardinalityType
    <2>7. fl'.count <= after
      BY <1>0, <2>2, <2>3, <2>4, <2>6
    <2>. QED
      BY <2>4, <2>5, <2>7 DEF ActiveInv
  <1>4. CASE PublishBreakdowns
    <2>1. fl'.count = 0 /\ fl'.shard = 0 /\ fl'.pc = "evict"
      BY <1>4 DEF PublishBreakdowns, ActiveInv, TypeOK, FlusherType
    <2>. QED
      BY <2>1, BelowFinite DEF ActiveInv
  <1>5. CASE DrainWorker \/ Publish \/ SetActive \/ ExpireShard \/ MergeHourly
    <2>1. /\ fl'.pc \notin {"evict", "gauge"}
          /\ fl'.pc \in {"drain", "publish", "breakdown"} => fl'.count = 0 /\ fl'.shard = 0
      <3>1. CASE DrainWorker
        BY <3>1 DEF DrainWorker, ActiveInv, TypeOK, FlusherType
      <3>2. CASE Publish
        BY <3>2 DEF Publish, ActiveInv, TypeOK, FlusherType
      <3>3. CASE SetActive
        BY <3>3 DEF SetActive, TypeOK, FlusherType
      <3>4. CASE ExpireShard
        BY <3>4 DEF ExpireShard, TypeOK, FlusherType
      <3>5. CASE MergeHourly
        BY <3>5 DEF MergeHourly, NewFlush
      <3>. QED
        BY <1>5, <3>1, <3>2, <3>3, <3>4, <3>5
    <2>. QED
      BY <2>1 DEF ActiveInv
  <1>6. CASE Environment \/ UNCHANGED vars
    BY <1>1, <1>6 DEF Environment, tables, flusher, vars
  <1>. QED
    BY <1>2, <1>3, <1>4, <1>5, <1>6 DEF Next, Flush

(* aggregate.go:346-358: for any number of shards and of workers adding    *)
(* clients meanwhile, the gauge is never set to more clients than the      *)
(* table holds at that moment.                                             *)
THEOREM ActiveGaugeAlwaysSound == Spec => []ActiveGaugeSound
  <1>1. Init => ActiveInv
    <2>. SUFFICES ASSUME Init PROVE ActiveInv
      OBVIOUS
    <2>1. fl.pc = "drain" /\ fl.count = 0 /\ fl.shard = 0
      BY DEF Init, NewFlush
    <2>. QED
      BY <2>1 DEF ActiveInv
  <1>2. Spec => []ActiveInv
    BY <1>1, TypeCorrect, ActiveStep, PTL DEF Spec
  <1>3. ActiveInv => ActiveGaugeSound
    <2>1. Below(active, NumShards) = {ip \in IP : active[ip] # Absent}
      BY CollectorAssumption DEF CollectorAssumption, Below, Shard
    <2>. QED
      BY <2>1 DEF ActiveInv, ActiveGaugeSound
  <1>. QED
    BY <1>2, <1>3, PTL
=============================================================================
