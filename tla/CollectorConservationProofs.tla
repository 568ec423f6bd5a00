--------------------- MODULE CollectorConservationProofs ---------------------
(***************************************************************************)
(* What happens to the counts between a worker's map and the metrics: no   *)
(* request is lost or published twice, the breakdowns of the requests      *)
(* agree, the drops cover what was not answered, the totals that rank the  *)
(* ASNs are those of the published requests.                               *)
(*                                                                         *)
(* A number read off the counters, such as the requests of one country, is *)
(* a function p on Counters. It is linear when draining adds it up and     *)
(* counting a frame adds the same to it whatever was counted before. For a *)
(* linear p, p[counted] - p[fl.snap] less what the workers hold (Settled)  *)
(* is what has left them for good: only PublishBreakdowns changes it.      *)
(***************************************************************************)
EXTENDS CollectorProofs

Linear(p) ==
  /\ p \in [Counters -> Nat] /\ p[newWorkerCounters] = 0
  /\ \A c, d \in Counters : p[AddCounters(c, d)] = p[c] + p[d]
  /\ \A f \in Frame, g \in Geo : \E e \in Nat :
       \A c \in Counters : p[CountRequest(c, f, g)] = p[c] + e
  /\ \A g \in Geo : \E e \in Nat :
       \A c \in Counters : p[CountResponse(c, g)] = p[c] + e

Held(p)    == SumOver([w \in Worker |-> p[wc[w]]], Worker)
Settled(p) == p[counted] - p[fl.snap] - Held(p)

(* The same, for what Publish already publishes.                           *)
SettledEarly(p) == Settled(p) + (IF fl.pc = "breakdown" THEN p[fl.snap] ELSE 0)

(* Flush drops its snapshot as soon as it has published all of it.         *)
SnapReset ==
  fl.pc \in {"evict", "gauge", "expire", "merge"} => fl.snap = newWorkerCounters
-----------------------------------------------------------------------------
(* The steps of the collector, as far as counts are concerned.             *)
Published(metrics) ==
  <<metrics.requests, metrics.drops, metrics.version, metrics.family>>

KeepsCounts ==
  /\ UNCHANGED <<wc, counted, asns>> /\ Published(m') = Published(m)
  /\ fl'.snap = fl.snap /\ (fl'.pc = "breakdown" <=> fl.pc = "breakdown")

CountsRequest ==
  /\ \E w \in Worker, f \in Frame, g \in Geo :
       /\ wc' = [wc EXCEPT ![w] = CountRequest(@, f, g)]
       /\ counted' = CountRequest(counted, f, g)
  /\ UNCHANGED <<fl, asns>> /\ Published(m') = Published(m)

CountsResponse ==
  /\ \E w \in Worker, g \in Geo :
       /\ wc' = [wc EXCEPT ![w] = CountResponse(@, g)]
       /\ counted' = CountResponse(counted, g)
  /\ UNCHANGED <<fl, asns>> /\ Published(m') = Published(m)

FlushMoves == (DrainWorker \/ Publish \/ PublishBreakdowns) /\ UNCHANGED counted

LEMMA StepKinds ==
  ASSUME TypeOK, SnapReset, [Next]_vars
  PROVE  KeepsCounts \/ CountsRequest \/ CountsResponse \/ FlushMoves
  <1>1. CASE UNCHANGED <<wc, counted, m, fl, asns>>
    BY <1>1 DEF KeepsCounts, Published
  <1>2. ASSUME NEW w \in Worker, HandleFrame(w)
        PROVE  KeepsCounts \/ CountsRequest \/ CountsResponse
    <2>1. UNCHANGED <<fl, asns>>
      BY <1>2 DEF HandleFrame, flusher
    <2>2. CASE Count(w)
      <3>1. Published(m') = Published(m)
        BY <2>2 DEF Count, Published, TypeOK, Metrics
      <3>2. hf[w].frame \in Frame /\ hf[w].frame.ip \in IP
        BY <2>2, FrameFacts DEF Count, At
      <3>3. GeoOf[hf[w].frame.ip] \subseteq Geo
        BY <3>2, CollectorAssumption DEF CollectorAssumption
      <3>. QED
        BY <2>1, <2>2, <3>1, <3>2, <3>3, Zenon DEF Count, CountsRequest, CountsResponse
    <2>3. CASE UNCHANGED <<wc, counted>> /\ Published(m') = Published(m)
      BY <2>1, <2>3 DEF KeepsCounts
    <2>4. CASE AddFrame(w) \/ CompareAndSwap(w) \/ SweepShard(w) \/ ReadClock(w)
               \/ AddToBucket(w)
      BY <2>3, <2>4 DEF AddFrame, CompareAndSwap, SweepShard, ReadClock,
         AddToBucket, counters
    <2>5. CASE TouchActive(w)
      BY <2>3, <2>5 DEF TouchActive, counters, Published, TypeOK, Metrics
    <2>6. CASE StorePending(w)
      BY <2>3, <2>6 DEF StorePending, counters, Published, TypeOK, Metrics
    <2>7. CASE PairResponse(w)
      BY <2>3, <2>7 DEF PairResponse, counters, Published, TypeOK, Metrics
    <2>. QED
      BY <1>2, <2>2, <2>4, <2>5, <2>6, <2>7 DEF HandleFrame
  <1>3. CASE Flush
    <2>1. UNCHANGED counted
      BY <1>3 DEF Flush
    <2>2. CASE EvictShard
      BY <2>1, <2>2 DEF EvictShard, KeepsCounts, TypeOK, FlusherType
    <2>3. CASE SetActive
      BY <2>1, <2>3 DEF SetActive, KeepsCounts, Published, TypeOK, FlusherType, Metrics
    <2>4. CASE ExpireShard
      BY <2>1, <2>4 DEF ExpireShard, KeepsCounts, TypeOK, FlusherType
    <2>5. CASE MergeHourly
      <3>1. fl.snap = newWorkerCounters /\ fl.pc = "merge" /\ fl' = NewFlush
        BY <2>5 DEF MergeHourly, SnapReset
      <3>2. fl'.snap = fl.snap /\ fl'.pc = "drain"
        BY <3>1 DEF NewFlush
      <3>. QED
        BY <2>1, <2>5, <3>1, <3>2 DEF MergeHourly, KeepsCounts, Published, TypeOK, Metrics
    <2>. QED
      BY <1>3, <2>1, <2>2, <2>3, <2>4, <2>5 DEF Flush, FlushMoves
  <1>. QED
    BY <1>1, <1>2, <1>3 DEF Next, Environment, counters, flusher, asns, vars

LEMMA SnapStep == TypeOK /\ SnapReset /\ [Next]_vars => SnapReset'
  <1>. SUFFICES ASSUME TypeOK, SnapReset, [Next]_vars PROVE SnapReset'
    OBVIOUS
  <1>1. CASE UNCHANGED fl
    BY <1>1 DEF SnapReset
  <1>2. CASE DrainWorker
    BY <1>2 DEF DrainWorker, SnapReset, TypeOK, FlusherType
  <1>3. CASE Publish
    BY <1>3 DEF Publish, SnapReset, TypeOK, FlusherType
  <1>4. CASE PublishBreakdowns
    BY <1>4 DEF PublishBreakdowns, SnapReset, TypeOK, FlusherType
  <1>5. CASE EvictShard
    BY <1>5 DEF EvictShard, SnapReset, TypeOK, FlusherType
  <1>6. CASE SetActive
    BY <1>6 DEF SetActive, SnapReset, TypeOK, FlusherType
  <1>7. CASE ExpireShard
    BY <1>7 DEF ExpireShard, SnapReset, TypeOK, FlusherType
  <1>8. CASE MergeHourly
    BY <1>8 DEF MergeHourly, NewFlush, SnapReset
  <1>. QED
    BY <1>1, <1>2, <1>3, <1>4, <1>5, <1>6, <1>7, <1>8, ZenonT(40)
    DEF Next, Environment, HandleFrame, Flush, flusher, vars

LEMMA SnapAlwaysReset == Spec => []SnapReset
  <1>1. Init => SnapReset
    BY DEF Init, NewFlush, SnapReset
  <1>. QED
    BY <1>1, TypeCorrect, SnapStep, PTL DEF Spec

-----------------------------------------------------------------------------
(* What the steps do to a linear number.                                   *)
LEMMA WorkersFinite == IsFiniteSet(Worker)
  <1>1. 0 \in Int /\ NumWorkers - 1 \in Int
    BY CollectorAssumption DEF CollectorAssumption
  <1>. QED
    BY <1>1, FS_Interval DEF Worker

LEMMA LinearTypes ==
  ASSUME TypeOK, NEW p, Linear(p)
  PROVE  /\ p[counted] \in Nat /\ p[fl.snap] \in Nat /\ Held(p) \in Nat
         /\ \A w \in Worker : p[wc[w]] \in Nat
  <1>1. counted \in Counters /\ fl.snap \in Counters /\ \A w \in Worker : wc[w] \in Counters
    BY DEF TypeOK, CountersType, FlusherType
  <1>2. /\ p[counted] \in Nat /\ p[fl.snap] \in Nat /\ \A w \in Worker : p[wc[w]] \in Nat
    BY <1>1 DEF Linear
  <1>. DEFINE f == [w \in Worker |-> p[wc[w]]]
  <1>3. \A w \in Worker : f[w] \in Nat
    BY <1>2
  <1>4. SumOver(f, Worker) \in Nat
    BY <1>3, WorkersFinite, SumType
  <1>. QED
    BY <1>2, <1>4, Zenon DEF Held

(* Counting moves what is counted and what a worker holds alike.           *)
LEMMA SettledCounting ==
  ASSUME TypeOK, NEW p, Linear(p), NEW w \in Worker, NEW e \in Nat, NEW c,
         wc' = [wc EXCEPT ![w] = c], p[c] = p[wc[w]] + e,
         p[counted'] = p[counted] + e, UNCHANGED fl
  PROVE  Settled(p)' = Settled(p)
  <1>1. /\ p[counted] \in Nat /\ p[fl.snap] \in Nat /\ Held(p) \in Nat
        /\ \A v \in Worker : p[wc[v]] \in Nat
    BY LinearTypes
  <1>2. wc'[w] = c /\ \A v \in Worker \ {w} : wc'[v] = wc[v]
    BY DEF TypeOK, CountersType
  <1>. DEFINE f == [v \in Worker |-> p[wc[v]]]
              h == [v \in Worker |-> p[wc'[v]]]
  <1>3. /\ \A v \in Worker : f[v] \in Nat
        /\ h[w] = f[w] + e /\ \A v \in Worker \ {w} : h[v] = f[v]
    BY <1>1, <1>2
  <1>4. Held(p)' = Held(p) + e
    <2>. HIDE DEF f, h
    <2>1. SumOver(h, Worker) = SumOver(f, Worker) + e
      BY <1>3, WorkersFinite, SumGrows
    <2>. QED
      BY <2>1, Zenon DEF f, h, Held
  <1>5. (p[counted] + e) - p[fl.snap] - (Held(p) + e) = p[counted] - p[fl.snap] - Held(p)
    BY <1>1
  <1>. QED
    BY <1>4, <1>5, Zenon DEF Settled

LEMMA SettledDraining ==
  ASSUME TypeOK, TypeOK', NEW p, Linear(p), DrainWorker, UNCHANGED counted
  PROVE  Settled(p)' = Settled(p)
  <1>. DEFINE w == fl.worker
              x == p[wc[w]]
  <1>1. /\ p[counted] \in Nat /\ p[fl.snap] \in Nat /\ Held(p) \in Nat
        /\ \A v \in Worker : p[wc[v]] \in Nat
    BY LinearTypes
  <1>2. /\ w \in Worker /\ fl.snap \in Counters /\ wc \in [Worker -> Counters]
    BY DEF TypeOK, FlusherType, CountersType
  <1>3. /\ fl'.snap = AddCounters(fl.snap, wc[w])
        /\ wc' = [wc EXCEPT ![w] = newWorkerCounters]
    BY <1>2 DEF DrainWorker, TypeOK, FlusherType
  <1>4. p[fl'.snap] = p[fl.snap] + x
    BY <1>2, <1>3 DEF Linear
  <1>5. /\ wc'[w] = newWorkerCounters /\ \A v \in Worker \ {w} : wc[v] = wc'[v]
    BY <1>2, <1>3
  <1>6. p[newWorkerCounters] = 0 /\ x \in Nat
    BY <1>1, <1>2 DEF Linear
  <1>7. /\ p[wc[w]] = p[wc'[w]] + x
        /\ \A v \in Worker : p[wc'[v]] \in Nat
    BY <1>1, <1>5, <1>6
  <1>. HIDE DEF x, w
  <1>. DEFINE f == [v \in Worker |-> p[wc[v]]]
              h == [v \in Worker |-> p[wc'[v]]]
  <1>8. /\ \A v \in Worker : h[v] \in Nat
        /\ f[w] = h[w] + x /\ \A v \in Worker \ {w} : f[v] = h[v]
    BY <1>2, <1>5, <1>7
  <1>9. Held(p) = Held(p)' + x /\ Held(p)' \in Nat
    <2>. HIDE DEF f, h
    <2>1. SumOver(f, Worker) = SumOver(h, Worker) + x
      BY <1>2, <1>6, <1>8, WorkersFinite, SumGrows
    <2>2. SumOver(h, Worker) \in Nat
      BY <1>8, WorkersFinite, SumType
    <2>. QED
      BY <2>1, <2>2, Zenon DEF f, h, Held
  <1>10. p[counted] - (p[fl.snap] + x) - Held(p)' = p[counted] - p[fl.snap] - (Held(p)' + x)
    BY <1>1, <1>6, <1>9
  <1>. QED
    BY <1>4, <1>9, <1>10, Zenon DEF Settled

LEMMA SettledKept ==
  ASSUME TypeOK, TypeOK', NEW p, Linear(p),
         \/ KeepsCounts \/ CountsRequest \/ CountsResponse
         \/ DrainWorker /\ UNCHANGED counted
  PROVE  /\ Settled(p)' = Settled(p) /\ SettledEarly(p)' = SettledEarly(p)
         /\ p[counted'] >= p[counted]
  <1>0. p[counted] \in Nat
    BY LinearTypes
  <1>1. CASE KeepsCounts
    <2>1. /\ wc' = wc /\ counted' = counted /\ fl'.snap = fl.snap
          /\ fl'.pc = "breakdown" <=> fl.pc = "breakdown"
      BY <1>1 DEF KeepsCounts
    <2>. QED
      BY <1>0, <2>1 DEF Settled, SettledEarly, Held
  <1>2. CASE CountsRequest
    <2>1. PICK w \in Worker, f \in Frame, g \in Geo :
            /\ wc' = [wc EXCEPT ![w] = CountRequest(@, f, g)]
            /\ counted' = CountRequest(counted, f, g)
      BY <1>2, Zenon DEF CountsRequest
    <2>2. PICK e \in Nat : \A c \in Counters : p[CountRequest(c, f, g)] = p[c] + e
      BY DEF Linear
    <2>3. counted \in Counters /\ wc[w] \in Counters
      BY DEF TypeOK, CountersType
    <2>4. UNCHANGED fl
      BY <1>2 DEF CountsRequest
    <2>5. p[CountRequest(wc[w], f, g)] = p[wc[w]] + e /\ p[counted'] = p[counted] + e
      BY <2>1, <2>2, <2>3, Zenon
    <2>6. Settled(p)' = Settled(p)
      BY <2>1, <2>4, <2>5, SettledCounting, Zenon
    <2>7. p[counted'] >= p[counted]
      BY <1>0, <2>5
    <2>. QED
      BY <2>4, <2>6, <2>7, Zenon DEF SettledEarly
  <1>3. CASE CountsResponse
    <2>1. PICK w \in Worker, g \in Geo :
            /\ wc' = [wc EXCEPT ![w] = CountResponse(@, g)]
            /\ counted' = CountResponse(counted, g)
      BY <1>3, Zenon DEF CountsResponse
    <2>2. PICK e \in Nat : \A c \in Counters : p[CountResponse(c, g)] = p[c] + e
      BY DEF Linear
    <2>3. counted \in Counters /\ wc[w] \in Counters
      BY DEF TypeOK, CountersType
    <2>4. UNCHANGED fl
      BY <1>3 DEF CountsResponse
    <2>5. p[CountResponse(wc[w], g)] = p[wc[w]] + e /\ p[counted'] = p[counted] + e
      BY <2>1, <2>2, <2>3, Zenon
    <2>6. Settled(p)' = Settled(p)
      BY <2>1, <2>4, <2>5, SettledCounting, Zenon
    <2>7. p[counted'] >= p[counted]
      BY <1>0, <2>5
    <2>. QED
      BY <2>4, <2>6, <2>7, Zenon DEF SettledEarly
  <1>4. CASE DrainWorker /\ UNCHANGED counted
    <2>1. Settled(p)' = Settled(p)
      BY <1>4, SettledDraining
    <2>2. fl.pc # "breakdown" /\ fl'.pc # "breakdown"
      BY <1>4 DEF DrainWorker, TypeOK, FlusherType
    <2>. QED
      BY <1>0, <1>4, <2>1, <2>2 DEF SettledEarly
  <1>. QED
    BY <1>1, <1>2, <1>3, <1>4

LEMMA SettledType ==
  ASSUME TypeOK, NEW p, Linear(p)
  PROVE  Settled(p) \in Int /\ SettledEarly(p) \in Int /\ p[fl.snap] \in Nat
  <1>1. p[counted] \in Nat /\ p[fl.snap] \in Nat /\ Held(p) \in Nat
    BY LinearTypes
  <1>2. Settled(p) \in Int
    BY <1>1 DEF Settled
  <1>. QED
    BY <1>1, <1>2 DEF SettledEarly

LEMMA SettledPublish ==
  ASSUME TypeOK, NEW p, Linear(p), Publish, UNCHANGED counted
  PROVE  Settled(p)' = Settled(p) /\ SettledEarly(p)' = SettledEarly(p) + p[fl.snap]
  <1>1. /\ wc' = wc /\ fl'.snap = fl.snap
        /\ fl.pc # "breakdown" /\ fl'.pc = "breakdown"
    BY DEF Publish, TypeOK, FlusherType
  <1>2. Settled(p)' = Settled(p)
    BY <1>1 DEF Settled, Held
  <1>3. Settled(p) \in Int /\ p[fl.snap] \in Nat
    BY SettledType
  <1>. QED
    BY <1>1, <1>2, <1>3 DEF SettledEarly

LEMMA SettledBreakdowns ==
  ASSUME TypeOK, NEW p, Linear(p), PublishBreakdowns, UNCHANGED counted
  PROVE  Settled(p)' = Settled(p) + p[fl.snap] /\ SettledEarly(p)' = SettledEarly(p)
  <1>1. /\ wc' = wc /\ fl'.snap = newWorkerCounters
        /\ fl.pc = "breakdown" /\ fl'.pc = "evict"
    BY DEF PublishBreakdowns, TypeOK, FlusherType
  <1>2. p[counted] \in Nat /\ p[fl.snap] \in Nat /\ Held(p) \in Nat
    BY LinearTypes
  <1>3. Held(p)' = Held(p) /\ p[newWorkerCounters] = 0
    BY <1>1 DEF Held, Linear
  <1>4. Settled(p)' = p[counted] - 0 - Held(p)
    BY <1>1, <1>3, Zenon DEF Settled
  <1>5. Settled(p)' = Settled(p) + p[fl.snap]
    BY <1>2, <1>4 DEF Settled
  <1>6. Settled(p) \in Int
    BY SettledType
  <1>. QED
    BY <1>1, <1>2, <1>5, <1>6 DEF SettledEarly

-----------------------------------------------------------------------------
(* The numbers the properties are about, as functions on Counters.         *)
RequestsOf(k)  == [c \in Counters |-> c.requests[k]]
ResponsesOf(k) == [c \in Counters |-> c.responses[k]]
VersionOf(v)   == [c \in Counters |-> c.versionRequests[v]]
FamilyOf(f)    == [c \in Counters |-> c.familyRequests[f]]
AsnOf(n)       == [c \in Counters |-> SumOver(c.asnRequests, KeysOf(n))]

(* Counting adds one to the label value of the frame.                     *)
LEMMA IncAdds ==
  ASSUME NEW S, NEW h \in [S -> Nat], NEW j, NEW k \in S
  PROVE  Inc(h, j)[k] = h[k] + (IF k = j THEN 1 ELSE 0)
  BY DEF Inc

LEMMA RequestsLinear ==
  ASSUME NEW k \in Country
  PROVE  Linear(RequestsOf(k))
  <1>. DEFINE p == RequestsOf(k)
  <1>. USE DEF RequestsOf
  <1>1. p \in [Counters -> Nat] /\ p[newWorkerCounters] = 0
    BY NewCountersType DEF newWorkerCounters, Counters
  <1>2. ASSUME NEW c \in Counters, NEW d \in Counters
        PROVE  p[AddCounters(c, d)] = p[c] + p[d]
    BY AddCountersType, ZenonT(30) DEF AddCounters
  <1>3. ASSUME NEW f \in Frame, NEW g \in Geo
        PROVE  \E e \in Nat : \A c \in Counters : p[CountRequest(c, f, g)] = p[c] + e
    <2>. DEFINE e == IF k = g.country THEN 1 ELSE 0
    <2>1. ASSUME NEW c \in Counters PROVE p[CountRequest(c, f, g)] = p[c] + e
      <3>1. CountRequest(c, f, g) \in Counters
        BY CountRequestType
      <3>2. CountRequest(c, f, g).requests = Inc(c.requests, g.country)
        BY ZenonT(30) DEF CountRequest, Counters
      <3>3. c.requests \in [Country -> Nat]
        BY DEF Counters
      <3>. QED
        BY <3>1, <3>2, <3>3, IncAdds
    <2>. QED
      BY <2>1
  <1>4. ASSUME NEW g \in Geo
        PROVE  \E e \in Nat : \A c \in Counters : p[CountResponse(c, g)] = p[c] + e
    <2>. DEFINE e == 0
    <2>1. ASSUME NEW c \in Counters PROVE p[CountResponse(c, g)] = p[c] + e
      <3>1. CountResponse(c, g) \in Counters
        BY CountResponseType
      <3>2. CountResponse(c, g).requests = c.requests
        BY ZenonT(30) DEF CountResponse, Counters
      <3>3. c.requests \in [Country -> Nat]
        BY DEF Counters
      <3>. QED
        BY <3>1, <3>2, <3>3
    <2>. QED
      BY <2>1
  <1>. QED
    BY <1>1, <1>2, <1>3, <1>4, Zenon DEF Linear

LEMMA ResponsesLinear ==
  ASSUME NEW k \in Country
  PROVE  Linear(ResponsesOf(k))
  <1>. DEFINE p == ResponsesOf(k)
  <1>. USE DEF ResponsesOf
  <1>1. p \in [Counters -> Nat] /\ p[newWorkerCounters] = 0
    BY NewCountersType DEF newWorkerCounters, Counters
  <1>2. ASSUME NEW c \in Counters, NEW d \in Counters
        PROVE  p[AddCounters(c, d)] = p[c] + p[d]
    BY AddCountersType, ZenonT(30) DEF AddCounters
  <1>3. ASSUME NEW f \in Frame, NEW g \in Geo
        PROVE  \E e \in Nat : \A c \in Counters : p[CountRequest(c, f, g)] = p[c] + e
    <2>. DEFINE e == 0
    <2>1. ASSUME NEW c \in Counters PROVE p[CountRequest(c, f, g)] = p[c] + e
      <3>1. CountRequest(c, f, g) \in Counters
        BY CountRequestType
      <3>2. CountRequest(c, f, g).responses = c.responses
        BY ZenonT(30) DEF CountRequest, Counters
      <3>3. c.responses \in [Country -> Nat]
        BY DEF Counters
      <3>. QED
        BY <3>1, <3>2, <3>3
    <2>. QED
      BY <2>1
  <1>4. ASSUME NEW g \in Geo
        PROVE  \E e \in Nat : \A c \in Counters : p[CountResponse(c, g)] = p[c] + e
    <2>. DEFINE e == IF k = g.country THEN 1 ELSE 0
    <2>1. ASSUME NEW c \in Counters PROVE p[CountResponse(c, g)] = p[c] + e
      <3>1. CountResponse(c, g) \in Counters
        BY CountResponseType
      <3>2. CountResponse(c, g).responses = Inc(c.responses, g.country)
        BY ZenonT(30) DEF CountResponse, Counters
      <3>3. c.responses \in [Country -> Nat]
        BY DEF Counters
      <3>. QED
        BY <3>1, <3>2, <3>3, IncAdds
    <2>. QED
      BY <2>1, Zenon
  <1>. QED
    BY <1>1, <1>2, <1>3, <1>4, Zenon DEF Linear

LEMMA VersionLinear ==
  ASSUME NEW k \in Version
  PROVE  Linear(VersionOf(k))
  <1>. DEFINE p == VersionOf(k)
  <1>. USE DEF VersionOf
  <1>1. p \in [Counters -> Nat] /\ p[newWorkerCounters] = 0
    BY NewCountersType DEF newWorkerCounters, Counters
  <1>2. ASSUME NEW c \in Counters, NEW d \in Counters
        PROVE  p[AddCounters(c, d)] = p[c] + p[d]
    BY AddCountersType, ZenonT(30) DEF AddCounters
  <1>3. ASSUME NEW f \in Frame, NEW g \in Geo
        PROVE  \E e \in Nat : \A c \in Counters : p[CountRequest(c, f, g)] = p[c] + e
    <2>. DEFINE e == IF k = VersionLabel(f.version) THEN 1 ELSE 0
    <2>1. ASSUME NEW c \in Counters PROVE p[CountRequest(c, f, g)] = p[c] + e
      <3>1. CountRequest(c, f, g) \in Counters
        BY CountRequestType
      <3>2. CountRequest(c, f, g).versionRequests = Inc(c.versionRequests, VersionLabel(f.version))
        BY ZenonT(30) DEF CountRequest, Counters
      <3>3. c.versionRequests \in [Version -> Nat]
        BY DEF Counters
      <3>. QED
        BY <3>1, <3>2, <3>3, IncAdds
    <2>. QED
      BY <2>1, Zenon
  <1>4. ASSUME NEW g \in Geo
        PROVE  \E e \in Nat : \A c \in Counters : p[CountResponse(c, g)] = p[c] + e
    <2>. DEFINE e == 0
    <2>1. ASSUME NEW c \in Counters PROVE p[CountResponse(c, g)] = p[c] + e
      <3>1. CountResponse(c, g) \in Counters
        BY CountResponseType
      <3>2. CountResponse(c, g).versionRequests = c.versionRequests
        BY ZenonT(30) DEF CountResponse, Counters
      <3>3. c.versionRequests \in [Version -> Nat]
        BY DEF Counters
      <3>. QED
        BY <3>1, <3>2, <3>3
    <2>. QED
      BY <2>1
  <1>. QED
    BY <1>1, <1>2, <1>3, <1>4, Zenon DEF Linear

LEMMA FamilyLinear ==
  ASSUME NEW k \in Family
  PROVE  Linear(FamilyOf(k))
  <1>. DEFINE p == FamilyOf(k)
  <1>. USE DEF FamilyOf
  <1>1. p \in [Counters -> Nat] /\ p[newWorkerCounters] = 0
    BY NewCountersType DEF newWorkerCounters, Counters
  <1>2. ASSUME NEW c \in Counters, NEW d \in Counters
        PROVE  p[AddCounters(c, d)] = p[c] + p[d]
    BY AddCountersType, ZenonT(30) DEF AddCounters
  <1>3. ASSUME NEW f \in Frame, NEW g \in Geo
        PROVE  \E e \in Nat : \A c \in Counters : p[CountRequest(c, f, g)] = p[c] + e
    <2>. DEFINE e == IF k = f.family THEN 1 ELSE 0
    <2>1. ASSUME NEW c \in Counters PROVE p[CountRequest(c, f, g)] = p[c] + e
      <3>1. CountRequest(c, f, g) \in Counters
        BY CountRequestType
      <3>2. CountRequest(c, f, g).familyRequests = Inc(c.familyRequests, f.family)
        BY ZenonT(30) DEF CountRequest, Counters
      <3>3. c.familyRequests \in [Family -> Nat]
        BY DEF Counters
      <3>. QED
        BY <3>1, <3>2, <3>3, IncAdds
    <2>. QED
      BY <2>1
  <1>4. ASSUME NEW g \in Geo
        PROVE  \E e \in Nat : \A c \in Counters : p[CountResponse(c, g)] = p[c] + e
    <2>. DEFINE e == 0
    <2>1. ASSUME NEW c \in Counters PROVE p[CountResponse(c, g)] = p[c] + e
      <3>1. CountResponse(c, g) \in Counters
        BY CountResponseType
      <3>2. CountResponse(c, g).familyRequests = c.familyRequests
        BY ZenonT(30) DEF CountResponse, Counters
      <3>3. c.familyRequests \in [Family -> Nat]
        BY DEF Counters
      <3>. QED
        BY <3>1, <3>2, <3>3
    <2>. QED
      BY <2>1
  <1>. QED
    BY <1>1, <1>2, <1>3, <1>4, Zenon DEF Linear

LEMMA IncSum ==
  ASSUME NEW D, NEW S \in SUBSET D, IsFiniteSet(S), NEW h \in [D -> Nat], NEW j \in D
  PROVE  SumOver(Inc(h, j), S) = SumOver(h, S) + (IF j \in S THEN 1 ELSE 0)
  <1>. DEFINE i == Inc(h, j)
  <1>1. /\ \A k \in S : h[k] \in Nat
        /\ i[j] = h[j] + 1 /\ \A k \in D \ {j} : i[k] = h[k]
    BY DEF Inc
  <1>. HIDE DEF i
  <1>2. CASE j \in S
    <2>1. SumOver(i, S) = SumOver(h, S) + 1
      BY <1>1, <1>2, SumGrows
    <2>. QED
      BY <1>2, <2>1 DEF i
  <1>3. CASE j \notin S
    <2>1. \A k \in S : i[k] = h[k]
      BY <1>1, <1>3
    <2>2. SumOver(i, S) = SumOver(h, S)
      BY <2>1, SumEqual
    <2>3. SumOver(h, S) \in Nat
      BY <1>1, SumType
    <2>. QED
      BY <1>3, <2>2, <2>3 DEF i
  <1>. QED
    BY <1>2, <1>3

LEMMA AsnLinear ==
  ASSUME NEW n
  PROVE  Linear(AsnOf(n))
  <1>. DEFINE p == AsnOf(n)
              S == KeysOf(n)
  <1>0. S \subseteq AsnKey /\ IsFiniteSet(S)
    BY KeysFinite, Zenon DEF KeysOf
  <1>1. /\ p \in [Counters -> Nat]
        /\ \A c \in Counters : p[c] = SumOver(c.asnRequests, S)
    BY <1>0, AsnSumType DEF AsnOf
  <1>. HIDE DEF p, S
  <1>2. p[newWorkerCounters] = 0
    <2>. DEFINE z == newWorkerCounters.asnRequests
    <2>1. \A k \in S : z[k] = 0
      BY <1>0, ZenonT(30) DEF newWorkerCounters
    <2>. HIDE DEF z
    <2>2. SumOver(z, S) = 0
      BY <2>1, SumZero
    <2>. QED
      BY <1>1, <2>2, NewCountersType DEF z
  <1>3. ASSUME NEW c \in Counters, NEW d \in Counters
        PROVE  p[AddCounters(c, d)] = p[c] + p[d]
    <2>. DEFINE a == AddCounters(c, d)
    <2>1. \A k \in S : /\ c.asnRequests[k] \in Nat /\ d.asnRequests[k] \in Nat
                       /\ a.asnRequests[k] = c.asnRequests[k] + d.asnRequests[k]
      BY <1>0, ZenonT(30) DEF AddCounters, Counters
    <2>2. a \in Counters
      BY AddCountersType
    <2>. HIDE DEF a
    <2>3. SumOver(a.asnRequests, S) = SumOver(c.asnRequests, S) + SumOver(d.asnRequests, S)
      BY <1>0, <2>1, SumAdds
    <2>. QED
      BY <1>1, <2>2, <2>3 DEF a
  <1>4. ASSUME NEW f \in Frame, NEW g \in Geo
        PROVE  \E e \in Nat : \A c \in Counters : p[CountRequest(c, f, g)] = p[c] + e
    <2>. DEFINE e == IF g.asn \in S THEN 1 ELSE 0
    <2>1. ASSUME NEW c \in Counters PROVE p[CountRequest(c, f, g)] = p[c] + e
      <3>1. CountRequest(c, f, g) \in Counters
        BY CountRequestType
      <3>2. CountRequest(c, f, g).asnRequests = Inc(c.asnRequests, g.asn)
        BY ZenonT(30) DEF CountRequest, Counters
      <3>3. c.asnRequests \in [AsnKey -> Nat] /\ g.asn \in AsnKey
        BY DEF Counters, Geo
      <3>4. SumOver(Inc(c.asnRequests, g.asn), S) = SumOver(c.asnRequests, S) + e
        BY <1>0, <3>3, IncSum
      <3>. QED
        BY <1>1, <3>1, <3>2, <3>4, Zenon
    <2>. QED
      BY <2>1
  <1>5. ASSUME NEW g \in Geo
        PROVE  \E e \in Nat : \A c \in Counters : p[CountResponse(c, g)] = p[c] + e
    <2>1. ASSUME NEW c \in Counters PROVE p[CountResponse(c, g)] = p[c] + 0
      <3>1. CountResponse(c, g) \in Counters
        BY CountResponseType
      <3>2. CountResponse(c, g).asnRequests = c.asnRequests
        BY ZenonT(30) DEF CountResponse, Counters
      <3>. QED
        BY <1>1, <3>1, <3>2
    <2>. QED
      BY <2>1
  <1>. QED
    BY <1>1, <1>2, <1>3, <1>4, <1>5, Zenon DEF Linear, p

-----------------------------------------------------------------------------
(* The numbers in the properties.                                          *)
LEMMA ProjectionFacts ==
  ASSUME TypeOK
  PROVE  /\ \A k \in Country :
              /\ RequestsOf(k)[counted] = counted.requests[k]
              /\ RequestsOf(k)[fl.snap] = fl.snap.requests[k]
              /\ Held(RequestsOf(k)) = SumOver([w \in Worker |-> wc[w].requests[k]], Worker)
              /\ ResponsesOf(k)[counted] = counted.responses[k]
              /\ ResponsesOf(k)[fl.snap] = fl.snap.responses[k]
              /\ Held(ResponsesOf(k)) = SumOver([w \in Worker |-> wc[w].responses[k]], Worker)
         /\ \A v \in Version :
              /\ VersionOf(v)[counted] = counted.versionRequests[v]
              /\ VersionOf(v)[fl.snap] = fl.snap.versionRequests[v]
              /\ Held(VersionOf(v))
                   = SumOver([w \in Worker |-> wc[w].versionRequests[v]], Worker)
         /\ \A f \in Family :
              /\ FamilyOf(f)[counted] = counted.familyRequests[f]
              /\ FamilyOf(f)[fl.snap] = fl.snap.familyRequests[f]
              /\ Held(FamilyOf(f))
                   = SumOver([w \in Worker |-> wc[w].familyRequests[f]], Worker)
  <1>1. counted \in Counters /\ fl.snap \in Counters /\ \A w \in Worker : wc[w] \in Counters
    BY DEF TypeOK, CountersType, FlusherType
  <1>. USE <1>1 DEF Held
  <1>2. ASSUME NEW k \in Country
        PROVE  /\ RequestsOf(k)[counted] = counted.requests[k]
               /\ RequestsOf(k)[fl.snap] = fl.snap.requests[k]
               /\ Held(RequestsOf(k)) = SumOver([w \in Worker |-> wc[w].requests[k]], Worker)
    <2>1. [w \in Worker |-> RequestsOf(k)[wc[w]]] = [w \in Worker |-> wc[w].requests[k]]
      BY DEF RequestsOf
    <2>. QED
      BY <2>1, Zenon DEF RequestsOf
  <1>3. ASSUME NEW k \in Country
        PROVE  /\ ResponsesOf(k)[counted] = counted.responses[k]
               /\ ResponsesOf(k)[fl.snap] = fl.snap.responses[k]
               /\ Held(ResponsesOf(k)) = SumOver([w \in Worker |-> wc[w].responses[k]], Worker)
    <2>1. [w \in Worker |-> ResponsesOf(k)[wc[w]]] = [w \in Worker |-> wc[w].responses[k]]
      BY DEF ResponsesOf
    <2>. QED
      BY <2>1, Zenon DEF ResponsesOf
  <1>4. ASSUME NEW v \in Version
        PROVE  /\ VersionOf(v)[counted] = counted.versionRequests[v]
               /\ VersionOf(v)[fl.snap] = fl.snap.versionRequests[v]
               /\ Held(VersionOf(v))
                    = SumOver([w \in Worker |-> wc[w].versionRequests[v]], Worker)
    <2>1. [w \in Worker |-> VersionOf(v)[wc[w]]] = [w \in Worker |-> wc[w].versionRequests[v]]
      BY DEF VersionOf
    <2>. QED
      BY <2>1, Zenon DEF VersionOf
  <1>5. ASSUME NEW f \in Family
        PROVE  /\ FamilyOf(f)[counted] = counted.familyRequests[f]
               /\ FamilyOf(f)[fl.snap] = fl.snap.familyRequests[f]
               /\ Held(FamilyOf(f))
                    = SumOver([w \in Worker |-> wc[w].familyRequests[f]], Worker)
    <2>1. [w \in Worker |-> FamilyOf(f)[wc[w]]] = [w \in Worker |-> wc[w].familyRequests[f]]
      BY DEF FamilyOf
    <2>. QED
      BY <2>1, Zenon DEF FamilyOf
  <1>. QED
    BY <1>2, <1>3, <1>4, <1>5, Zenon

LEMMA AsnProjection ==
  ASSUME TypeOK, NEW n \in ASN
  PROVE  /\ AsnOf(n)[counted] = SumOver(counted.asnRequests, KeysOf(n))
         /\ AsnOf(n)[fl.snap] = SumOver(fl.snap.asnRequests, KeysOf(n))
         /\ Held(AsnOf(n))
              = SumOver([w \in Worker |-> SumOver(wc[w].asnRequests, KeysOf(n))], Worker)
  <1>1. counted \in Counters /\ fl.snap \in Counters /\ \A w \in Worker : wc[w] \in Counters
    BY DEF TypeOK, CountersType, FlusherType
  <1>2. [w \in Worker |-> AsnOf(n)[wc[w]]]
          = [w \in Worker |-> SumOver(wc[w].asnRequests, KeysOf(n))]
    BY <1>1 DEF AsnOf
  <1>. QED
    BY <1>1, <1>2, Zenon DEF AsnOf, Held

-----------------------------------------------------------------------------
(* Every step keeps the published numbers and what is settled, or is one   *)
(* of the two steps that publish.                                          *)
PublishesNothing ==
  /\ m'.requests = m.requests /\ m'.drops = m.drops
  /\ m'.version = m.version /\ m'.family = m.family /\ UNCHANGED asns
  /\ \A p : Linear(p) => /\ Settled(p)' = Settled(p)
                         /\ SettledEarly(p)' = SettledEarly(p)
                         /\ p[counted'] >= p[counted]

LEMMA PublishingSteps ==
  ASSUME TypeOK, TypeOK', SnapReset, [Next]_vars
  PROVE  \/ PublishesNothing
         \/ Publish /\ UNCHANGED counted
         \/ PublishBreakdowns /\ UNCHANGED counted
  <1>1. ASSUME \/ KeepsCounts \/ CountsRequest \/ CountsResponse
               \/ DrainWorker /\ UNCHANGED counted
        PROVE  PublishesNothing
    <2>1. /\ m'.requests = m.requests /\ m'.drops = m.drops
          /\ m'.version = m.version /\ m'.family = m.family /\ UNCHANGED asns
      BY <1>1, Zenon DEF KeepsCounts, CountsRequest, CountsResponse, DrainWorker, Published
    <2>2. ASSUME NEW p, Linear(p)
          PROVE  /\ Settled(p)' = Settled(p) /\ SettledEarly(p)' = SettledEarly(p)
                 /\ p[counted'] >= p[counted]
      BY <1>1, <2>2, SettledKept, Zenon
    <2>. QED
      BY <2>1, <2>2, Zenon DEF PublishesNothing
  <1>. QED
    BY <1>1, StepKinds, Zenon DEF FlushMoves

CountsInv ==
  /\ \A k \in Country : m.requests[k] = SettledEarly(RequestsOf(k))
  /\ \A v \in Version : m.version[v] = Settled(VersionOf(v))
  /\ \A f \in Family : m.family[f] = Settled(FamilyOf(f))

LEMMA CountsStep ==
  TypeOK /\ TypeOK' /\ SnapReset /\ CountsInv /\ [Next]_vars => CountsInv'
  <1>. SUFFICES ASSUME TypeOK, TypeOK', SnapReset, CountsInv, [Next]_vars
                PROVE  CountsInv'
    OBVIOUS
  <1>1. /\ \A k \in Country : Linear(RequestsOf(k))
        /\ \A v \in Version : Linear(VersionOf(v))
        /\ \A f \in Family : Linear(FamilyOf(f))
    BY RequestsLinear, VersionLinear, FamilyLinear, Zenon
  <1>2. CASE PublishesNothing
    BY <1>1, <1>2, Zenon DEF PublishesNothing, CountsInv
  <1>3. CASE Publish /\ UNCHANGED counted
    <2>1. \A p : Linear(p) => /\ Settled(p)' = Settled(p)
                              /\ SettledEarly(p)' = SettledEarly(p) + p[fl.snap]
      BY <1>3, SettledPublish, Zenon
    <2>2. m'.version = m.version /\ m'.family = m.family
      BY <1>3, Zenon DEF Publish, TypeOK, Metrics
    <2>3. ASSUME NEW k \in Country
          PROVE  m'.requests[k] = m.requests[k] + RequestsOf(k)[fl.snap]
      <3>1. m'.requests[k] = m.requests[k] + fl.snap.requests[k]
        BY <1>3, ZenonT(30) DEF Publish, TypeOK, Metrics
      <3>. QED
        BY <3>1, ProjectionFacts, Zenon
    <2>. QED
      BY <1>1, <2>1, <2>2, <2>3, Zenon DEF CountsInv
  <1>4. CASE PublishBreakdowns /\ UNCHANGED counted
    <2>1. \A p : Linear(p) => /\ Settled(p)' = Settled(p) + p[fl.snap]
                              /\ SettledEarly(p)' = SettledEarly(p)
      BY <1>4, SettledBreakdowns, Zenon
    <2>2. m'.requests = m.requests
      BY <1>4, Zenon DEF PublishBreakdowns, TypeOK, Metrics
    <2>3. ASSUME NEW v \in Version
          PROVE  m'.version[v] = m.version[v] + VersionOf(v)[fl.snap]
      <3>1. m'.version[v] = m.version[v] + fl.snap.versionRequests[v]
        BY <1>4, ZenonT(30) DEF PublishBreakdowns, TypeOK, Metrics
      <3>. QED
        BY <3>1, ProjectionFacts, Zenon
    <2>4. ASSUME NEW f \in Family
          PROVE  m'.family[f] = m.family[f] + FamilyOf(f)[fl.snap]
      <3>1. m'.family[f] = m.family[f] + fl.snap.familyRequests[f]
        BY <1>4, ZenonT(30) DEF PublishBreakdowns, TypeOK, Metrics
      <3>. QED
        BY <3>1, ProjectionFacts, Zenon
    <2>. QED
      BY <1>1, <2>1, <2>2, <2>3, <2>4, Zenon DEF CountsInv
  <1>. QED
    BY <1>2, <1>3, <1>4, PublishingSteps

(* At the start nothing is counted and nothing settled.                    *)
LEMMA SettledInit ==
  ASSUME Init, NEW p, Linear(p)
  PROVE  Settled(p) = 0 /\ SettledEarly(p) = 0
  <1>1. /\ counted = newWorkerCounters /\ fl.snap = newWorkerCounters /\ fl.pc = "drain"
        /\ wc = [w \in Worker |-> newWorkerCounters]
    BY DEF Init, NewFlush
  <1>. DEFINE f == [w \in Worker |-> p[wc[w]]]
  <1>2. \A w \in Worker : f[w] = 0
    BY <1>1 DEF Linear
  <1>. HIDE DEF f
  <1>3. SumOver(f, Worker) = 0
    BY <1>2, SumZero
  <1>4. Held(p) = 0
    BY <1>3, Zenon DEF Held, f
  <1>5. p[counted] = 0 /\ p[fl.snap] = 0
    BY <1>1 DEF Linear
  <1>. QED
    BY <1>1, <1>4, <1>5 DEF Settled, SettledEarly

LEMMA CountsInit == Init => CountsInv
  <1>. SUFFICES ASSUME Init PROVE CountsInv
    OBVIOUS
  <1>1. /\ \A k \in Country : m.requests[k] = 0
        /\ \A v \in Version : m.version[v] = 0
        /\ \A f \in Family : m.family[f] = 0
    BY DEF Init
  <1>2. /\ \A k \in Country : SettledEarly(RequestsOf(k)) = 0
        /\ \A v \in Version : Settled(VersionOf(v)) = 0
        /\ \A f \in Family : Settled(FamilyOf(f)) = 0
    BY SettledInit, RequestsLinear, VersionLinear, FamilyLinear, Zenon
  <1>. QED
    BY <1>1, <1>2, Zenon DEF CountsInv

(* What Flush holds, in the words of the properties.                       *)
LEMMA InFlushFacts ==
  ASSUME TypeOK, SnapReset, NEW p, Linear(p)
  PROVE  /\ SettledEarly(p)
              = p[counted] - Held(p) - InFlush(p[fl.snap], {"drain", "publish"})
         /\ Settled(p)
              = p[counted] - Held(p) - InFlush(p[fl.snap], {"drain", "publish", "breakdown"})
  <1>1. p[counted] \in Nat /\ p[fl.snap] \in Nat /\ Held(p) \in Nat
    BY LinearTypes
  <1>2. fl.pc \in {"evict", "gauge", "expire", "merge"} => p[fl.snap] = 0
    BY DEF SnapReset, Linear
  <1>3. fl.pc \in FlushPCs
    BY DEF TypeOK, FlusherType
  <1>. DEFINE c == p[counted]
              f == p[fl.snap]
              h == Held(p)
              early == InFlush(f, {"drain", "publish"})
              late == InFlush(f, {"drain", "publish", "breakdown"})
  <1>4. /\ Settled(p) = c - f - h
        /\ SettledEarly(p) = Settled(p) + (IF fl.pc = "breakdown" THEN f ELSE 0)
    BY Zenon DEF Settled, SettledEarly
  <1>5. /\ early = IF fl.pc \in {"drain", "publish"} THEN f ELSE 0
        /\ late = IF fl.pc \in {"drain", "publish", "breakdown"} THEN f ELSE 0
    BY Zenon DEF InFlush
  <1>. HIDE DEF c, f, h, early, late
  <1>6. c \in Nat /\ f \in Nat /\ h \in Nat
    BY <1>1 DEF c, f, h
  <1>7. SettledEarly(p) = c - h - early /\ Settled(p) = c - h - late
    <2>1. CASE fl.pc \in {"drain", "publish"}
      BY <1>4, <1>5, <1>6, <2>1
    <2>2. CASE fl.pc = "breakdown"
      BY <1>4, <1>5, <1>6, <2>2
    <2>3. CASE fl.pc \in {"evict", "gauge", "expire", "merge"}
      <3>1. f = 0
        BY <1>2, <2>3 DEF f
      <3>. QED
        BY <1>4, <1>5, <1>6, <2>3, <3>1
    <2>. QED
      BY <1>3, <2>1, <2>2, <2>3 DEF FlushPCs
  <1>. QED
    BY <1>7, Zenon DEF c, f, h, early, late

(* aggregate.go:200-210, 275-298, 313-343: for any number of workers and   *)
(* any interleaving of HandleFrame with Flush, every counted request is in *)
(* exactly one of a worker's map, Flush's snapshot and the published       *)
(* counter, under each of its country, version and family labels.          *)
THEOREM CountsAlwaysConserved == Spec => []CountsConserved
  <1>1. Spec => []CountsInv
    BY CountsInit, TypeCorrect, SnapAlwaysReset, CountsStep, PTL DEF Spec
  <1>2. TypeOK /\ SnapReset /\ CountsInv => CountsConserved
    <2>. SUFFICES ASSUME TypeOK, SnapReset, CountsInv PROVE CountsConserved
      OBVIOUS
    <2>0. ASSUME NEW p, Linear(p), NEW x \in Nat, NEW pcs,
                 x = p[counted] - Held(p) - InFlush(p[fl.snap], pcs)
          PROVE  p[counted] = x + InFlush(p[fl.snap], pcs) + Held(p)
      <3>1. p[counted] \in Nat /\ InFlush(p[fl.snap], pcs) \in Nat /\ Held(p) \in Nat
        BY <2>0, LinearTypes DEF InFlush
      <3>. QED
        BY <2>0, <3>1
    <2>1. ASSUME NEW k \in Country
          PROVE  counted.requests[k] =
                   m.requests[k] + InFlush(fl.snap.requests[k], {"drain", "publish"})
                     + SumOver([w \in Worker |-> wc[w].requests[k]], Worker)
      <3>. DEFINE p == RequestsOf(k)
                  pcs == {"drain", "publish"}
      <3>1. Linear(p)
        BY RequestsLinear
      <3>. HIDE DEF p, pcs
      <3>2. m.requests[k] \in Nat
        BY DEF TypeOK, Metrics
      <3>3. m.requests[k] = p[counted] - Held(p) - InFlush(p[fl.snap], pcs)
        BY <3>1, InFlushFacts, Zenon DEF CountsInv, p, pcs
      <3>4. p[counted] = m.requests[k] + InFlush(p[fl.snap], pcs) + Held(p)
        BY <2>0, <3>1, <3>2, <3>3
      <3>. QED
        BY <3>4, ProjectionFacts, Zenon DEF p, pcs
    <2>2. ASSUME NEW v \in Version
          PROVE  counted.versionRequests[v] =
                   m.version[v]
                     + InFlush(fl.snap.versionRequests[v], {"drain", "publish", "breakdown"})
                     + SumOver([w \in Worker |-> wc[w].versionRequests[v]], Worker)
      <3>. DEFINE p == VersionOf(v)
                  pcs == {"drain", "publish", "breakdown"}
      <3>1. Linear(p)
        BY VersionLinear
      <3>. HIDE DEF p, pcs
      <3>2. m.version[v] \in Nat
        BY DEF TypeOK, Metrics
      <3>3. m.version[v] = p[counted] - Held(p) - InFlush(p[fl.snap], pcs)
        BY <3>1, InFlushFacts, Zenon DEF CountsInv, p, pcs
      <3>4. p[counted] = m.version[v] + InFlush(p[fl.snap], pcs) + Held(p)
        BY <2>0, <3>1, <3>2, <3>3
      <3>. QED
        BY <3>4, ProjectionFacts, Zenon DEF p, pcs
    <2>3. ASSUME NEW f \in Family
          PROVE  counted.familyRequests[f] =
                   m.family[f]
                     + InFlush(fl.snap.familyRequests[f], {"drain", "publish", "breakdown"})
                     + SumOver([w \in Worker |-> wc[w].familyRequests[f]], Worker)
      <3>. DEFINE p == FamilyOf(f)
                  pcs == {"drain", "publish", "breakdown"}
      <3>1. Linear(p)
        BY FamilyLinear
      <3>. HIDE DEF p, pcs
      <3>2. m.family[f] \in Nat
        BY DEF TypeOK, Metrics
      <3>3. m.family[f] = p[counted] - Held(p) - InFlush(p[fl.snap], pcs)
        BY <3>1, InFlushFacts, Zenon DEF CountsInv, p, pcs
      <3>4. p[counted] = m.family[f] + InFlush(p[fl.snap], pcs) + Held(p)
        BY <2>0, <3>1, <3>2, <3>3
      <3>. QED
        BY <3>4, ProjectionFacts, Zenon DEF p, pcs
    <2>. QED
      BY <2>1, <2>2, <2>3, Zenon DEF CountsConserved
  <1>. QED
    BY <1>1, <1>2, TypeCorrect, SnapAlwaysReset, PTL

-----------------------------------------------------------------------------
LEMMA UnansweredFacts ==
  ASSUME NEW c \in Counters, NEW k \in Country
  PROVE  /\ Unanswered(c, k) \in Nat /\ Unanswered(c, k) <= c.requests[k]
         /\ Unanswered(c, k) >= c.requests[k] - c.responses[k]
  <1>1. c.requests[k] \in Nat /\ c.responses[k] \in Nat
    BY DEF Counters
  <1>. QED
    BY <1>1 DEF Unanswered

LEMMA UsedFacts ==
  ASSUME TypeOK, SnapReset, NEW k \in Country
  PROVE  ResponsesUsed(k) = SettledEarly(ResponsesOf(k))
  <1>. DEFINE p == ResponsesOf(k)
              i == InFlush(p[fl.snap], {"drain", "publish"})
  <1>1. Linear(p)
    BY ResponsesLinear
  <1>2. ResponsesUsed(k) = p[counted] - Held(p) - i
    BY ProjectionFacts, Zenon DEF ResponsesUsed
  <1>. HIDE DEF p, i
  <1>3. SettledEarly(p) = p[counted] - Held(p) - i
    BY <1>1, InFlushFacts, Zenon DEF i
  <1>. QED
    BY <1>2, <1>3, Zenon DEF p

LEMMA DropsSums ==
  ASSUME NEW d \in Nat, NEW r \in Nat, NEW u \in Int, d >= r - u, d <= r,
         NEW a \in Nat, NEW b \in Nat, NEW c \in Nat, c >= a - b, c <= a
  PROVE  d + c >= (r + a) - (u + b) /\ d + c <= r + a
  OBVIOUS

Covered(k) ==
  /\ m.drops[k] >= m.requests[k] - SettledEarly(ResponsesOf(k))
  /\ m.drops[k] <= m.requests[k]

CoverInv == \A k \in Country : Covered(k)

LEMMA CoverStep ==
  TypeOK /\ TypeOK' /\ SnapReset /\ CoverInv /\ [Next]_vars => CoverInv'
  <1>. SUFFICES ASSUME TypeOK, TypeOK', SnapReset, CoverInv, [Next]_vars, NEW k \in Country
                PROVE  Covered(k)'
    BY DEF CoverInv
  <1>. DEFINE p == ResponsesOf(k)
  <1>1. Linear(p)
    BY ResponsesLinear
  <1>2. m.drops[k] >= m.requests[k] - SettledEarly(p) /\ m.drops[k] <= m.requests[k]
    BY DEF CoverInv, Covered
  <1>3. CASE PublishesNothing \/ (PublishBreakdowns /\ UNCHANGED counted)
    <2>1. SettledEarly(p)' = SettledEarly(p)
      BY <1>1, <1>3, SettledBreakdowns, Zenon DEF PublishesNothing
    <2>2. m'.drops = m.drops /\ m'.requests = m.requests
      BY <1>3, Zenon DEF PublishesNothing, PublishBreakdowns, TypeOK, Metrics
    <2>. QED
      BY <1>2, <2>1, <2>2, Zenon DEF Covered
  <1>4. CASE Publish /\ UNCHANGED counted
    <2>. DEFINE a == fl.snap.requests[k]
                b == fl.snap.responses[k]
                c == Unanswered(fl.snap, k)
    <2>1. SettledEarly(p)' = SettledEarly(p) + p[fl.snap] /\ SettledEarly(p) \in Int
      BY <1>1, <1>4, SettledPublish, SettledType
    <2>2. p[fl.snap] = b
      BY ProjectionFacts, Zenon
    <2>3. /\ m'.drops[k] = m.drops[k] + c /\ m'.requests[k] = m.requests[k] + a
      BY <1>4, ZenonT(30) DEF Publish, TypeOK, Metrics
    <2>4. fl.snap \in Counters /\ m.drops[k] \in Nat /\ m.requests[k] \in Nat
      BY DEF TypeOK, FlusherType, Metrics
    <2>5. a \in Nat /\ b \in Nat /\ c \in Nat /\ c <= a /\ c >= a - b
      BY <2>4, UnansweredFacts, Zenon DEF Counters
    <2>. HIDE DEF a, b, c, p
    <2>6. /\ m.drops[k] + c >= (m.requests[k] + a) - (SettledEarly(p) + b)
          /\ m.drops[k] + c <= m.requests[k] + a
      BY <1>2, <2>1, <2>4, <2>5, DropsSums
    <2>. QED
      BY <2>1, <2>2, <2>3, <2>6, Zenon DEF Covered, p
  <1>5. \/ PublishesNothing
        \/ Publish /\ UNCHANGED counted
        \/ PublishBreakdowns /\ UNCHANGED counted
    BY PublishingSteps
  <1>. QED
    BY <1>3, <1>4, <1>5, Zenon

(* aggregate.go:313-319: for any number of workers and however requests    *)
(* and responses fall into flush windows, the drops published for a label  *)
(* cover the requests that no published response answers, and are at most  *)
(* the published requests.                                                 *)
THEOREM DropsAlwaysCover == Spec => []DropsCoverUnanswered
  <1>1. Init => CoverInv
    <2>. SUFFICES ASSUME Init, NEW k \in Country
                  PROVE  Covered(k)
      BY DEF CoverInv
    <2>1. m.drops[k] = 0 /\ m.requests[k] = 0
      BY DEF Init
    <2>2. SettledEarly(ResponsesOf(k)) = 0
      BY SettledInit, ResponsesLinear
    <2>. QED
      BY <2>1, <2>2 DEF Covered
  <1>2. Spec => []CoverInv
    BY <1>1, TypeCorrect, SnapAlwaysReset, CoverStep, PTL DEF Spec
  <1>3. TypeOK /\ SnapReset /\ CoverInv => DropsCoverUnanswered
    BY UsedFacts, Zenon DEF CoverInv, Covered, DropsCoverUnanswered
  <1>. QED
    BY <1>2, <1>3, TypeCorrect, SnapAlwaysReset, PTL

-----------------------------------------------------------------------------
LEMMA PresentFinite ==
  ASSUME NEW t
  PROVE  /\ IsFiniteSet(Present(t)) /\ Cardinality(Present(t)) \in Nat
         /\ \A u : (\A a \in ASN : t[a] > 0 => u[a] > 0)
                     => Cardinality(Present(t)) <= Cardinality(Present(u))
  <1>1. IsFiniteSet(ASN)
    BY AsnAssumption DEF AsnAssumption
  <1>2. \A u : IsFiniteSet(Present(u))
    BY <1>1, FS_Subset DEF Present
  <1>3. ASSUME NEW u, \A a \in ASN : t[a] > 0 => u[a] > 0
        PROVE  Cardinality(Present(t)) <= Cardinality(Present(u))
    <2>1. Present(t) \subseteq Present(u)
      BY <1>3 DEF Present
    <2>. QED
      BY <1>2, <2>1, FS_Subset
  <1>. QED
    BY <1>2, <1>3, FS_CardinalityType

(* Pruning takes no total up, leaves at most ASNTotalsMax of them, and     *)
(* takes none away when there are no more.                                 *)
LEMMA PrunedFacts ==
  ASSUME NEW totals \in [ASN -> Nat], NEW t \in Pruned(totals)
  PROVE  /\ t \in [ASN -> Nat] /\ \A a \in ASN : t[a] <= totals[a]
         /\ Cardinality(Present(t)) <= ASNTotalsMax
         /\ Cardinality(Present(totals)) <= ASNTotalsMax => t = totals
  <1>0. ASNTotalsMax \in Nat /\ Cardinality(Present(totals)) \in Nat
    BY CollectorAssumption, PresentFinite DEF CollectorAssumption
  <1>1. CASE Cardinality(Present(totals)) <= ASNTotalsMax
    BY <1>0, <1>1 DEF Pruned
  <1>2. CASE ~(Cardinality(Present(totals)) <= ASNTotalsMax)
    <2>1. Cardinality(Present(totals)) > ASNTotalsMax
      BY <1>0, <1>2
    <2>2. PICK S \in Kept(totals, ASNTotalsMax) :
            t = [a \in ASN |-> IF a \in S THEN totals[a] ELSE 0]
      BY <2>1 DEF Pruned, pruneToLargest
    <2>3. S \subseteq Present(totals) /\ Cardinality(S) <= ASNTotalsMax
      BY <1>0 DEF Kept
    <2>4. Present(t) = S
      BY <2>2, <2>3 DEF Present
    <2>. QED
      BY <1>2, <2>2, <2>3, <2>4
  <1>. QED
    BY <1>1, <1>2

Seen == [n \in ASN |-> AsnOf(n)[counted]]

(* Before pruning starts, the totals are what is settled.                  *)
AsnInv ==
  /\ Cardinality(Present(asnTotals)) <= ASNTotalsMax
  /\ \A n \in ASN : asnTotals[n] <= Settled(AsnOf(n))
  /\ Cardinality(Present(Seen)) <= ASNTotalsMax
       => \A n \in ASN : asnTotals[n] = Settled(AsnOf(n))

LEMMA AsnTypes ==
  ASSUME TypeOK
  PROVE  \A n \in ASN : /\ asnTotals[n] \in Nat /\ Settled(AsnOf(n)) \in Int
                        /\ AsnOf(n)[fl.snap] \in Nat /\ Seen[n] \in Nat
                        /\ Seen[n] = AsnOf(n)[counted]
  <1>1. \A n : Linear(AsnOf(n))
    BY AsnLinear
  <1>2. \A n \in ASN : Seen[n] = AsnOf(n)[counted]
    BY DEF Seen
  <1>3. \A n \in ASN : /\ Settled(AsnOf(n)) \in Int /\ AsnOf(n)[fl.snap] \in Nat
                       /\ AsnOf(n)[counted] \in Nat
    BY <1>1, SettledType, LinearTypes, Zenon
  <1>4. \A n \in ASN : asnTotals[n] \in Nat
    BY DEF TypeOK, FlusherType
  <1>. QED
    BY <1>2, <1>3, <1>4, Zenon

LEMMA AsnStep ==
  TypeOK /\ TypeOK' /\ SnapReset /\ AsnInv /\ [Next]_vars => AsnInv'
  <1>. SUFFICES ASSUME TypeOK, TypeOK', SnapReset, AsnInv, [Next]_vars PROVE AsnInv'
    OBVIOUS
  <1>1. \A n : Linear(AsnOf(n))
    BY AsnLinear
  <1>2. ASNTotalsMax \in Nat
    BY CollectorAssumption DEF CollectorAssumption
  <1>3. \A n \in ASN : Seen'[n] = AsnOf(n)[counted']
    BY DEF Seen
  <1>4. CASE PublishesNothing
    <2>1. asnTotals' = asnTotals /\ \A n \in ASN : Settled(AsnOf(n))' = Settled(AsnOf(n))
      BY <1>1, <1>4, Zenon DEF PublishesNothing, asns
    <2>2. \A n \in ASN : AsnOf(n)[counted'] >= AsnOf(n)[counted]
      BY <1>1, <1>4, Zenon DEF PublishesNothing
    <2>3. \A n \in ASN : AsnOf(n)[counted'] \in Nat
      <3>1. counted' \in Counters
        BY DEF TypeOK, CountersType
      <3>. QED
        BY <1>1, <3>1 DEF Linear
    <2>4. \A n \in ASN : Seen[n] > 0 => Seen'[n] > 0
      BY <1>3, <2>2, <2>3, AsnTypes
    <2>5. Cardinality(Present(Seen)) <= Cardinality(Present(Seen'))
      BY <2>4, PresentFinite
    <2>6. Cardinality(Present(Seen)) \in Nat /\ Cardinality(Present(Seen')) \in Nat
      BY PresentFinite
    <2>7. Cardinality(Present(Seen')) <= ASNTotalsMax
            => Cardinality(Present(Seen)) <= ASNTotalsMax
      BY <1>2, <2>5, <2>6
    <2>. QED
      BY <2>1, <2>7 DEF AsnInv
  <1>5. CASE Publish /\ UNCHANGED counted
    <2>1. \A n \in ASN : Settled(AsnOf(n))' = Settled(AsnOf(n))
      BY <1>1, <1>5, SettledPublish, Zenon
    <2>2. asnTotals' = asnTotals /\ Seen' = Seen
      BY <1>5 DEF Publish, asns, Seen
    <2>. QED
      BY <2>1, <2>2, Zenon DEF AsnInv
  <1>6. CASE PublishBreakdowns /\ UNCHANGED counted
    <2>. DEFINE A == Accumulated(asnTotals, fl.snap.asnRequests)
    <2>1. \A n \in ASN : Settled(AsnOf(n))' = Settled(AsnOf(n)) + AsnOf(n)[fl.snap]
      BY <1>1, <1>6, SettledBreakdowns, Zenon
    <2>2. \A n \in ASN : A[n] = asnTotals[n] + AsnOf(n)[fl.snap]
      BY AsnProjection, Zenon DEF Accumulated
    <2>3. A \in [ASN -> Nat]
      <3>1. \A n \in ASN : asnTotals[n] + AsnOf(n)[fl.snap] \in Nat
        BY AsnTypes
      <3>2. \A n \in ASN : A[n] \in Nat
        BY <2>2, <3>1, Zenon
      <3>3. A = [n \in ASN |-> A[n]]
        BY Zenon DEF Accumulated
      <3>. QED
        BY <3>2, <3>3, Zenon
    <2>4. asnTotals' \in Pruned(A)
      BY <1>6 DEF PublishBreakdowns
    <2>. HIDE DEF A
    <2>5. /\ asnTotals' \in [ASN -> Nat] /\ \A n \in ASN : asnTotals'[n] <= A[n]
          /\ Cardinality(Present(asnTotals')) <= ASNTotalsMax
          /\ Cardinality(Present(A)) <= ASNTotalsMax => asnTotals' = A
      BY <2>3, <2>4, PrunedFacts
    <2>6. ASSUME NEW n \in ASN
          PROVE  asnTotals'[n] <= Settled(AsnOf(n))'
      <3>1. asnTotals[n] <= Settled(AsnOf(n))
        BY DEF AsnInv
      <3>2. asnTotals'[n] \in Nat /\ A[n] \in Nat
        BY <2>3, <2>5
      <3>3. Settled(AsnOf(n))' = Settled(AsnOf(n)) + AsnOf(n)[fl.snap]
        BY <2>1, Zenon
      <3>4. A[n] = asnTotals[n] + AsnOf(n)[fl.snap] /\ asnTotals'[n] <= A[n]
        BY <2>2, <2>5, Zenon
      <3>5. /\ asnTotals[n] \in Nat /\ Settled(AsnOf(n)) \in Int
            /\ AsnOf(n)[fl.snap] \in Nat
        BY AsnTypes, Zenon
      <3>. QED
        BY <3>1, <3>2, <3>3, <3>4, <3>5
    <2>7. ASSUME Cardinality(Present(Seen')) <= ASNTotalsMax
          PROVE  \A n \in ASN : asnTotals'[n] = Settled(AsnOf(n))'
      <3>1. Seen' = Seen
        BY <1>6 DEF Seen
      <3>2. \A n \in ASN : asnTotals[n] = Settled(AsnOf(n))
        BY <2>7, <3>1 DEF AsnInv
      <3>3. \A n \in ASN : A[n] = Settled(AsnOf(n)) + AsnOf(n)[fl.snap]
        BY <2>2, <3>2
      <3>4. ASSUME NEW n \in ASN PROVE A[n] <= Seen[n]
        <4>. DEFINE p == AsnOf(n)
        <4>1. p[counted] \in Nat /\ p[fl.snap] \in Nat /\ Held(p) \in Nat
          BY <1>1, LinearTypes
        <4>2. A[n] = Settled(p) + p[fl.snap] /\ Seen[n] = p[counted]
          BY <3>3, AsnTypes
        <4>. HIDE DEF p
        <4>. QED
          BY <4>1, <4>2 DEF Settled
      <3>5. \A n \in ASN : A[n] > 0 => Seen[n] > 0
        BY <2>3, <3>4, AsnTypes
      <3>6. Cardinality(Present(A)) <= Cardinality(Present(Seen))
        BY <3>5, PresentFinite
      <3>7. Cardinality(Present(Seen)) \in Nat /\ Cardinality(Present(A)) \in Nat
        BY PresentFinite
      <3>8. asnTotals' = A
        BY <1>2, <2>5, <2>7, <3>1, <3>6, <3>7
      <3>. QED
        BY <2>1, <3>3, <3>8
    <2>. QED
      BY <2>5, <2>6, <2>7, Zenon DEF AsnInv
  <1>. QED
    BY <1>4, <1>5, <1>6, PublishingSteps, Zenon

LEMMA AsnInit == Init => AsnInv
  <1>. SUFFICES ASSUME Init PROVE AsnInv
    OBVIOUS
  <1>1. \A n \in ASN : asnTotals[n] = 0
    BY DEF Init
  <1>2. \A n \in ASN : Settled(AsnOf(n)) = 0
    BY AsnLinear, SettledInit
  <1>3. Present(asnTotals) = {}
    BY <1>1 DEF Present
  <1>4. Cardinality(Present(asnTotals)) = 0
    BY <1>3, FS_EmptySet
  <1>5. ASNTotalsMax \in Nat
    BY CollectorAssumption, Zenon DEF CollectorAssumption
  <1>. QED
    BY <1>1, <1>2, <1>4, <1>5 DEF AsnInv

(* aggregate.go:321-331: for any limit and any number of workers, the      *)
(* totals that rank the ASNs never exceed the requests that have been      *)
(* published for an ASN, are exactly those while no more ASNs were seen    *)
(* than the limit, and are never kept for more ASNs than it.               *)
THEOREM AsnTotalsAlwaysSound == Spec => []AsnTotalsSound
  <1>1. Spec => []AsnInv
    BY AsnInit, TypeCorrect, SnapAlwaysReset, AsnStep, PTL DEF Spec
  <1>2. TypeOK /\ AsnInv => AsnTotalsSound
    <2>. SUFFICES ASSUME TypeOK, AsnInv PROVE AsnTotalsSound
      OBVIOUS
    <2>. DEFINE seen == [n \in ASN |-> SumOver(counted.asnRequests, KeysOf(n))]
                held == [n \in ASN |->
                  SumOver([w \in Worker |-> SumOver(wc[w].asnRequests, KeysOf(n))], Worker)
                    + SumOver(fl.snap.asnRequests, KeysOf(n))]
    <2>1. seen = Seen
      BY AsnProjection, Zenon DEF Seen
    <2>2. \A n \in ASN : held[n] = Held(AsnOf(n)) + AsnOf(n)[fl.snap]
      BY AsnProjection, Zenon
    <2>. HIDE DEF seen, held
    <2>3. ASSUME NEW n \in ASN PROVE seen[n] - held[n] = Settled(AsnOf(n))
      <3>. DEFINE p == AsnOf(n)
      <3>1. p[counted] \in Nat /\ p[fl.snap] \in Nat /\ Held(p) \in Nat
        BY AsnLinear, LinearTypes
      <3>2. seen[n] = p[counted]
        BY <2>1, AsnTypes
      <3>3. held[n] = Held(p) + p[fl.snap]
        BY <2>2
      <3>. HIDE DEF p
      <3>4. seen[n] - held[n] = Settled(p)
        BY <3>1, <3>2, <3>3 DEF Settled
      <3>. QED
        BY <3>4 DEF p
    <2>4. /\ Cardinality(Present(asnTotals)) <= ASNTotalsMax
          /\ \A n \in ASN : asnTotals[n] <= seen[n] - held[n]
          /\ Cardinality(Present(seen)) <= ASNTotalsMax =>
               \A n \in ASN : asnTotals[n] = seen[n] - held[n]
      BY <2>1, <2>3, Zenon DEF AsnInv
    <2>. QED
      BY <2>4, Zenon DEF AsnTotalsSound, seen, held
  <1>. QED
    BY <1>1, <1>2, TypeCorrect, PTL

-----------------------------------------------------------------------------
(* Every request is counted once in each of the four maps.                 *)
Aligned(c) ==
  /\ SumOver(c.requests, Country) = SumOver(c.asnRequests, AsnKey)
  /\ SumOver(c.requests, Country) = SumOver(c.versionRequests, Version)
  /\ SumOver(c.requests, Country) = SumOver(c.familyRequests, Family)

LEMMA LabelsFinite ==
  /\ IsFiniteSet(Country) /\ IsFiniteSet(AsnKey) /\ IsFiniteSet(Version)
  /\ IsFiniteSet(Family) /\ IsFiniteSet(AsnLabel)
  <1>1. IsFiniteSet(ASN) /\ IsFiniteSet(Org)
    BY AsnAssumption DEF AsnAssumption
  <1>2. IsFiniteSet(ASN \X Org)
    BY <1>1, FS_Product
  <1>3. IsFiniteSet((ASN \X Org) \union {UnknownLabel})
    BY <1>2, FS_AddElement
  <1>4. IsFiniteSet(((ASN \X Org) \union {UnknownLabel}) \union {OtherLabel})
    BY <1>3, FS_AddElement
  <1>5. AsnLabel = ((ASN \X Org) \union {UnknownLabel}) \union {OtherLabel}
    BY DEF AsnLabel
  <1>. QED
    BY <1>4, <1>5, KeysFinite, CollectorAssumption DEF CollectorAssumption

LEMMA AlignedNew == Aligned(newWorkerCounters)
  <1>. DEFINE z == newWorkerCounters
  <1>1. /\ \A k \in Country : z.requests[k] = 0
        /\ \A k \in AsnKey : z.asnRequests[k] = 0
        /\ \A v \in Version : z.versionRequests[v] = 0
        /\ \A f \in Family : z.familyRequests[f] = 0
    BY DEF newWorkerCounters
  <1>. HIDE DEF z
  <1>2. /\ SumOver(z.requests, Country) = 0 /\ SumOver(z.asnRequests, AsnKey) = 0
        /\ SumOver(z.versionRequests, Version) = 0 /\ SumOver(z.familyRequests, Family) = 0
    BY <1>1, SumZero
  <1>. QED
    BY <1>2, Zenon DEF Aligned, z

LEMMA AlignedAdd ==
  ASSUME NEW c \in Counters, NEW d \in Counters, Aligned(c), Aligned(d)
  PROVE  Aligned(AddCounters(c, d))
  <1>. DEFINE a == AddCounters(c, d)
  <1>1. /\ \A k \in Country : c.requests[k] \in Nat /\ d.requests[k] \in Nat
        /\ \A k \in AsnKey : c.asnRequests[k] \in Nat /\ d.asnRequests[k] \in Nat
        /\ \A v \in Version : c.versionRequests[v] \in Nat /\ d.versionRequests[v] \in Nat
        /\ \A f \in Family : c.familyRequests[f] \in Nat /\ d.familyRequests[f] \in Nat
    BY DEF Counters
  <1>2. /\ \A k \in Country : a.requests[k] = c.requests[k] + d.requests[k]
        /\ \A k \in AsnKey : a.asnRequests[k] = c.asnRequests[k] + d.asnRequests[k]
        /\ \A v \in Version :
             a.versionRequests[v] = c.versionRequests[v] + d.versionRequests[v]
        /\ \A f \in Family : a.familyRequests[f] = c.familyRequests[f] + d.familyRequests[f]
    BY ZenonT(30) DEF AddCounters
  <1>. HIDE DEF a
  <1>3. SumOver(a.requests, Country) = SumOver(c.requests, Country) + SumOver(d.requests, Country)
    <2>1. \A k \in Country : /\ c.requests[k] \in Nat /\ d.requests[k] \in Nat
                       /\ a.requests[k] = c.requests[k] + d.requests[k]
      BY <1>1, <1>2, Zenon
    <2>. QED
      BY <2>1, LabelsFinite, SumAdds, Zenon
  <1>4. SumOver(a.asnRequests, AsnKey)
          = SumOver(c.asnRequests, AsnKey) + SumOver(d.asnRequests, AsnKey)
    <2>1. \A k \in AsnKey : /\ c.asnRequests[k] \in Nat /\ d.asnRequests[k] \in Nat
                      /\ a.asnRequests[k] = c.asnRequests[k] + d.asnRequests[k]
      BY <1>1, <1>2, Zenon
    <2>. QED
      BY <2>1, LabelsFinite, SumAdds, Zenon
  <1>5. SumOver(a.versionRequests, Version)
          = SumOver(c.versionRequests, Version) + SumOver(d.versionRequests, Version)
    <2>1. \A v \in Version : /\ c.versionRequests[v] \in Nat /\ d.versionRequests[v] \in Nat
                       /\ a.versionRequests[v] = c.versionRequests[v] + d.versionRequests[v]
      BY <1>1, <1>2, Zenon
    <2>. QED
      BY <2>1, LabelsFinite, SumAdds, Zenon
  <1>6. SumOver(a.familyRequests, Family)
          = SumOver(c.familyRequests, Family) + SumOver(d.familyRequests, Family)
    <2>1. \A f \in Family : /\ c.familyRequests[f] \in Nat /\ d.familyRequests[f] \in Nat
                      /\ a.familyRequests[f] = c.familyRequests[f] + d.familyRequests[f]
      BY <1>1, <1>2, Zenon
    <2>. QED
      BY <2>1, LabelsFinite, SumAdds, Zenon
  <1>. QED
    BY <1>3, <1>4, <1>5, <1>6, Zenon DEF Aligned, a

LEMMA IncWhole ==
  ASSUME NEW D, IsFiniteSet(D), NEW h \in [D -> Nat], NEW j \in D
  PROVE  SumOver(Inc(h, j), D) = SumOver(h, D) + 1
  <1>1. D \in SUBSET D
    OBVIOUS
  <1>2. SumOver(Inc(h, j), D) = SumOver(h, D) + (IF j \in D THEN 1 ELSE 0)
    BY <1>1, IncSum, Zenon
  <1>. QED
    BY <1>2, Zenon

LEMMA AlignedCount ==
  ASSUME NEW c \in Counters, Aligned(c), NEW g \in Geo
  PROVE  /\ Aligned(CountResponse(c, g))
         /\ \A f \in Frame : Aligned(CountRequest(c, f, g))
  <1>1. /\ c.requests \in [Country -> Nat] /\ c.asnRequests \in [AsnKey -> Nat]
        /\ c.versionRequests \in [Version -> Nat] /\ c.familyRequests \in [Family -> Nat]
    BY DEF Counters
  <1>2. Aligned(CountResponse(c, g))
    <2>. DEFINE r == CountResponse(c, g)
    <2>1. /\ r.requests = c.requests /\ r.asnRequests = c.asnRequests
          /\ r.versionRequests = c.versionRequests /\ r.familyRequests = c.familyRequests
      BY ZenonT(30) DEF CountResponse, Counters
    <2>. HIDE DEF r
    <2>2. Aligned(r)
      BY <2>1, Zenon DEF Aligned
    <2>. QED
      BY <2>2 DEF r
  <1>3. ASSUME NEW f \in Frame PROVE Aligned(CountRequest(c, f, g))
    <2>. DEFINE r == CountRequest(c, f, g)
                v == VersionLabel(f.version)
    <2>1. /\ r.requests = Inc(c.requests, g.country)
          /\ r.asnRequests = Inc(c.asnRequests, g.asn)
          /\ r.versionRequests = Inc(c.versionRequests, v)
          /\ r.familyRequests = Inc(c.familyRequests, f.family)
      BY ZenonT(30) DEF CountRequest, Counters
    <2>2. v \in Version
      BY CollectorAssumption, Zenon DEF CollectorAssumption, Frame, VersionLabel
    <2>3. g.country \in Country /\ g.asn \in AsnKey /\ f.family \in Family
      BY Zenon DEF Geo, Frame
    <2>. HIDE DEF r, v
    <2>4. SumOver(r.requests, Country) = SumOver(c.requests, Country) + 1
      BY <1>1, <2>1, <2>3, LabelsFinite, IncWhole, Zenon
    <2>5. SumOver(r.asnRequests, AsnKey) = SumOver(c.asnRequests, AsnKey) + 1
      BY <1>1, <2>1, <2>3, LabelsFinite, IncWhole, Zenon
    <2>6. SumOver(r.versionRequests, Version) = SumOver(c.versionRequests, Version) + 1
      BY <1>1, <2>1, <2>2, LabelsFinite, IncWhole, Zenon
    <2>7. SumOver(r.familyRequests, Family) = SumOver(c.familyRequests, Family) + 1
      BY <1>1, <2>1, <2>3, LabelsFinite, IncWhole, Zenon
    <2>8. Aligned(r)
      BY <2>4, <2>5, <2>6, <2>7, Zenon DEF Aligned
    <2>. QED
      BY <2>8 DEF r
  <1>. QED
    BY <1>2, <1>3

(* Folding gives every key one label.                                      *)
LEMMA FoldSum ==
  ASSUME NEW h \in [AsnKey -> Nat], NEW top \in SUBSET ASN, NEW sums,
         \A l \in AsnLabel : sums[l] = SumOver(h, {k \in AsnKey : foldASN(k, top) = l})
  PROVE  SumOver(sums, AsnLabel) = SumOver(h, AsnKey)
  <1>. DEFINE p == [k \in AsnKey |-> foldASN(k, top)]
  <1>1. ASSUME NEW k \in AsnKey PROVE foldASN(k, top) \in AsnLabel
    <2>1. k.asn \in ASN \union {NoASN} /\ k.asOrg \in Org
      BY DEF AsnKey
    <2>. QED
      BY <2>1, Zenon DEF foldASN, AsnLabel
  <1>2. p \in [AsnKey -> AsnLabel]
    BY <1>1
  <1>3. ASSUME NEW l \in AsnLabel
        PROVE  {k \in AsnKey : foldASN(k, top) = l} = Fiber(p, AsnKey, l)
    BY DEF Fiber
  <1>. HIDE DEF p
  <1>4. \A l \in AsnLabel : sums[l] = SumOver(h, Fiber(p, AsnKey, l))
    BY <1>3, Zenon
  <1>5. \A k \in AsnKey : h[k] \in Nat
    OBVIOUS
  <1>6. IsFiniteSet(AsnKey) /\ IsFiniteSet(AsnLabel)
    BY LabelsFinite
  <1>. QED
    BY <1>2, <1>4, <1>5, <1>6, SumFibers

Early == IF fl.pc = "breakdown" THEN SumOver(fl.snap.requests, Country) ELSE 0

BreakdownInv ==
  /\ Aligned(fl.snap) /\ \A w \in Worker : Aligned(wc[w])
  /\ SumOver(m.requests, Country) = SumOver(asnMetric, AsnLabel) + Early
  /\ SumOver(m.requests, Country) = SumOver(m.version, Version) + Early
  /\ SumOver(m.requests, Country) = SumOver(m.family, Family) + Early

LEMMA BreakdownTypes ==
  ASSUME TypeOK
  PROVE  /\ SumOver(m.requests, Country) \in Nat /\ SumOver(asnMetric, AsnLabel) \in Nat
         /\ SumOver(m.version, Version) \in Nat /\ SumOver(m.family, Family) \in Nat
         /\ SumOver(fl.snap.requests, Country) \in Nat /\ Early \in Nat
  <1>1. /\ \A k \in Country : m.requests[k] \in Nat /\ fl.snap.requests[k] \in Nat
        /\ \A v \in Version : m.version[v] \in Nat
        /\ \A f \in Family : m.family[f] \in Nat
    BY DEF TypeOK, Metrics, FlusherType, Counters
  <1>2. \A l \in AsnLabel : asnMetric[l] \in Nat
    BY DEF TypeOK, FlusherType
  <1>. QED
    BY <1>1, <1>2, LabelsFinite, SumType DEF Early

LEMMA BreakdownStep ==
  TypeOK /\ SnapReset /\ BreakdownInv /\ [Next]_vars => BreakdownInv'
  <1>. SUFFICES ASSUME TypeOK, SnapReset, BreakdownInv, [Next]_vars PROVE BreakdownInv'
    OBVIOUS
  <1>1. wc \in [Worker -> Counters] /\ fl.snap \in Counters /\ fl.worker \in Worker
    BY DEF TypeOK, CountersType, FlusherType
  <1>2. CASE KeepsCounts
    <2>1. /\ wc' = wc /\ fl'.snap = fl.snap /\ asnMetric' = asnMetric
          /\ m'.requests = m.requests /\ m'.version = m.version /\ m'.family = m.family
          /\ fl'.pc = "breakdown" <=> fl.pc = "breakdown"
      BY <1>2 DEF KeepsCounts, Published, asns
    <2>. QED
      BY <2>1, ZenonT(30) DEF BreakdownInv, Early
  <1>3. ASSUME NEW w \in Worker, NEW c, Aligned(c), wc' = [wc EXCEPT ![w] = c],
               UNCHANGED <<fl, asns>>, Published(m') = Published(m)
        PROVE  BreakdownInv'
    <2>1. \A v \in Worker : Aligned(wc'[v])
      BY <1>1, <1>3, Zenon DEF BreakdownInv
    <2>2. /\ fl' = fl /\ asnMetric' = asnMetric
          /\ m'.requests = m.requests /\ m'.version = m.version /\ m'.family = m.family
      BY <1>3 DEF Published, asns
    <2>. QED
      BY <2>1, <2>2, Zenon DEF BreakdownInv, Early
  <1>4. CASE CountsRequest
    <2>1. PICK w \in Worker, f \in Frame, g \in Geo :
            wc' = [wc EXCEPT ![w] = CountRequest(@, f, g)]
      BY <1>4, Zenon DEF CountsRequest
    <2>2. Aligned(CountRequest(wc[w], f, g))
      BY <1>1, AlignedCount DEF BreakdownInv
    <2>. QED
      BY <1>3, <1>4, <2>1, <2>2, Zenon DEF CountsRequest
  <1>5. CASE CountsResponse
    <2>1. PICK w \in Worker, g \in Geo : wc' = [wc EXCEPT ![w] = CountResponse(@, g)]
      BY <1>5, Zenon DEF CountsResponse
    <2>2. Aligned(CountResponse(wc[w], g))
      BY <1>1, AlignedCount DEF BreakdownInv
    <2>. QED
      BY <1>3, <1>5, <2>1, <2>2, Zenon DEF CountsResponse
  <1>6. CASE DrainWorker
    <2>1. /\ fl'.snap = AddCounters(fl.snap, wc[fl.worker])
          /\ wc' = [wc EXCEPT ![fl.worker] = newWorkerCounters]
          /\ fl.pc # "breakdown" /\ fl'.pc # "breakdown"
          /\ m' = m /\ asnMetric' = asnMetric
      BY <1>6 DEF DrainWorker, asns, TypeOK, FlusherType
    <2>2. Aligned(AddCounters(fl.snap, wc[fl.worker]))
      BY <1>1, AlignedAdd DEF BreakdownInv
    <2>3. \A v \in Worker : Aligned(wc'[v])
      BY <1>1, <2>1, AlignedNew, Zenon DEF BreakdownInv
    <2>4. Early' = Early
      BY <2>1 DEF Early
    <2>. QED
      BY <2>1, <2>2, <2>3, <2>4, Zenon DEF BreakdownInv
  <1>7. CASE Publish
    <2>1. /\ wc' = wc /\ fl'.snap = fl.snap /\ asnMetric' = asnMetric
          /\ m'.version = m.version /\ m'.family = m.family
          /\ fl.pc # "breakdown" /\ fl'.pc = "breakdown"
      BY <1>7 DEF Publish, asns, TypeOK, FlusherType, Metrics
    <2>2. Early = 0 /\ Early' = SumOver(fl.snap.requests, Country)
      BY <2>1 DEF Early
    <2>3. \A k \in Country : /\ m'.requests[k] = m.requests[k] + fl.snap.requests[k]
                             /\ m.requests[k] \in Nat /\ fl.snap.requests[k] \in Nat
      <3>1. \A k \in Country : m.requests[k] \in Nat /\ fl.snap.requests[k] \in Nat
        BY <1>1 DEF TypeOK, Metrics, Counters
      <3>2. \A k \in Country : m'.requests[k] = m.requests[k] + fl.snap.requests[k]
        BY <1>7, ZenonT(30) DEF Publish, TypeOK, Metrics
      <3>. QED
        BY <3>1, <3>2, Zenon
    <2>4. SumOver(m'.requests, Country) = SumOver(m.requests, Country) + Early'
      <3>1. \A k \in Country : /\ m.requests[k] \in Nat /\ fl.snap.requests[k] \in Nat
                               /\ m'.requests[k] = m.requests[k] + fl.snap.requests[k]
        BY <2>3, Zenon
      <3>. QED
        BY <2>2, <3>1, LabelsFinite, SumAdds, Zenon
    <2>5. SumOver(fl.snap.requests, Country) \in Nat
      BY BreakdownTypes
    <2>6. /\ SumOver(m'.requests, Country) = SumOver(asnMetric', AsnLabel) + Early'
          /\ SumOver(m'.requests, Country) = SumOver(m'.version, Version) + Early'
          /\ SumOver(m'.requests, Country) = SumOver(m'.family, Family) + Early'
      <3>1. /\ SumOver(m.requests, Country) = SumOver(asnMetric, AsnLabel) + 0
            /\ SumOver(m.requests, Country) = SumOver(m.version, Version) + 0
            /\ SumOver(m.requests, Country) = SumOver(m.family, Family) + 0
        BY <2>2, Zenon DEF BreakdownInv
      <3>2. Early' \in Nat
        BY <2>2, <2>5, Zenon
      <3>3. /\ SumOver(m.requests, Country) + Early' = SumOver(asnMetric, AsnLabel) + Early'
            /\ SumOver(m.requests, Country) + Early' = SumOver(m.version, Version) + Early'
            /\ SumOver(m.requests, Country) + Early' = SumOver(m.family, Family) + Early'
        <4>1. /\ SumOver(m.requests, Country) \in Nat /\ SumOver(asnMetric, AsnLabel) \in Nat
              /\ SumOver(m.version, Version) \in Nat /\ SumOver(m.family, Family) \in Nat
          BY BreakdownTypes, Zenon
        <4>. QED
          BY <3>1, <3>2, <4>1, SMTT(20)
      <3>4. asnMetric' = asnMetric /\ m'.version = m.version /\ m'.family = m.family
        BY <2>1
      <3>. QED
        BY <2>4, <3>3, <3>4, Zenon
    <2>. QED
      BY <2>1, <2>6, Zenon DEF BreakdownInv
  <1>8. CASE PublishBreakdowns
    <2>. DEFINE snap == fl.snap
                top == topNASNs(asnTotals', AsnTopN)
                sums == [l \in AsnLabel |->
                          SumOver(snap.asnRequests, {k \in AsnKey : foldASN(k, top) = l})]
                e == SumOver(snap.requests, Country)
    <2>1. /\ wc' = wc /\ fl'.snap = newWorkerCounters /\ m'.requests = m.requests
          /\ fl.pc = "breakdown" /\ fl'.pc = "evict"
      BY <1>8 DEF PublishBreakdowns, TypeOK, FlusherType, Metrics
    <2>2. Early = e /\ Early' = 0
      BY <2>1 DEF Early
    <2>3. /\ \A k \in AsnKey : snap.asnRequests[k] \in Nat
          /\ \A v \in Version : m.version[v] \in Nat /\ snap.versionRequests[v] \in Nat
          /\ \A f \in Family : m.family[f] \in Nat /\ snap.familyRequests[f] \in Nat
          /\ \A l \in AsnLabel : asnMetric[l] \in Nat
          /\ snap.asnRequests \in [AsnKey -> Nat]
      <3>1. \A l \in AsnLabel : asnMetric[l] \in Nat
        BY DEF TypeOK, FlusherType
      <3>2. /\ \A v \in Version : m.version[v] \in Nat
            /\ \A f \in Family : m.family[f] \in Nat
        BY DEF TypeOK, Metrics
      <3>. QED
        BY <1>1, <3>1, <3>2 DEF Counters
    <2>4. SumOver(asnMetric', AsnLabel) = SumOver(asnMetric, AsnLabel) + e
      <3>1. asnMetric' = [l \in AsnLabel |-> asnMetric[l] +
                SumOver(snap.asnRequests, {k \in AsnKey : foldASN(k, top) = l})]
        BY <1>8, Zenon DEF PublishBreakdowns
      <3>2. \A l \in AsnLabel :
              SumOver(snap.asnRequests, {k \in AsnKey : foldASN(k, top) = l}) \in Nat
        BY <1>1, AsnSumType
      <3>3. \A l \in AsnLabel : /\ asnMetric'[l] = asnMetric[l] + sums[l]
                                /\ sums[l] \in Nat
                                /\ sums[l] = SumOver(snap.asnRequests,
                                               {k \in AsnKey : foldASN(k, top) = l})
        BY <3>1, <3>2, Zenon
      <3>4. top \in SUBSET ASN
        BY DEF topNASNs, Present
      <3>. HIDE DEF snap, top, sums
      <3>5. SumOver(sums, AsnLabel) = SumOver(snap.asnRequests, AsnKey)
        <4>1. \A l \in AsnLabel :
                sums[l] = SumOver(snap.asnRequests, {k \in AsnKey : foldASN(k, top) = l})
          BY <3>3
        <4>. QED
          BY <2>3, <3>4, <4>1, FoldSum, Zenon
      <3>6. SumOver(asnMetric', AsnLabel) = SumOver(asnMetric, AsnLabel) + SumOver(sums, AsnLabel)
        <4>1. \A l \in AsnLabel : /\ asnMetric[l] \in Nat /\ sums[l] \in Nat
                                  /\ asnMetric'[l] = asnMetric[l] + sums[l]
          BY <2>3, <3>3, Zenon
        <4>. QED
          BY <4>1, LabelsFinite, SumAdds, Zenon
      <3>7. e = SumOver(snap.asnRequests, AsnKey)
        BY Zenon DEF BreakdownInv, Aligned, snap
      <3>. HIDE DEF e
      <3>. QED
        BY <3>5, <3>6, <3>7, Zenon
    <2>5. SumOver(m'.version, Version) = SumOver(m.version, Version) + e
      <3>1. \A v \in Version : m'.version[v] = m.version[v] + snap.versionRequests[v]
        BY <1>8, ZenonT(30) DEF PublishBreakdowns, TypeOK, Metrics
      <3>. HIDE DEF snap
      <3>2. SumOver(m'.version, Version)
              = SumOver(m.version, Version) + SumOver(snap.versionRequests, Version)
        <4>1. \A v \in Version : /\ m.version[v] \in Nat /\ snap.versionRequests[v] \in Nat
                                 /\ m'.version[v] = m.version[v] + snap.versionRequests[v]
          BY <2>3, <3>1, Zenon
        <4>. QED
          BY <4>1, LabelsFinite, SumAdds, Zenon
      <3>. QED
        BY <3>2, Zenon DEF BreakdownInv, Aligned, snap
    <2>6. SumOver(m'.family, Family) = SumOver(m.family, Family) + e
      <3>1. \A f \in Family : m'.family[f] = m.family[f] + snap.familyRequests[f]
        BY <1>8, ZenonT(30) DEF PublishBreakdowns, TypeOK, Metrics
      <3>. HIDE DEF snap
      <3>2. SumOver(m'.family, Family)
              = SumOver(m.family, Family) + SumOver(snap.familyRequests, Family)
        <4>1. \A f \in Family : /\ m.family[f] \in Nat /\ snap.familyRequests[f] \in Nat
                                /\ m'.family[f] = m.family[f] + snap.familyRequests[f]
          BY <2>3, <3>1, Zenon
        <4>. QED
          BY <4>1, LabelsFinite, SumAdds, Zenon
      <3>. QED
        BY <3>2, Zenon DEF BreakdownInv, Aligned, snap
    <2>. HIDE DEF e
    <2>7. e \in Nat
      BY BreakdownTypes DEF e
    <2>8. \A a, b \in Nat : a = b + e => a = (b + e) + 0
      BY <2>7
    <2>9. /\ SumOver(m'.requests, Country) = SumOver(asnMetric', AsnLabel) + Early'
          /\ SumOver(m'.requests, Country) = SumOver(m'.version, Version) + Early'
          /\ SumOver(m'.requests, Country) = SumOver(m'.family, Family) + Early'
      <3>1. /\ SumOver(m.requests, Country) = SumOver(asnMetric, AsnLabel) + e
            /\ SumOver(m.requests, Country) = SumOver(m.version, Version) + e
            /\ SumOver(m.requests, Country) = SumOver(m.family, Family) + e
        BY <2>2, Zenon DEF BreakdownInv
      <3>2. /\ SumOver(m.requests, Country) = (SumOver(asnMetric, AsnLabel) + e) + 0
            /\ SumOver(m.requests, Country) = (SumOver(m.version, Version) + e) + 0
            /\ SumOver(m.requests, Country) = (SumOver(m.family, Family) + e) + 0
        BY <2>8, <3>1, BreakdownTypes, Zenon
      <3>3. m'.requests = m.requests /\ Early' = 0
        BY <2>1, <2>2
      <3>. QED
        BY <2>4, <2>5, <2>6, <3>2, <3>3, Zenon
    <2>. QED
      BY <2>1, <2>9, AlignedNew, Zenon DEF BreakdownInv
  <1>. QED
    BY <1>2, <1>4, <1>5, <1>6, <1>7, <1>8, StepKinds DEF FlushMoves

LEMMA BreakdownInit == Init => BreakdownInv
  <1>. SUFFICES ASSUME Init PROVE BreakdownInv
    OBVIOUS
  <1>1. /\ wc = [w \in Worker |-> newWorkerCounters] /\ fl.snap = newWorkerCounters
        /\ fl.pc = "drain"
    BY DEF Init, NewFlush
  <1>2. /\ \A k \in Country : m.requests[k] = 0
        /\ \A l \in AsnLabel : asnMetric[l] = 0
        /\ \A v \in Version : m.version[v] = 0
        /\ \A f \in Family : m.family[f] = 0
    BY DEF Init
  <1>3. /\ SumOver(m.requests, Country) = 0 /\ SumOver(asnMetric, AsnLabel) = 0
        /\ SumOver(m.version, Version) = 0 /\ SumOver(m.family, Family) = 0
    BY <1>2, SumZero
  <1>4. Early = 0
    BY <1>1 DEF Early
  <1>5. (\A w \in Worker : Aligned(wc[w])) /\ Aligned(fl.snap)
    BY <1>1, AlignedNew, Zenon
  <1>6. 0 = 0 + 0
    OBVIOUS
  <1>. QED
    BY <1>3, <1>4, <1>5, <1>6, Zenon DEF BreakdownInv

(* metrics.go:23-100: for any number of workers, any databases reloaded    *)
(* between frames and any pruning and folding, the breakdowns by country,  *)
(* ASN, version and family add up to the same number of requests whenever  *)
(* Flush is not in the middle of publishing them.                          *)
THEOREM BreakdownsAlwaysAgree == Spec => []BreakdownsAgree
  <1>1. Spec => []BreakdownInv
    BY BreakdownInit, TypeCorrect, SnapAlwaysReset, BreakdownStep, PTL DEF Spec
  <1>2. TypeOK /\ BreakdownInv => BreakdownsAgree
    <2>. SUFFICES ASSUME TypeOK, BreakdownInv, fl.pc # "breakdown" PROVE BreakdownsAgree
      BY Zenon DEF BreakdownsAgree
    <2>1. Early = 0
      BY Zenon DEF Early
    <2>2. \A a, b \in Nat : a = b + 0 => a = b
      OBVIOUS
    <2>3. /\ SumOver(m.requests, Country) = SumOver(asnMetric, AsnLabel)
          /\ SumOver(m.requests, Country) = SumOver(m.version, Version)
          /\ SumOver(m.requests, Country) = SumOver(m.family, Family)
      BY <2>1, <2>2, BreakdownTypes, Zenon DEF BreakdownInv
    <2>. QED
      BY <2>3, Zenon DEF BreakdownsAgree
  <1>. QED
    BY <1>1, <1>2, TypeCorrect, PTL

-----------------------------------------------------------------------------
CountersGrow ==
  /\ m'.kernelDrops >= m.kernelDrops /\ m'.overflow >= m.overflow
  /\ \A k \in Country : m'.requests[k] >= m.requests[k] /\ m'.drops[k] >= m.drops[k]
  /\ \A l \in AsnLabel : asnMetric'[l] >= asnMetric[l]

(* The two counters that are not published from the snapshot.              *)
LEMMA PlainCountersGrow ==
  ASSUME TypeOK, [Next]_vars
  PROVE  m'.kernelDrops >= m.kernelDrops /\ m'.overflow >= m.overflow
  <1>1. m.kernelDrops \in Nat /\ m.overflow \in Nat /\ lastDrops \in Nat /\ tpDrops \in Nat
    BY DEF TypeOK, Metrics, WorldType, FlusherType
  <1>2. CASE m'.kernelDrops = m.kernelDrops /\ m'.overflow = m.overflow
    BY <1>1, <1>2
  <1>3. ASSUME NEW w \in Worker, StorePending(w)
        PROVE  m'.kernelDrops >= m.kernelDrops /\ m'.overflow >= m.overflow
    <2>1. /\ m'.kernelDrops = m.kernelDrops
          /\ m'.overflow = m.overflow \/ m'.overflow = m.overflow + 1
      BY <1>3 DEF StorePending, TypeOK, Metrics
    <2>. QED
      BY <1>1, <2>1
  <1>4. ASSUME NEW w \in Worker, HandleFrame(w), ~StorePending(w)
        PROVE  m'.kernelDrops = m.kernelDrops /\ m'.overflow = m.overflow
    BY <1>4, ZenonT(30) DEF HandleFrame, AddFrame, CompareAndSwap, SweepShard, Count,
       ReadClock, TouchActive, AddToBucket, PairResponse, TypeOK, Metrics
  <1>5. CASE Publish
    <2>1. /\ m'.kernelDrops = m.kernelDrops + DropsDelta(lastDrops', lastDrops)
          /\ m'.overflow = m.overflow /\ lastDrops' \in {tpDrops, lastDrops}
      BY <1>5 DEF Publish, TypeOK, Metrics
    <2>2. DropsDelta(lastDrops', lastDrops) \in Nat
      <3>1. \A a, b \in Nat : DropsDelta(a, b) \in Nat
        BY DEF DropsDelta
      <3>2. lastDrops' \in Nat
        BY <1>1, <2>1
      <3>. QED
        BY <1>1, <3>1, <3>2, Zenon
    <2>. QED
      BY <1>1, <2>1, <2>2
  <1>6. CASE Flush /\ ~Publish
    <2>1. m'.kernelDrops = m.kernelDrops /\ m'.overflow = m.overflow
      BY <1>6, ZenonT(30) DEF Flush, DrainWorker, PublishBreakdowns, EvictShard, SetActive,
         ExpireShard, MergeHourly, TypeOK, Metrics
    <2>. QED
      BY <1>2, <2>1
  <1>7. CASE m' = m
    BY <1>2, <1>7
  <1>. QED
    BY <1>2, <1>3, <1>4, <1>5, <1>6, <1>7 DEF Next, Environment, vars

LEMMA CountersStep == TypeOK /\ SnapReset /\ [Next]_vars => CountersGrow
  <1>. SUFFICES ASSUME TypeOK, SnapReset, [Next]_vars PROVE CountersGrow
    OBVIOUS
  <1>1. fl.snap \in Counters /\ asnMetric \in [AsnLabel -> Nat]
    BY DEF TypeOK, FlusherType
  <1>2. /\ \A k \in Country : /\ m.requests[k] \in Nat /\ m.drops[k] \in Nat
                              /\ fl.snap.requests[k] \in Nat
        /\ \A l \in AsnLabel : asnMetric[l] \in Nat
    <2>1. \A k \in Country : m.requests[k] \in Nat /\ m.drops[k] \in Nat
      BY DEF TypeOK, Metrics
    <2>. QED
      BY <1>1, <2>1 DEF Counters
  <1>3. CASE UNCHANGED asnMetric /\ Published(m') = Published(m)
    <2>1. m'.requests = m.requests /\ m'.drops = m.drops /\ asnMetric' = asnMetric
      BY <1>3 DEF Published
    <2>2. \A a \in Nat : a >= a
      OBVIOUS
    <2>. QED
      BY <1>2, <2>1, <2>2, PlainCountersGrow, Zenon DEF CountersGrow
  <1>4. CASE Publish
    <2>1. asnMetric' = asnMetric
      BY <1>4 DEF Publish, asns
    <2>2. \A k \in Country : /\ m'.requests[k] = m.requests[k] + fl.snap.requests[k]
                             /\ m'.drops[k] = m.drops[k] + Unanswered(fl.snap, k)
      BY <1>4, ZenonT(30) DEF Publish, TypeOK, Metrics
    <2>3. \A k \in Country : Unanswered(fl.snap, k) \in Nat
      BY <1>1, UnansweredFacts
    <2>4. \A a, b \in Nat : a >= a /\ a + b >= a
      OBVIOUS
    <2>5. \A k \in Country : m'.requests[k] >= m.requests[k] /\ m'.drops[k] >= m.drops[k]
      BY <1>2, <2>2, <2>3, <2>4, Zenon
    <2>6. \A l \in AsnLabel : asnMetric'[l] >= asnMetric[l]
      BY <1>2, <2>1, <2>4, Zenon
    <2>. QED
      BY <2>5, <2>6, PlainCountersGrow, Zenon DEF CountersGrow
  <1>5. CASE PublishBreakdowns
    <2>. DEFINE S(l) == {k \in AsnKey : foldASN(k, topNASNs(asnTotals', AsnTopN)) = l}
                n(l) == SumOver(fl.snap.asnRequests, S(l))
    <2>1. m'.requests = m.requests /\ m'.drops = m.drops
      BY <1>5 DEF PublishBreakdowns, TypeOK, Metrics
    <2>2. \A l \in AsnLabel : n(l) \in Nat
      BY <1>1, AsnSumType
    <2>3. \A l \in AsnLabel : asnMetric'[l] = asnMetric[l] + n(l)
      BY <1>5, Zenon DEF PublishBreakdowns
    <2>. HIDE DEF n
    <2>4. \A l \in AsnLabel : asnMetric'[l] >= asnMetric[l]
      <3>1. \A a, b \in Nat : a + b >= a
        OBVIOUS
      <3>. QED
        BY <1>2, <2>2, <2>3, <3>1, Zenon
    <2>5. \A a \in Nat : a >= a
      OBVIOUS
    <2>. QED
      BY <1>2, <2>1, <2>4, <2>5, PlainCountersGrow, Zenon DEF CountersGrow
  <1>. QED
    BY <1>3, <1>4, <1>5, StepKinds
    DEF KeepsCounts, CountsRequest, CountsResponse, FlushMoves, DrainWorker, Published, asns

(* aggregate.go:304-316, 341-344: for any number of workers and sockets,   *)
(* no step takes anything from a counter: neither a drop sum that fell nor *)
(* more responses than requests reaches Add.                               *)
THEOREM CountersAlwaysGrow == Spec => CountersOnlyGrow
  <1>1. TypeOK /\ SnapReset /\ [Next]_vars => [CountersGrow]_<<m, asnMetric>>
    BY CountersStep
  <1>2. [][CountersGrow]_<<m, asnMetric>> <=> CountersOnlyGrow
    BY PTL DEF CountersOnlyGrow, CountersGrow
  <1>. QED
    BY <1>1, <1>2, TypeCorrect, SnapAlwaysReset, PTL DEF Spec

=============================================================================
