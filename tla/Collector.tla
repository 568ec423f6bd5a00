------------------------------ MODULE Collector ------------------------------
(***************************************************************************)
(* The packet collector of exporter/internal/aggregate/aggregate.go:       *)
(* NumWorkers capture goroutines run HandleFrame concurrently, one         *)
(* goroutine runs Flush again and again.                                   *)
(*                                                                         *)
(* A step is one critical section (wc.mu, sh.mu, hourlyMu), one atomic     *)
(* operation, or one clock reading, with the goroutine-local work next to  *)
(* it. A map is a total function whose default (0 or Absent) stands for a  *)
(* missing key. A Prometheus counter is a number, a histogram the set of   *)
(* the values observed.                                                    *)
(*                                                                         *)
(* An operator that nothing uses is a faulty variant of the definition     *)
(* after it: the mutation of the code that a property has to notice.       *)
(***************************************************************************)
EXTENDS Asn, HourlyRing, DropTally, FiniteSums, Integers, Sequences, FiniteSets

CONSTANTS
  NumWorkers, NumShards,
  ShardIndex,          (* shardIndex: [IP -> 0 .. NumShards - 1]            *)
  XID, Nil,            (* origin/transmit timestamps; a nil xid             *)
  Country,             (* (country, continent) pairs                        *)
  Version, Family,     (* label values; Version includes "other"            *)
  GeoOf,               (* [IP -> SUBSET Geo]: what Resolve(ip) may return   *)
                       (* (the databases are reloaded while we run)         *)
  PendingMax, PendingTTL, PendingSweepEvery, ActiveWindow,
  ASNTotalsMax, AsnTopN,
  TicksPerHour,        (* clock ticks in an hour of the wall clock          *)
  Absent,
  Frames,              (* frames on the wire: a subset of Frame             *)
  RingSize, MaxFrames,               (* bounds                              *)
  MaxClock, MaxWall, MaxSteps

Worker    == 0 .. NumWorkers - 1
Shard     == 0 .. NumShards - 1
Key       == IP \X XID                    (* pendingKey                     *)
Direction == {"request", "response"}
Geo       == [country : Country, asn : AsnKey]

(* What ProcessFrame passes to HandleFrame, but for the timestamp.         *)
Frame == [direction : Direction, ip : IP, family : Family,
          version : Version \union {""}, xid : XID \union {Nil}]

ASSUME CollectorAssumption ==
  /\ NumWorkers \in Nat \ {0} /\ NumShards \in Nat \ {0}
  /\ ShardIndex \in [IP -> Shard]
  /\ "other" \in Version
  /\ GeoOf \in [IP -> SUBSET Geo]
  /\ {PendingMax, PendingTTL, ActiveWindow, ASNTotalsMax, AsnTopN} \subseteq Nat
  /\ PendingSweepEvery \in Nat \ {0} /\ TicksPerHour \in Nat \ {0}
  /\ Absent \notin Int /\ Absent \notin Frames /\ Nil \notin XID
  /\ Frames \subseteq Frame
  /\ {RingSize, MaxFrames, MaxClock, MaxWall, MaxSteps, MaxDrops} \subseteq Nat
  /\ IsFiniteSet(IP) /\ IsFiniteSet(XID)
  /\ IsFiniteSet(Country) /\ IsFiniteSet(Version) /\ IsFiniteSet(Family)

VARIABLES
  ring,      (* [Worker -> Seq]: frames in the worker's TPACKET ring        *)
  hf,        (* [Worker -> record]: HandleFrame's program counter and locals*)
  framesSinceSweep,
  wc,        (* [Worker -> Counters]: c.workers                             *)
  pending,   (* [Key -> reqTS or Absent], the union of the shards' tables   *)
  active,    (* [IP -> last-seen clock time or Absent], likewise            *)
  hourly, hour,
  asnTotals,
  fl,        (* record: Flush's program counter and locals                  *)
  lastDrops, (* main's lastDrops                                            *)
  asnMetric, (* NtpClientRequestsByASNTotal                                 *)
  m,         (* the other metrics of package metrics                        *)
  clock,     (* the monotonic clock                                         *)
  wall,      (* the wall clock, which can be stepped                        *)
  env,       (* record: what the environment did so far                     *)
  counted    (* history: every frame ever counted, by label                 *)

vars == <<ring, hf, framesSinceSweep, wc, pending, active, hourly, hour,
          asnTotals, fl, lastDrops, asnMetric, m, clock, wall, env, drops, counted>>

counters  == <<wc, counted>>
tables    == <<pending, active>>
sketches  == <<hourly, hour>>
asns      == <<asnTotals, asnMetric>>
flusher   == <<fl, asns, lastDrops>>
world     == <<clock, wall, env, drops>>
-----------------------------------------------------------------------------
(* workerCounters without its mutex                                        *)
Counters == [requests : [Country -> Nat], responses : [Country -> Nat],
             asnRequests : [AsnKey -> Nat], versionRequests : [Version -> Nat],
             familyRequests : [Family -> Nat]]

newWorkerCounters ==
  [requests        |-> [k \in Country |-> 0],
   responses       |-> [k \in Country |-> 0],
   asnRequests     |-> [k \in AsnKey  |-> 0],
   versionRequests |-> [v \in Version |-> 0],
   familyRequests  |-> [f \in Family  |-> 0]]

VersionLabel(v) == IF v = "" THEN "other" ELSE v

Inc(counts, k) == [counts EXCEPT ![k] = @ + 1]

CountRequestNoFamily(c, f, g) ==
  [c EXCEPT !.requests        = Inc(@, g.country),
            !.asnRequests     = Inc(@, g.asn),
            !.versionRequests = Inc(@, VersionLabel(f.version))]

(* The two critical sections on wc.mu in HandleFrame.                      *)
CountRequest(c, f, g) ==
  [c EXCEPT !.requests        = Inc(@, g.country),
            !.asnRequests     = Inc(@, g.asn),
            !.versionRequests = Inc(@, VersionLabel(f.version)),
            !.familyRequests  = Inc(@, f.family)]

CountResponse(c, g) == [c EXCEPT !.responses = Inc(@, g.country)]

AddCountersOverwriting(c, d) == d

(* Flush's snapshot loop for one worker.                                   *)
AddCounters(c, d) ==
  [requests        |-> [k \in Country |-> c.requests[k] + d.requests[k]],
   responses       |-> [k \in Country |-> c.responses[k] + d.responses[k]],
   asnRequests     |-> [k \in AsnKey  |-> c.asnRequests[k] + d.asnRequests[k]],
   versionRequests |-> [v \in Version |-> c.versionRequests[v] + d.versionRequests[v]],
   familyRequests  |-> [f \in Family  |-> c.familyRequests[f] + d.familyRequests[f]]]

PendingIn(s)   == {k \in Key : ShardIndex[k[1]] = s /\ pending[k] # Absent}
ActiveIn(t, s) == {ip \in IP : ShardIndex[ip] = s /\ t[ip] # Absent}

Expired(t, cutoff) == t < cutoff

(* The two sweeps delete a shard's entries that are older than the cutoff. *)
SweptPending(s, cutoff) ==
  [k \in Key |-> IF k \in PendingIn(s) /\ Expired(pending[k], cutoff)
                 THEN Absent ELSE pending[k]]

EvictedActive(s, cutoff) ==
  [ip \in IP |-> IF ip \in ActiveIn(active, s) /\ Expired(active[ip], cutoff)
                 THEN Absent ELSE active[ip]]

HourOf(t) == (t \div TicksPerHour) % HoursPerDay

IdleFrame == [pc |-> "idle", frame |-> Absent, ts |-> 0, n |-> 0,
              shard |-> 0, now |-> 0]

NewFlush == [pc |-> "drain", worker |-> 0, snap |-> newWorkerCounters,
             shard |-> 0, cutoff |-> 0, count |-> 0]

(* New, and the state of the process around it when capture starts.        *)
Init ==
  /\ ring = [w \in Worker |-> <<>>]
  /\ hf = [w \in Worker |-> IdleFrame]
  /\ framesSinceSweep = 0
  /\ wc = [w \in Worker |-> newWorkerCounters]
  /\ pending = [k \in Key |-> Absent]
  /\ active = [ip \in IP |-> Absent]
  /\ hourly = EmptyRing /\ hour = Unset
  /\ asnTotals = [a \in ASN |-> 0]
  /\ fl = NewFlush
  /\ lastDrops = 0
  /\ asnMetric = [l \in AsnLabel |-> 0]
  /\ m = [packets |-> [d \in Direction |-> 0],
          requests |-> [k \in Country |-> 0], drops |-> [k \in Country |-> 0],
          version |-> [v \in Version |-> 0], family |-> [f \in Family |-> 0],
          kernelDrops |-> 0, overflow |-> 0, interval |-> {}, latency |-> {},
          active |-> 0, uniqueDaily |-> {}]
  /\ clock = 0 /\ wall = 0
  /\ env = [captured |-> 0, steps |-> 0]
  /\ DropsInit
  /\ counted = newWorkerCounters
-----------------------------------------------------------------------------
(* The environment.                                                        *)

(* The kernel puts a frame, stamped with the wall clock, into a ring.      *)
Capture(w, f) ==
  /\ env.captured < MaxFrames /\ Len(ring[w]) < RingSize
  /\ ring' = [ring EXCEPT ![w] = Append(@, [frame |-> f, ts |-> wall])]
  /\ env' = [env EXCEPT !.captured = @ + 1]
  /\ UNCHANGED <<clock, wall, drops>>

(* Time passes; the wall clock is set (chronyd's makestep, an operator).   *)
Tick ==
  /\ clock < MaxClock
  /\ clock' = clock + 1 /\ wall' = wall + 1
  /\ UNCHANGED <<ring, drops, env>>

StepWall ==
  /\ env.steps < MaxSteps
  /\ wall' \in (0 .. MaxWall) \ {wall}
  /\ env' = [env EXCEPT !.steps = @ + 1]
  /\ UNCHANGED <<ring, clock, drops>>
-----------------------------------------------------------------------------
(* HandleFrame, on worker w.                                               *)
At(w, pc) == hf[w].pc = pc

(* n and now are dead after the step that uses them.                       *)
Goto(w, pc) == hf' = [hf EXCEPT ![w].pc = pc, ![w].n = 0, ![w].now = 0]
Return(w)   == hf' = [hf EXCEPT ![w] = IdleFrame]

(* ReadPacketData returns the next frame; atomic.AddInt64.                 *)
AddFrame(w) ==
  /\ At(w, "idle") /\ ring[w] # <<>>
  /\ framesSinceSweep' = framesSinceSweep + 1
  /\ hf' = [hf EXCEPT ![w] = [IdleFrame EXCEPT
                                !.pc = "cas", !.n = framesSinceSweep',
                                !.frame = Head(ring[w]).frame,
                                !.ts = Head(ring[w]).ts]]
  /\ ring' = [ring EXCEPT ![w] = Tail(@)]
  /\ UNCHANGED <<counters, tables, sketches, m>>

WinsSweepExactly(w) == hf[w].n = PendingSweepEvery /\ framesSinceSweep = hf[w].n

(* n >= PendingSweepEvery && atomic.CompareAndSwapInt64(..., n, 0)         *)
WinsSweep(w) == hf[w].n >= PendingSweepEvery /\ framesSinceSweep = hf[w].n

CompareAndSwap(w) ==
  /\ At(w, "cas")
  /\ \/ WinsSweep(w) /\ framesSinceSweep' = 0 /\ Goto(w, "sweep")
     \/ ~WinsSweep(w) /\ UNCHANGED framesSinceSweep /\ Goto(w, "count")
  /\ UNCHANGED <<ring, counters, tables, sketches, m>>

SweepShard(w) ==
  /\ At(w, "sweep")
  /\ pending' = SweptPending(hf[w].shard, hf[w].ts - PendingTTL)
  /\ hf' = IF hf[w].shard + 1 \in Shard
           THEN [hf EXCEPT ![w].shard = @ + 1]
           ELSE [hf EXCEPT ![w].pc = "count", ![w].shard = 0]
  /\ UNCHANGED <<ring, framesSinceSweep, counters, active, sketches, m>>

(* NtpCapturePacketsTotal, geo.Resolve, and the section on wc.mu.          *)
Count(w) ==
  LET f == hf[w].frame IN
  /\ At(w, "count")
  /\ m' = [m EXCEPT !.packets[f.direction] = @ + 1]
  /\ \E g \in GeoOf[f.ip] :
       \/ /\ f.direction = "request"
          /\ wc' = [wc EXCEPT ![w] = CountRequest(@, f, g)]
          /\ counted' = CountRequest(counted, f, g)
          /\ Goto(w, "clock")
       \/ /\ f.direction = "response"
          /\ wc' = [wc EXCEPT ![w] = CountResponse(@, g)]
          /\ counted' = CountResponse(counted, g)
          /\ IF f.xid = Nil THEN Return(w) ELSE Goto(w, "pair")
  /\ UNCHANGED <<ring, framesSinceSweep, tables, sketches>>

(* now := c.clock(), before sh.mu is taken                                 *)
ReadClock(w) ==
  /\ At(w, "clock")
  /\ hf' = [hf EXCEPT ![w].pc = "active", ![w].now = clock]
  /\ UNCHANGED <<ring, framesSinceSweep, counters, tables, sketches, m>>

TouchActive(w) ==
  LET ip == hf[w].frame.ip IN
  /\ At(w, "active")
  /\ m' = IF active[ip] # Absent
          THEN [m EXCEPT !.interval = @ \union {hf[w].now - active[ip]}]
          ELSE m
  /\ active' = [active EXCEPT ![ip] = hf[w].now]
  /\ Goto(w, "hourly")
  /\ UNCHANGED <<ring, framesSinceSweep, counters, pending, sketches>>

AddToBucket(w) ==
  /\ At(w, "hourly")
  /\ hourly' = Added(hourly, hour, HourOf(wall), hf[w].frame.ip)
  /\ hour' = HourOf(wall)
  /\ IF hf[w].frame.xid = Nil THEN Return(w) ELSE Goto(w, "store")
  /\ UNCHANGED <<ring, framesSinceSweep, counters, tables, m>>

OverflowsLate(k) ==
  /\ pending[k] = Absent
  /\ Cardinality(PendingIn(ShardIndex[k[1]])) > PendingMax

(* !exists && len(sh.pending) >= PendingMax                                *)
Overflows(k) ==
  /\ pending[k] = Absent
  /\ Cardinality(PendingIn(ShardIndex[k[1]])) >= PendingMax

StorePending(w) ==
  LET k == <<hf[w].frame.ip, hf[w].frame.xid>> IN
  /\ At(w, "store")
  /\ \/ /\ Overflows(k)
        /\ m' = [m EXCEPT !.overflow = @ + 1]
        /\ UNCHANGED pending
     \/ /\ ~Overflows(k)
        /\ pending' = [pending EXCEPT ![k] = hf[w].ts]
        /\ UNCHANGED m
  /\ Return(w)
  /\ UNCHANGED <<ring, framesSinceSweep, counters, active, sketches>>

PairResponseUnguarded(w) ==
  LET k == <<hf[w].frame.ip, hf[w].frame.xid>> IN
  /\ At(w, "pair")
  /\ pending' = [pending EXCEPT ![k] = Absent]
  /\ m' = IF pending[k] # Absent
          THEN [m EXCEPT !.latency = @ \union {hf[w].ts - pending[k]}]
          ELSE m
  /\ Return(w)
  /\ UNCHANGED <<ring, framesSinceSweep, counters, active, sketches>>

PairResponse(w) ==
  LET k == <<hf[w].frame.ip, hf[w].frame.xid>>
      delta == hf[w].ts - pending[k]
  IN
  /\ At(w, "pair")
  /\ pending' = [pending EXCEPT ![k] = Absent]
  /\ m' = IF pending[k] # Absent /\ delta >= 0
          THEN [m EXCEPT !.latency = @ \union {delta}]
          ELSE m
  /\ Return(w)
  /\ UNCHANGED <<ring, framesSinceSweep, counters, active, sketches>>

HandleFrame(w) ==
  /\ \/ AddFrame(w) \/ CompareAndSwap(w) \/ SweepShard(w) \/ Count(w)
     \/ ReadClock(w) \/ TouchActive(w) \/ AddToBucket(w)
     \/ StorePending(w) \/ PairResponse(w)
  /\ UNCHANGED <<flusher, world>>
-----------------------------------------------------------------------------
DrainWorkerSkippingLast ==
  LET w == fl.worker IN
  /\ fl.pc = "drain"
  /\ fl' = [fl EXCEPT !.snap = AddCounters(@, wc[w]),
                      !.worker = IF w + 2 \in Worker THEN w + 1 ELSE 0,
                      !.pc = IF w + 2 \in Worker THEN "drain" ELSE "publish"]
  /\ wc' = [wc EXCEPT ![w] = newWorkerCounters]
  /\ UNCHANGED <<tables, sketches, asns, lastDrops, m>>

(* Flush. Whatever only Flush reads (snap, asnTotals, lastDrops) and       *)
(* what it adds to the metrics is goroutine-local. Dead locals are reset.  *)
DrainWorker ==
  LET w == fl.worker IN
  /\ fl.pc = "drain"
  /\ fl' = [fl EXCEPT !.snap = AddCounters(@, wc[w]),
                      !.worker = IF w + 1 \in Worker THEN w + 1 ELSE 0,
                      !.pc = IF w + 1 \in Worker THEN "drain" ELSE "publish"]
  /\ wc' = [wc EXCEPT ![w] = newWorkerCounters]
  /\ UNCHANGED <<tables, sketches, asns, lastDrops, m>>

DropsDeltaAsRestart(cur, last) == IF cur >= last THEN cur - last ELSE cur

(* if cur >= *lastDrops { ... Add(cur - *lastDrops) }                      *)
DropsDelta(cur, last) == IF cur >= last THEN cur - last ELSE 0

UnansweredSigned(snap, k) == snap.requests[k] - snap.responses[k]

UnansweredAnywhere(snap, k) ==
  LET responses == SumOver(snap.responses, Country) IN
  IF snap.requests[k] > responses THEN snap.requests[k] - responses ELSE 0

(* drops := n - responses[k]; if drops > 0 { ... }                         *)
Unanswered(snap, k) ==
  IF snap.requests[k] > snap.responses[k]
  THEN snap.requests[k] - snap.responses[k] ELSE 0

(* readDrops is nil while no capture manager is open.                      *)
Publish ==
  /\ fl.pc = "publish"
  /\ lastDrops' \in {tpDrops, lastDrops}
  /\ m' = [m EXCEPT
            !.kernelDrops = @ + DropsDelta(lastDrops', lastDrops),
            !.requests = [k \in Country |-> @[k] + fl.snap.requests[k]],
            !.drops    = [k \in Country |-> @[k] + Unanswered(fl.snap, k)]]
  /\ fl' = [fl EXCEPT !.pc = "breakdown"]
  /\ UNCHANGED <<wc, tables, sketches, asns>>

(* The section on asnTotalsMu: accumulate what has an ASN, then prune.     *)
Accumulated(totals, byAsn) ==
  [a \in ASN |-> totals[a] + SumOver(byAsn, KeysOf(a))]

PrunedLate(totals) ==
  IF Cardinality(Present(totals)) > ASNTotalsMax + 1
  THEN pruneToLargest(totals, ASNTotalsMax)
  ELSE {totals}

Pruned(totals) ==
  IF Cardinality(Present(totals)) > ASNTotalsMax
  THEN pruneToLargest(totals, ASNTotalsMax)
  ELSE {totals}

(* The section on asnTotalsMu, the folded and the other breakdowns, and    *)
(* the reading of the clock for the eviction that follows.                 *)
PublishBreakdowns ==
  LET snap == fl.snap IN
  /\ fl.pc = "breakdown"
  /\ asnTotals' \in Pruned(Accumulated(asnTotals, snap.asnRequests))
  /\ LET top == topNASNs(asnTotals', AsnTopN) IN
     asnMetric' = [l \in AsnLabel |-> asnMetric[l] +
                     SumOver(snap.asnRequests, {k \in AsnKey : foldASN(k, top) = l})]
  /\ m' = [m EXCEPT
            !.version = [v \in Version |-> @[v] + snap.versionRequests[v]],
            !.family  = [f \in Family |-> @[f] + snap.familyRequests[f]]]
  /\ fl' = [fl EXCEPT !.pc = "evict", !.snap = newWorkerCounters,
                      !.cutoff = clock - ActiveWindow]
  /\ UNCHANGED <<wc, tables, sketches, lastDrops>>

EvictShardCountingFirst ==
  LET s == fl.shard IN
  /\ fl.pc = "evict"
  /\ active' = EvictedActive(s, fl.cutoff)
  /\ fl' = [fl EXCEPT !.count = @ + Cardinality(ActiveIn(active, s)),
                      !.shard = IF s + 1 \in Shard THEN s + 1 ELSE 0,
                      !.pc = IF s + 1 \in Shard THEN "evict" ELSE "gauge"]
  /\ UNCHANGED <<wc, pending, sketches, asns, lastDrops, m>>

EvictShard ==
  LET s == fl.shard IN
  /\ fl.pc = "evict"
  /\ active' = EvictedActive(s, fl.cutoff)
  /\ fl' = [fl EXCEPT !.count = @ + Cardinality(ActiveIn(active', s)),
                      !.shard = IF s + 1 \in Shard THEN s + 1 ELSE 0,
                      !.pc = IF s + 1 \in Shard THEN "evict" ELSE "gauge"]
  /\ UNCHANGED <<wc, pending, sketches, asns, lastDrops, m>>

(* NtpClientsActive.Set; pendingCutoff := c.wall().Add(-PendingTTL)        *)
SetActive ==
  /\ fl.pc = "gauge"
  /\ m' = [m EXCEPT !.active = fl.count]
  /\ fl' = [fl EXCEPT !.pc = "expire", !.count = 0, !.cutoff = wall - PendingTTL]
  /\ UNCHANGED <<wc, tables, sketches, asns, lastDrops>>

ExpireShardSkippingLast ==
  LET s == fl.shard IN
  /\ fl.pc = "expire"
  /\ pending' = SweptPending(s, fl.cutoff)
  /\ fl' = [fl EXCEPT !.shard = IF s + 2 \in Shard THEN s + 1 ELSE 0,
                      !.pc = IF s + 2 \in Shard THEN "expire" ELSE "merge"]
  /\ UNCHANGED <<wc, active, sketches, asns, lastDrops, m>>

ExpireShard ==
  LET s == fl.shard IN
  /\ fl.pc = "expire"
  /\ pending' = SweptPending(s, fl.cutoff)
  /\ fl' = [fl EXCEPT !.shard = IF s + 1 \in Shard THEN s + 1 ELSE 0,
                      !.pc = IF s + 1 \in Shard THEN "expire" ELSE "merge"]
  /\ UNCHANGED <<wc, active, sketches, asns, lastDrops, m>>

(* currentBucketLocked, the clones, the merge; the next Flush can start.   *)
MergeHourly ==
  /\ fl.pc = "merge"
  /\ hourly' = Rolled(hourly, hour, HourOf(wall))
  /\ hour' = HourOf(wall)
  /\ m' = [m EXCEPT !.uniqueDaily = MergedKeys(hourly')]
  /\ fl' = NewFlush
  /\ UNCHANGED <<wc, tables, asns, lastDrops>>

Flush ==
  /\ UNCHANGED <<ring, hf, framesSinceSweep, counted, world>>
  /\ \/ DrainWorker \/ Publish \/ PublishBreakdowns
     \/ EvictShard \/ SetActive \/ ExpireShard \/ MergeHourly
-----------------------------------------------------------------------------
Environment ==
  /\ \/ \E w \in Worker, f \in Frames : Capture(w, f)
     \/ Tick \/ StepWall
     \/ (KernelDrop \/ SocketsChange) /\ UNCHANGED <<ring, clock, wall, env>>
  /\ UNCHANGED <<hf, framesSinceSweep, counters, tables, sketches, flusher, m>>

Next == Environment \/ (\E w \in Worker : HandleFrame(w)) \/ Flush

Spec == Init /\ [][Next]_vars

(* Goroutines are scheduled, and no mutex is held across a blocking call.  *)
Fairness == (\A w \in Worker : WF_vars(HandleFrame(w))) /\ WF_vars(Flush)

FairSpec == Spec /\ Fairness
=============================================================================
