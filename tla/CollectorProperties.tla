------------------------- MODULE CollectorProperties -------------------------
(***************************************************************************)
(* What the collector promises: invariants, action properties and liveness *)
(* of Collector.                                                           *)
(***************************************************************************)
EXTENDS Collector

RequestPCs == {"clock", "active", "hourly", "store"}
WorkerPCs  == {"idle", "cas", "sweep", "count", "pair"} \union RequestPCs
FlushPCs   == {"drain", "publish", "breakdown", "evict", "gauge", "expire", "merge"}

Metrics == [packets : [Direction -> Nat], requests : [Country -> Nat],
            drops : [Country -> Nat], version : [Version -> Nat],
            family : [Family -> Nat],
            kernelDrops : Nat, overflow : Nat, interval : SUBSET Int,
            latency : SUBSET Nat, active : Nat, uniqueDaily : SUBSET IP]

RingType == ring \in [Worker -> Seq([frame : Frames, ts : Nat])]

HandleType ==
  /\ hf \in [Worker -> [pc : WorkerPCs, frame : Frames \union {Absent},
                        ts : Nat, n : Nat, shard : Shard, now : Nat]]
  /\ \A w \in Worker :
       /\ hf[w].pc # "idle" => hf[w].frame \in Frames
       /\ hf[w].pc \in {"store", "pair"} => hf[w].frame.xid \in XID
       /\ hf[w].pc \in RequestPCs => hf[w].frame.direction = "request"
  /\ framesSinceSweep \in Nat

CountersType == wc \in [Worker -> Counters] /\ counted \in Counters

TablesType ==
  /\ pending \in [Key -> Nat \union {Absent}]
  /\ active \in [IP -> Nat \union {Absent}]

SketchesType == hourly \in [Hours -> SUBSET IP] /\ hour \in Hours \union {Unset}

FlusherType ==
  /\ fl \in [pc : FlushPCs, worker : Worker, snap : Counters, shard : Shard,
             cutoff : Int, count : Nat]
  /\ asnTotals \in [ASN -> Nat] /\ asnMetric \in [AsnLabel -> Nat]
  /\ lastDrops \in Nat

WorldType ==
  /\ clock \in Nat /\ wall \in Nat
  /\ env \in [captured : Nat, steps : Nat]
  /\ tpDrops \in Nat /\ unseen \in Nat /\ dropped \in Nat

(* Type invariant of the collector's state. A worker past AddFrame holds a *)
(* frame, one in the request branch a request, one at the pending table a  *)
(* frame with an xid.                                                      *)
TypeOK ==
  /\ RingType /\ HandleType /\ CountersType /\ TablesType /\ SketchesType
  /\ FlusherType /\ m \in Metrics /\ WorldType

(* aggregate.go:173-177. When framesSinceSweep has reached the threshold,  *)
(* some worker has yet to do its CAS and will win it: lost CAS races never *)
(* leave the counter past the threshold with nobody left to sweep.         *)
SweepNotLost ==
  framesSinceSweep >= PendingSweepEvery =>
    \E w \in Worker : hf[w].pc = "cas" /\ hf[w].n = framesSinceSweep

(* aggregate.go:224-233. However workers, sweeps and flushes interleave,   *)
(* no shard's pending table ever holds more than PendingMax entries.       *)
PendingBounded == \A s \in Shard : Cardinality(PendingIn(s)) <= PendingMax

(* What Flush has drained but not yet published.                           *)
InFlush(n, pcs) == IF fl.pc \in pcs THEN n ELSE 0

(* aggregate.go:200-210, 275-298, 313-343. Every request a worker counted  *)
(* is in exactly one place - the worker's map, Flush's snapshot, or the    *)
(* published counter - for each of its country, version and family labels: *)
(* none is lost or published twice between a drain and a publish.          *)
CountsConserved ==
  /\ \A k \in Country :
       counted.requests[k] =
         m.requests[k] + InFlush(fl.snap.requests[k], {"drain", "publish"})
           + SumOver([w \in Worker |-> wc[w].requests[k]], Worker)
  /\ \A v \in Version :
       counted.versionRequests[v] =
         m.version[v]
           + InFlush(fl.snap.versionRequests[v], {"drain", "publish", "breakdown"})
           + SumOver([w \in Worker |-> wc[w].versionRequests[v]], Worker)
  /\ \A f \in Family :
       counted.familyRequests[f] =
         m.family[f]
           + InFlush(fl.snap.familyRequests[f], {"drain", "publish", "breakdown"})
           + SumOver([w \in Worker |-> wc[w].familyRequests[f]], Worker)

(* metrics.go:23-100. The four breakdowns of the published requests (by    *)
(* country, folded ASN, version, family) add up to the same total, except  *)
(* while Flush is between publishing the first and the others. Folding,    *)
(* pruning and databases reloaded between frames lose no request.          *)
BreakdownsAgree ==
  fl.pc # "breakdown" =>
    /\ SumOver(m.requests, Country) = SumOver(asnMetric, AsnLabel)
    /\ SumOver(m.requests, Country) = SumOver(m.version, Version)
    /\ SumOver(m.requests, Country) = SumOver(m.family, Family)

(* aggregate.go:321-331. The cumulative totals that rank the ASNs count no *)
(* request twice across flushes, are exact while no ASN was ever pruned,   *)
(* and are at most ASNTotalsMax when Flush leaves them.                    *)
AsnTotalsSound ==
  LET seen == [n \in ASN |-> SumOver(counted.asnRequests, KeysOf(n))]
      held == [n \in ASN |->
                 SumOver([w \in Worker |-> SumOver(wc[w].asnRequests, KeysOf(n))], Worker)
                   + SumOver(fl.snap.asnRequests, KeysOf(n))]
  IN
  /\ Cardinality(Present(asnTotals)) <= ASNTotalsMax
  /\ \A n \in ASN : asnTotals[n] <= seen[n] - held[n]
  /\ Cardinality(Present(seen)) <= ASNTotalsMax =>
       \A n \in ASN : asnTotals[n] = seen[n] - held[n]

(* README.md:337-339 "NTP_ASN_TOP_N bounds                                 *)
(* ntp_client_requests_by_asn_total cardinality - only the top-N ASNs ...  *)
(* get their own label value": no more than N ASNs ever have a series.     *)
AsnLabelsBounded ==
  Cardinality({n \in ASN : \E org \in Org : asnMetric[<<n, org>>] > 0}) <= AsnTopN

(* aggregate.go:313-319. The responses Flush has set against requests.     *)
ResponsesUsed(k) ==
  counted.responses[k] - SumOver([w \in Worker |-> wc[w].responses[k]], Worker)
    - InFlush(fl.snap.responses[k], {"drain", "publish"})

(* aggregate.go:313-319. However requests and responses fall into flush    *)
(* windows, the drops published for a label are at least the requests that *)
(* no published response answers, and at most the requests.                *)
DropsCoverUnanswered ==
  \A k \in Country :
    /\ m.drops[k] >= m.requests[k] - ResponsesUsed(k)
    /\ m.drops[k] <= m.requests[k]

(* aggregate.go:300-311. Sockets come and go and their tallies restart,    *)
(* and the exported drops never exceed the frames the kernel dropped.      *)
KernelDropsNotOvercounted == m.kernelDrops <= dropped

(* aggregate.go:304-316. No counter is ever given a negative number to     *)
(* add, which the Prometheus client answers with a panic.                  *)
CountersOnlyGrow ==
  [][/\ m'.kernelDrops >= m.kernelDrops /\ m'.overflow >= m.overflow
     /\ \A k \in Country : m'.requests[k] >= m.requests[k] /\ m'.drops[k] >= m.drops[k]
     /\ \A l \in AsnLabel : asnMetric'[l] >= asnMetric[l]]_<<m, asnMetric>>

(* aggregate.go:346-358. The number about to be set as ntp_clients_active  *)
(* counts only clients that are in the table: eviction and counting happen *)
(* shard by shard while workers keep adding.                               *)
ActiveGaugeSound ==
  fl.pc = "gauge" => fl.count <= Cardinality({ip \in IP : active[ip] # Absent})

(* Every request that was counted is eventually published.                 *)
RequestsEventuallyPublished ==
  \A k \in Country, n \in 1 .. MaxFrames :
    counted.requests[k] >= n ~> m.requests[k] >= n

(* aggregate.go:179-190, 346-372. What has expired leaves its table: a     *)
(* client silent for longer than ActiveWindow, unless it sends again, and  *)
(* a request that nobody answers, or whose answer was looked up before it  *)
(* was stored, once its TTL is over.                                       *)
ExpiredEntriesLeave ==
  /\ \A ip \in IP :
       (active[ip] # Absent /\ Expired(active[ip], clock - ActiveWindow))
         ~> (active[ip] = Absent \/ ~Expired(active[ip], clock - ActiveWindow))
  /\ \A k \in Key :
       (pending[k] # Absent /\ Expired(pending[k], wall - PendingTTL))
         ~> (pending[k] = Absent \/ ~Expired(pending[k], wall - PendingTTL))
=============================================================================
