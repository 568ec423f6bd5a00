-------------------------------- MODULE GeoIP --------------------------------
(***************************************************************************)
(* The resolver of exporter/internal/geoip/geoip.go: capture workers call  *)
(* Resolve while geoipupdate replaces the two databases.                   *)
(*                                                                         *)
(* A database file is a version number, which is also its mtime; what a    *)
(* lookup finds is the version it was looked up in. r.mu is held over      *)
(* several steps by the goroutine that reopens (holder) and over two by    *)
(* those that look up; the LRU cache has a lock of its own.                *)
(*                                                                         *)
(* An operator that nothing uses is a faulty variant of the definition     *)
(* after it: the mutation of the code that a property has to notice.       *)
(***************************************************************************)
EXTENDS Integers, FiniteSets

CONSTANTS
  Worker, IP,
  ReopenCheckInterval, CacheSize,
  None, Absent,                       (* no reader, mtime, holder; no entry *)
  MaxClock, MaxVersion, MaxRemovals   (* bounds                             *)

DB == {"country", "asn"}
Version == 1 .. MaxVersion

ASSUME GeoAssumption ==
  /\ ReopenCheckInterval \in Nat \ {0} /\ CacheSize \in Nat \ {0}
  /\ {MaxClock, MaxRemovals} \subseteq Nat /\ MaxVersion \in Nat \ {0}
  /\ IsFiniteSet(Worker) /\ Worker # {} /\ IsFiniteSet(IP)
  /\ None \notin Int \union Worker /\ Absent \notin [DB -> Version \union {None}]

VARIABLES
  reader, mtime,     (* [DB -> Version or None]                             *)
  lastReopenCheck,   (* or None                                             *)
  cache,             (* [IP -> result or Absent]                            *)
  loaded,            (* [DB -> BOOLEAN]: ntp_geoip_database_loaded          *)
  holder,            (* who holds r.mu for writing, or None                 *)
  wk,                (* [Worker -> record]: program counter and locals      *)
  file,              (* [DB -> Version or None]: the file on disk           *)
  clock, removals

vars == <<reader, mtime, lastReopenCheck, cache, loaded, holder, wk, file, clock, removals>>

dbs   == <<reader, mtime, loaded>>
world == <<file, clock, removals>>

NoResult == [d \in DB |-> None]
Idle == [pc |-> "idle", ip |-> Absent, now |-> 0, db |-> "country", stat |-> None,
         res |-> NoResult]

(* New; the process starts with or without files.                          *)
Init ==
  /\ reader = [d \in DB |-> None] /\ mtime = [d \in DB |-> None]
  /\ lastReopenCheck = None
  /\ cache = [ip \in IP |-> Absent]
  /\ loaded = [d \in DB |-> FALSE]
  /\ holder = None
  /\ wk = [w \in Worker |-> Idle]
  /\ file \in [DB -> {None, 1}]
  /\ clock = 0 /\ removals = 0
-----------------------------------------------------------------------------
At(w, pc) == wk[w].pc = pc
Goto(w, pc) == wk' = [wk EXCEPT ![w].pc = pc]

(* now := r.clock(), before r.mu is taken                                  *)
Resolve(w, ip) ==
  /\ At(w, "idle")
  /\ wk' = [wk EXCEPT ![w] = [Idle EXCEPT !.pc = "lock", !.ip = ip, !.now = clock]]
  /\ UNCHANGED <<dbs, lastReopenCheck, cache, holder, world>>

DueOnChange(w) == lastReopenCheck # None => wk[w].now # lastReopenCheck

Due(w) ==
  lastReopenCheck # None => wk[w].now - lastReopenCheck >= ReopenCheckInterval

NobodyReopens == holder = None

(* r.mu is free for a writer: nobody reopens and nobody looks up.          *)
MuFree == holder = None /\ \A v \in Worker : ~At(v, "lookup")

Lock(w) ==
  /\ At(w, "lock") /\ MuFree
  /\ IF Due(w) THEN holder' = w /\ Goto(w, "stat") ELSE UNCHANGED holder /\ Goto(w, "get")
  /\ UNCHANGED <<dbs, lastReopenCheck, cache, world>>

(* The end of reopenOne; of Resolve's critical section after the second.   *)
NextDB(w) ==
  \/ /\ wk[w].db = "country"
     /\ wk' = [wk EXCEPT ![w].pc = "stat", ![w].db = "asn", ![w].stat = None]
     /\ UNCHANGED <<lastReopenCheck, holder>>
  \/ /\ wk[w].db = "asn"
     /\ wk' = [wk EXCEPT ![w].pc = "get", ![w].db = "country", ![w].stat = None]
     /\ lastReopenCheck' = wk[w].now
     /\ holder' = None

ChangedWhenUnset(d) == mtime[d] = None

(* !mtimeSet || !newMtime.Equal(mtime)                                     *)
Changed(d) == file[d] # mtime[d]

(* r.loadedGauge(dbLabel, reader != nil) when nothing is reopened          *)
IsLoaded(d) == reader[d] # None

(* os.Stat: no file, the known mtime, or a new one. Without a file the     *)
(* open reader is kept.                                                    *)
Stat(w) ==
  LET d == wk[w].db IN
  /\ At(w, "stat")
  /\ \/ /\ file[d] = None
        /\ mtime' = [mtime EXCEPT ![d] = None]
        /\ loaded' = [loaded EXCEPT ![d] = IsLoaded(d)]
        /\ NextDB(w)
     \/ /\ file[d] # None /\ ~Changed(d)
        /\ loaded' = [loaded EXCEPT ![d] = IsLoaded(d)]
        /\ NextDB(w)
        /\ UNCHANGED mtime
     \/ /\ file[d] # None /\ Changed(d)
        /\ wk' = [wk EXCEPT ![w].pc = "open", ![w].stat = file[d]]
        /\ UNCHANGED <<mtime, loaded, lastReopenCheck, holder>>
  /\ UNCHANGED <<reader, cache, world>>

Unpurged == cache

(* r.cache.Purge()                                                         *)
Purged == [ip \in IP |-> Absent]

(* maxminddb.Open of whatever the file is now, which may fail; the old     *)
(* reader is closed and the cache purged.                                  *)
Open(w) ==
  LET d == wk[w].db IN
  /\ At(w, "open")
  /\ \E r \in {file[d], None} :
       /\ reader' = [reader EXCEPT ![d] = r]
       /\ loaded' = [loaded EXCEPT ![d] = r # None]
  /\ mtime' = [mtime EXCEPT ![d] = wk[w].stat]
  /\ cache' = Purged
  /\ NextDB(w)
  /\ UNCHANGED world

(* cache.Get: Resolve returns on a hit.                                    *)
Get(w) ==
  /\ At(w, "get")
  /\ IF cache[wk[w].ip] # Absent THEN wk' = [wk EXCEPT ![w] = Idle] ELSE Goto(w, "rlock")
  /\ UNCHANGED <<dbs, lastReopenCheck, cache, holder, world>>

(* r.mu.RLock() and resolveUncached, first half and second half.           *)
LookupCountry(w) ==
  /\ At(w, "rlock") /\ holder = None
  /\ wk' = [wk EXCEPT ![w].pc = "lookup", ![w].res["country"] = reader["country"]]
  /\ UNCHANGED <<dbs, lastReopenCheck, cache, holder, world>>

LookupASN(w) ==
  /\ At(w, "lookup")
  /\ wk' = [wk EXCEPT ![w].pc = "add", ![w].res["asn"] = reader["asn"]]
  /\ UNCHANGED <<dbs, lastReopenCheck, cache, holder, world>>

(* cache.Add; when the cache is full an entry is evicted.                  *)
Add(w) ==
  LET ip == wk[w].ip
      others == {i \in IP \ {ip} : cache[i] # Absent}
  IN
  /\ At(w, "add")
  /\ \E kept \in SUBSET others :
       /\ IF Cardinality(others) < CacheSize
          THEN kept = others ELSE Cardinality(kept) = CacheSize - 1
       /\ cache' = [i \in IP |-> CASE i = ip -> wk[w].res
                                   [] i \in kept -> cache[i]
                                   [] OTHER -> Absent]
  /\ wk' = [wk EXCEPT ![w] = Idle]
  /\ UNCHANGED <<dbs, lastReopenCheck, holder, world>>

Step(w) ==
  \/ \E ip \in IP : Resolve(w, ip)
  \/ Lock(w) \/ Stat(w) \/ Open(w) \/ Get(w)
  \/ LookupCountry(w) \/ LookupASN(w) \/ Add(w)
-----------------------------------------------------------------------------
(* geoipupdate writes a file, or it is removed.                            *)
NewFile(d) ==
  /\ \E v \in Version : v > (IF file[d] = None THEN 0 ELSE file[d])
                        /\ file' = [file EXCEPT ![d] = v]
  /\ UNCHANGED <<dbs, lastReopenCheck, cache, holder, wk, clock, removals>>

RemoveFile(d) ==
  /\ file[d] # None /\ removals < MaxRemovals
  /\ file' = [file EXCEPT ![d] = None] /\ removals' = removals + 1
  /\ UNCHANGED <<dbs, lastReopenCheck, cache, holder, wk, clock>>

Tick ==
  /\ clock < MaxClock /\ clock' = clock + 1
  /\ UNCHANGED <<dbs, lastReopenCheck, cache, holder, wk, file, removals>>

Next ==
  \/ \E w \in Worker : Step(w)
  \/ \E d \in DB : NewFile(d) \/ RemoveFile(d)
  \/ Tick

Spec == Init /\ [][Next]_vars

(* Goroutines are scheduled, packets keep arriving, time passes. A worker  *)
(* that waits for r.mu gets it: sync.RWMutex does not starve a writer.     *)
Fairness ==
  /\ WF_vars(Tick)
  /\ \A w \in Worker : WF_vars(Step(w)) /\ SF_vars(Lock(w))

FairSpec == Spec /\ Fairness
-----------------------------------------------------------------------------
PCs == {"idle", "lock", "stat", "open", "get", "rlock", "lookup", "add"}
Maybe(S) == S \union {None}

(* geoip.go:107-111, 184-186. No lookup is under way in a reader that is   *)
(* closed under it, and the two halves of a result are looked up in        *)
(* readers that were open together.                                        *)
LookupUndisturbed ==
  \A w \in Worker : At(w, "lookup") => /\ wk[w].res["country"] = reader["country"]
                                       /\ \A v \in Worker : ~At(v, "open")

(* The results of an earlier generation, in the cache or on their way.     *)
StaleCached   == {ip \in IP : cache[ip] # Absent /\ cache[ip] # reader}
StaleOnTheWay == {w \in Worker : At(w, "add") /\ wk[w].res # reader}

(* geoip.go:99-113, 180-189. A goroutine between RUnlock and cache.Add can *)
(* put the answer of a closed database back after the purge; it does so    *)
(* once: there are never as many such answers as there are workers.        *)
StaleBounded ==
  Cardinality(StaleCached) + Cardinality(StaleOnTheWay) < Cardinality(Worker)

(* geoip.go:170-178. Workers that read the clock before they wait for r.mu *)
(* do not repeat a check that another made meanwhile, and do not move      *)
(* lastReopenCheck back: checks are at least the interval apart.           *)
ChecksSpaced ==
  [][lastReopenCheck # None =>
       lastReopenCheck' - lastReopenCheck >= ReopenCheckInterval]_lastReopenCheck

(* geoip.go:81-97, 170-178. A file written while packets arrive is         *)
(* noticed, whatever was known or opened before, unless it changes again:  *)
(* a check that was under way may miss it, but another one is due an       *)
(* interval later. (The clock is bounded: a file written within the last   *)
(* interval has no check to wait for.)                                     *)
NewFileNoticed ==
  \A d \in DB, v \in Version :
    file[d] = v /\ clock + ReopenCheckInterval <= MaxClock
      ~> mtime[d] = v \/ file[d] # v

(* geoip.go:81-119, metrics.go:130 "1 if the GeoLite2 mmdb is open and     *)
(* readable": outside a check the gauge tells whether there is an open     *)
(* reader, whatever happened to the file since.                            *)
GaugeTellsReader ==
  holder = None /\ lastReopenCheck # None =>
    \A d \in DB : loaded[d] <=> reader[d] # None

(* README.md:303-304 says of ntp_geoip_database_loaded that it is "0 if    *)
(* it's missing or failed to open": a database whose file the last check   *)
(* did not find has the gauge at 0.                                        *)
GaugeZeroWhenMissing ==
  holder = None /\ lastReopenCheck # None =>
    \A d \in DB : mtime[d] = None => ~loaded[d]
=============================================================================
