----------------------------- MODULE GeoIPProofs -----------------------------
(***************************************************************************)
(* The safety of the resolver under r.mu, for any number of workers,       *)
(* addresses, database versions and any check interval.                    *)
(***************************************************************************)
EXTENDS GeoIP, FiniteSetTheorems, TLAPS

Reopening(w) == wk[w].pc \in {"stat", "open"}

Tells(d) == loaded[d] <=> reader[d] # None

Locals == [pc : PCs, ip : IP \union {Absent}, now : Nat, db : DB,
           stat : Maybe(Version), res : [DB -> Maybe(Version)]]

Shape ==
  /\ wk \in [Worker -> Locals]
  /\ reader \in [DB -> Maybe(Version)] /\ file \in [DB -> Maybe(Version)]
  /\ DOMAIN loaded = DB
  /\ clock \in Nat /\ lastReopenCheck \in Maybe(Nat)

(* A lookup excludes the goroutine that reopens, which alone moves         *)
(* lastReopenCheck, by the interval that Due saw.                          *)
Orderly(w) ==
  /\ Reopening(w) <=> holder = w
  /\ At(w, "lookup") => holder = None /\ wk[w].res["country"] = reader["country"]
  /\ IF Reopening(w) THEN Due(w) ELSE wk[w].db = "country"
  /\ Reopening(w) /\ wk[w].db = "asn" => Tells("country")

(* The gauge of a database is right from its first check on.               *)
Inv ==
  /\ Shape
  /\ \A w \in Worker : Orderly(w)
  /\ lastReopenCheck # None => \A d \in DB : Tells(d)

(* A worker that a step of another leaves alone.                           *)
LEMMA OthersOrderly ==
  ASSUME NEW v \in Worker, Orderly(v), wk'[v] = wk[v],
         UNCHANGED <<reader, loaded, lastReopenCheck, holder>>
  PROVE  Orderly(v)'
  BY Zenon DEF Orderly, Reopening, At, Due, Tells

(* A step outside the sections on r.mu.                                    *)
LEMMA StepOutside ==
  ASSUME Inv, NEW w \in Worker, NEW rec \in Locals,
         wk' = [wk EXCEPT ![w] = rec],
         UNCHANGED <<reader, loaded, lastReopenCheck, holder, file, clock>>,
         ~Reopening(w), rec.pc \notin {"stat", "open", "lookup"}, rec.db = "country"
  PROVE  Inv'
  <1>1. wk' \in [Worker -> Locals] /\ wk'[w] = rec /\ \A v \in Worker \ {w} : wk'[v] = wk[v]
    BY DEF Inv, Shape
  <1>2. Shape'
    BY <1>1 DEF Inv, Shape, Locals
  <1>3. Orderly(w)'
    <2>1. holder # w
      BY DEF Inv, Orderly
    <2>. QED
      BY <1>1, <2>1 DEF Orderly, Reopening, At
  <1>4. \A v \in Worker : Orderly(v)'
    <2>. SUFFICES ASSUME NEW v \in Worker, v # w PROVE Orderly(v)'
      BY <1>3
    <2>1. Orderly(v) /\ wk'[v] = wk[v]
      BY <1>1 DEF Inv
    <2>. QED
      BY <2>1, OthersOrderly
  <1>5. (lastReopenCheck # None => \A e \in DB : Tells(e))'
    BY Zenon DEF Inv, Tells
  <1>. QED
    BY <1>2, <1>4, <1>5 DEF Inv

LEMMA GotoOutside ==
  ASSUME Inv, NEW w \in Worker, NEW pc \in {"get", "rlock"}, Goto(w, pc),
         UNCHANGED <<reader, loaded, lastReopenCheck, holder, file, clock>>, ~Reopening(w)
  PROVE  Inv'
  <1>. DEFINE rec == [wk[w] EXCEPT !.pc = pc]
  <1>1. wk[w] \in Locals /\ wk[w].db = "country"
    BY DEF Inv, Shape, Orderly
  <1>2. rec \in Locals /\ rec.pc = pc /\ rec.db = "country"
    BY <1>1 DEF Locals, PCs
  <1>3. wk' = [wk EXCEPT ![w] = rec]
    BY DEF Goto
  <1>. HIDE DEF rec
  <1>. QED
    BY <1>2, <1>3, StepOutside, Zenon

LEMMA IdleLocals == Idle \in Locals /\ Idle.pc = "idle" /\ Idle.db = "country"
  <1>1. NoResult \in [DB -> Maybe(Version)]
    BY DEF NoResult, Maybe
  <1>. QED
    BY <1>1 DEF Idle, Locals, PCs, Maybe, DB

LEMMA ResolveStep ==
  ASSUME Inv, NEW w \in Worker, NEW ip \in IP, Resolve(w, ip)
  PROVE  Inv'
  <1>. DEFINE rec == [Idle EXCEPT !.pc = "lock", !.ip = ip, !.now = clock]
  <1>1. rec \in Locals /\ rec.pc = "lock" /\ rec.db = "country"
    BY IdleLocals, Zenon DEF Locals, PCs, Inv, Shape
  <1>2. wk' = [wk EXCEPT ![w] = rec] /\ ~Reopening(w)
    BY DEF Resolve, At, Reopening
  <1>3. UNCHANGED <<reader, loaded, lastReopenCheck, holder, file, clock>>
    BY DEF Resolve, dbs, world
  <1>. HIDE DEF rec
  <1>. QED
    BY <1>1, <1>2, <1>3, StepOutside, Zenon

LEMMA GetStep ==
  ASSUME Inv, NEW w \in Worker, Get(w)
  PROVE  Inv'
  <1>1. UNCHANGED <<reader, loaded, lastReopenCheck, holder, file, clock>> /\ ~Reopening(w)
    BY DEF Get, dbs, world, At, Reopening
  <1>2. CASE wk' = [wk EXCEPT ![w] = Idle]
    BY <1>1, <1>2, IdleLocals, StepOutside, Zenon
  <1>3. CASE Goto(w, "rlock")
    BY <1>1, <1>3, GotoOutside
  <1>. QED
    BY <1>2, <1>3 DEF Get

LEMMA AddStep ==
  ASSUME Inv, NEW w \in Worker, Add(w)
  PROVE  Inv'
  <1>1. UNCHANGED <<reader, loaded, lastReopenCheck, holder, file, clock>> /\ ~Reopening(w)
    BY DEF Add, dbs, world, At, Reopening
  <1>2. wk' = [wk EXCEPT ![w] = Idle]
    BY DEF Add
  <1>. QED
    BY <1>1, <1>2, IdleLocals, StepOutside, Zenon

LEMMA LookupASNStep ==
  ASSUME Inv, NEW w \in Worker, LookupASN(w)
  PROVE  Inv'
  <1>. DEFINE rec == [wk[w] EXCEPT !.pc = "add", !.res["asn"] = reader["asn"]]
  <1>1. UNCHANGED <<reader, loaded, lastReopenCheck, holder, file, clock>> /\ ~Reopening(w)
    BY DEF LookupASN, dbs, world, At, Reopening
  <1>2. wk[w] \in Locals /\ wk[w].db = "country" /\ reader["asn"] \in Maybe(Version)
    BY <1>1 DEF Inv, Shape, Orderly, DB
  <1>3. rec \in Locals /\ rec.pc = "add" /\ rec.db = "country"
    BY <1>2, Zenon DEF Locals, PCs
  <1>4. wk' = [wk EXCEPT ![w] = rec]
    BY Zenon DEF LookupASN
  <1>. HIDE DEF rec
  <1>. QED
    BY <1>1, <1>3, <1>4, StepOutside, Zenon

(* The lookup begins: nobody holds r.mu for writing.                       *)
LEMMA LookupCountryStep ==
  ASSUME Inv, NEW w \in Worker, LookupCountry(w)
  PROVE  Inv'
  <1>. DEFINE rec == [wk[w] EXCEPT !.pc = "lookup", !.res["country"] = reader["country"]]
  <1>1. /\ UNCHANGED <<reader, loaded, lastReopenCheck, holder, file, clock>>
        /\ ~Reopening(w) /\ holder = None
    BY DEF LookupCountry, dbs, world, At, Reopening
  <1>2. wk[w] \in Locals /\ wk[w].db = "country" /\ reader["country"] \in Maybe(Version)
    BY <1>1 DEF Inv, Shape, Orderly, DB
  <1>3. /\ rec \in Locals /\ rec.pc = "lookup" /\ rec.db = "country"
        /\ rec.res["country"] = reader["country"]
    BY <1>2, Zenon DEF Locals, PCs, DB
  <1>4. wk' = [wk EXCEPT ![w] = rec]
    BY Zenon DEF LookupCountry
  <1>. HIDE DEF rec
  <1>5. wk' \in [Worker -> Locals] /\ wk'[w] = rec /\ \A v \in Worker \ {w} : wk'[v] = wk[v]
    BY <1>3, <1>4 DEF Inv, Shape
  <1>6. Shape'
    BY <1>1, <1>5 DEF Inv, Shape, Locals
  <1>7. Orderly(w)'
    <2>1. holder # w
      BY <1>1 DEF Inv, Orderly
    <2>. QED
      BY <1>1, <1>3, <1>5, <2>1 DEF Orderly, Reopening, At
  <1>8. ASSUME NEW v \in Worker PROVE Orderly(v)'
    BY <1>1, <1>5, <1>7, OthersOrderly DEF Inv
  <1>9. (lastReopenCheck # None => \A e \in DB : Tells(e))'
    BY <1>1, Zenon DEF Inv, Tells
  <1>. QED
    BY <1>6, <1>8, <1>9 DEF Inv

(* While a goroutine reopens nobody else looks up or reopens.              *)
LEMMA OthersWhileReopening ==
  ASSUME Inv, NEW w \in Worker, Reopening(w), holder' \in {w, None},
         NEW v \in Worker, v # w, wk'[v] = wk[v]
  PROVE  Orderly(v)'
  <1>1. holder = w /\ None \notin Worker
    BY GeoAssumption DEF GeoAssumption, Inv, Orderly
  <1>2. ~Reopening(v) /\ ~At(v, "lookup") /\ wk[v].db = "country"
    BY <1>1 DEF Inv, Orderly
  <1>. QED
    BY <1>1, <1>2, Zenon DEF Orderly, Reopening, At

LEMMA LockStep ==
  ASSUME Inv, NEW w \in Worker, Lock(w)
  PROVE  Inv'
  <1>1. /\ UNCHANGED <<reader, loaded, lastReopenCheck, file, clock>>
        /\ ~Reopening(w) /\ MuFree
    BY DEF Lock, dbs, world, At, Reopening
  <1>2. CASE UNCHANGED holder /\ Goto(w, "get")
    BY <1>1, <1>2, GotoOutside
  <1>3. CASE Due(w) /\ holder' = w /\ Goto(w, "stat")
    <2>1. wk[w] \in Locals /\ wk[w].db = "country" /\ None \notin Worker
      BY <1>1, GeoAssumption DEF GeoAssumption, Inv, Shape, Orderly
    <2>2. /\ wk' \in [Worker -> Locals] /\ \A v \in Worker \ {w} : wk'[v] = wk[v]
          /\ wk'[w].pc = "stat" /\ wk'[w].db = wk[w].db /\ wk'[w].now = wk[w].now
      BY <1>3, <2>1, Zenon DEF Goto, Inv, Shape, Locals, PCs
    <2>3. Shape'
      BY <1>1, <2>2 DEF Inv, Shape, Locals
    <2>4. Orderly(w)'
      BY <1>1, <1>3, <2>1, <2>2 DEF Orderly, Reopening, At, Due
    <2>5. ASSUME NEW v \in Worker, v # w PROVE Orderly(v)'
      <3>1. ~Reopening(v) /\ ~At(v, "lookup") /\ wk[v].db = "country"
        BY <1>1, <2>1 DEF MuFree, Inv, Orderly
      <3>. QED
        BY <1>3, <2>2, <2>5, <3>1 DEF Orderly, Reopening, At
    <2>6. (lastReopenCheck # None => \A e \in DB : Tells(e))'
      BY <1>1, Zenon DEF Inv, Tells
    <2>. QED
      BY <2>3, <2>4, <2>5, <2>6 DEF Inv
  <1>. QED
    BY <1>2, <1>3 DEF Lock

(* The end of reopenOne for the database d, whose gauge is now right.      *)
LEMMA NextDBStep ==
  ASSUME Inv, NEW w \in Worker, Reopening(w), NextDB(w), UNCHANGED <<file, clock>>,
         reader' \in [DB -> Maybe(Version)], DOMAIN loaded' = DB,
         NEW d \in DB, d = wk[w].db, Tells(d)',
         \A e \in DB \ {d} : reader'[e] = reader[e] /\ loaded'[e] = loaded[e]
  PROVE  Inv'
  <1>1. /\ wk[w] \in Locals /\ wk \in [Worker -> Locals] /\ Due(w) /\ holder = w
        /\ None \notin Worker /\ None \in Maybe(Version)
    BY GeoAssumption DEF GeoAssumption, Inv, Shape, Orderly, Maybe
  <1>2. CASE wk[w].db = "country"
    <2>1. /\ wk' = [wk EXCEPT ![w].pc = "stat", ![w].db = "asn", ![w].stat = None]
          /\ UNCHANGED <<lastReopenCheck, holder>>
      BY <1>2 DEF NextDB
    <2>2. /\ wk' \in [Worker -> Locals] /\ \A v \in Worker \ {w} : wk'[v] = wk[v]
          /\ wk'[w].pc = "stat" /\ wk'[w].now = wk[w].now
      BY <1>1, <2>1, Zenon DEF Locals, PCs, DB
    <2>3. Shape'
      BY <2>1, <2>2 DEF Inv, Shape, Locals
    <2>4. Orderly(w)'
      <3>1. Tells("country")'
        BY <1>2, Zenon DEF Tells
      <3>2. Due(w)'
        BY <1>1, <2>1, <2>2, Zenon DEF Due
      <3>. QED
        BY <1>1, <2>1, <2>2, <3>1, <3>2, Zenon DEF Orderly, Reopening, At
    <2>5. ASSUME NEW v \in Worker, v # w PROVE Orderly(v)'
      BY <1>1, <2>1, <2>2, <2>5, OthersWhileReopening
    <2>6. (lastReopenCheck # None => \A e \in DB : Tells(e))'
      BY <1>2, <2>1, Zenon DEF Inv, Tells
    <2>. QED
      BY <2>3, <2>4, <2>5, <2>6 DEF Inv
  <1>3. CASE wk[w].db = "asn"
    <2>1. /\ wk' = [wk EXCEPT ![w].pc = "get", ![w].db = "country", ![w].stat = None]
          /\ lastReopenCheck' = wk[w].now /\ holder' = None
      BY <1>3 DEF NextDB
    <2>2. /\ wk' \in [Worker -> Locals] /\ \A v \in Worker \ {w} : wk'[v] = wk[v]
          /\ wk'[w].pc = "get" /\ wk'[w].db = "country"
      BY <1>1, <2>1, Zenon DEF Locals, PCs, DB
    <2>3. Shape'
      BY <1>1, <2>1, <2>2 DEF Inv, Shape, Locals, Maybe
    <2>4. Orderly(w)'
      BY <1>1, <2>1, <2>2 DEF Orderly, Reopening, At
    <2>5. ASSUME NEW v \in Worker, v # w PROVE Orderly(v)'
      BY <1>1, <2>1, <2>2, <2>5, OthersWhileReopening
    <2>6. (lastReopenCheck # None => \A e \in DB : Tells(e))'
      <3>1. Tells("country")
        BY <1>3 DEF Inv, Orderly
      <3>2. Tells("country")' /\ Tells("asn")'
        BY <1>3, <3>1, Zenon DEF Tells, DB
      <3>. QED
        BY <3>2 DEF DB
    <2>. QED
      BY <2>3, <2>4, <2>5, <2>6 DEF Inv
  <1>. QED
    BY <1>1, <1>2, <1>3 DEF Locals, DB

LEMMA StatStep ==
  ASSUME Inv, NEW w \in Worker, Stat(w)
  PROVE  Inv'
  <1>0. PICK d \in DB : d = wk[w].db
    BY DEF Inv, Shape, Locals
  <1>1. /\ Reopening(w) /\ UNCHANGED <<reader, file, clock>>
        /\ reader \in [DB -> Maybe(Version)] /\ DOMAIN loaded = DB
    BY DEF Stat, world, At, Reopening, Inv, Shape, Locals
  <1>2. CASE loaded' = [loaded EXCEPT ![d] = IsLoaded(d)] /\ NextDB(w)
    <2>1. DOMAIN loaded' = DB /\ loaded'[d] = IsLoaded(d)
      BY <1>1, <1>2
    <2>2. Tells(d)'
      BY <1>1, <2>1, Zenon DEF Tells, IsLoaded
    <2>3. \A e \in DB \ {d} : reader'[e] = reader[e] /\ loaded'[e] = loaded[e]
      BY <1>1, <1>2
    <2>. QED
      BY <1>0, <1>1, <1>2, <2>1, <2>2, <2>3, NextDBStep, Zenon
  <1>3. CASE /\ file[d] # None /\ UNCHANGED <<loaded, lastReopenCheck, holder>>
             /\ wk' = [wk EXCEPT ![w].pc = "open", ![w].stat = file[d]]
    <2>1. wk \in [Worker -> Locals] /\ file[d] \in Maybe(Version) /\ Orderly(w)
      BY <1>1 DEF Inv, Shape
    <2>2. /\ wk' \in [Worker -> Locals] /\ \A v \in Worker \ {w} : wk'[v] = wk[v]
          /\ wk'[w].pc = "open" /\ wk'[w].db = wk[w].db /\ wk'[w].now = wk[w].now
      <3>. DEFINE rec == [wk[w] EXCEPT !.pc = "open", !.stat = file[d]]
      <3>1. wk' = [wk EXCEPT ![w] = rec]
        BY <1>3, Zenon
      <3>2. rec \in Locals
        BY <2>1, Zenon DEF Locals, PCs
      <3>3. rec.pc = "open" /\ rec.db = wk[w].db /\ rec.now = wk[w].now
        BY <2>1, Zenon DEF Locals
      <3>. HIDE DEF rec
      <3>. QED
        BY <2>1, <3>1, <3>2, <3>3
    <2>3. Shape'
      BY <1>1, <1>3, <2>2 DEF Inv, Shape, Locals
    <2>4. Orderly(w)'
      <3>1. (Tells("country") => Tells("country")') /\ (Due(w) => Due(w)')
        BY <1>1, <1>3, <2>2, Zenon DEF Tells, Due
      <3>. QED
        BY <1>1, <1>3, <2>1, <2>2, <3>1, Zenon DEF Orderly, Reopening, At
    <2>5. ASSUME NEW v \in Worker, v # w PROVE Orderly(v)'
      BY <1>1, <1>3, <2>2, <2>5, OthersOrderly, Zenon DEF Inv
    <2>6. (lastReopenCheck # None => \A e \in DB : Tells(e))'
      BY <1>1, <1>3, Zenon DEF Inv, Tells
    <2>. QED
      BY <2>3, <2>4, <2>5, <2>6 DEF Inv
  <1>. QED
    BY <1>0, <1>2, <1>3, Zenon DEF Stat

LEMMA OpenStep ==
  ASSUME Inv, NEW w \in Worker, Open(w)
  PROVE  Inv'
  <1>0. PICK d \in DB : d = wk[w].db
    BY DEF Inv, Shape, Locals
  <1>1. /\ Reopening(w) /\ UNCHANGED <<file, clock>> /\ NextDB(w)
        /\ reader \in [DB -> Maybe(Version)] /\ DOMAIN loaded = DB
        /\ file[d] \in Maybe(Version)
    BY DEF Open, world, At, Reopening, Inv, Shape, Locals
  <1>2. PICK r \in {file[d], None} : /\ reader' = [reader EXCEPT ![d] = r]
                                     /\ loaded' = [loaded EXCEPT ![d] = r # None]
    BY <1>0, Zenon DEF Open
  <1>3. r \in Maybe(Version)
    BY <1>1 DEF Maybe
  <1>4. reader' \in [DB -> Maybe(Version)] /\ DOMAIN loaded' = DB
    BY <1>1, <1>2, <1>3
  <1>5. Tells(d)'
    <2>1. reader'[d] = r /\ loaded'[d] = (r # None)
      BY <1>1, <1>2
    <2>. QED
      BY <2>1, Zenon DEF Tells
  <1>6. \A e \in DB \ {d} : reader'[e] = reader[e] /\ loaded'[e] = loaded[e]
    BY <1>1, <1>2
  <1>. QED
    BY <1>0, <1>1, <1>4, <1>5, <1>6, NextDBStep, Zenon

LEMMA EnvironmentStep ==
  ASSUME Inv, UNCHANGED <<reader, loaded, lastReopenCheck, holder, wk>>,
         file' \in [DB -> Maybe(Version)], clock' \in Nat
  PROVE  Inv'
  <1>1. Shape'
    BY DEF Inv, Shape, Locals
  <1>2. ASSUME NEW w \in Worker PROVE Orderly(w)'
    BY OthersOrderly DEF Inv
  <1>3. (lastReopenCheck # None => \A d \in DB : Tells(d))'
    BY Zenon DEF Inv, Tells
  <1>. QED
    BY <1>1, <1>2, <1>3 DEF Inv

LEMMA InvStep == Inv /\ [Next]_vars => Inv'
  <1>. SUFFICES ASSUME Inv, [Next]_vars PROVE Inv'
    OBVIOUS
  <1>0. file \in [DB -> Maybe(Version)] /\ clock \in Nat
    BY DEF Inv, Shape
  <1>1. ASSUME NEW w \in Worker, Step(w) PROVE Inv'
    BY <1>1, ResolveStep, LockStep, StatStep, OpenStep, GetStep, LookupCountryStep,
       LookupASNStep, AddStep, Zenon DEF Step
  <1>2. ASSUME NEW d \in DB, NewFile(d) PROVE Inv'
    <2>1. file' \in [DB -> Maybe(Version)]
      BY <1>0, <1>2 DEF NewFile, Maybe
    <2>. QED
      BY <1>0, <1>2, <2>1, EnvironmentStep DEF NewFile, dbs
  <1>3. ASSUME NEW d \in DB, RemoveFile(d) PROVE Inv'
    <2>1. file' \in [DB -> Maybe(Version)]
      BY <1>0, <1>3 DEF RemoveFile, Maybe
    <2>. QED
      BY <1>0, <1>3, <2>1, EnvironmentStep DEF RemoveFile, dbs
  <1>4. CASE Tick
    BY <1>0, <1>4, EnvironmentStep DEF Tick, dbs
  <1>5. CASE UNCHANGED vars
    BY <1>0, <1>5, EnvironmentStep DEF vars
  <1>. QED
    BY <1>1, <1>2, <1>3, <1>4, <1>5 DEF Next

LEMMA Invariance == Spec => []Inv
  <1>1. Init => Inv
    <2>. SUFFICES ASSUME Init PROVE Inv
      OBVIOUS
    <2>1. wk = [w \in Worker |-> Idle] /\ holder = None /\ lastReopenCheck = None
      BY DEF Init
    <2>2. Shape
      <3>1. wk \in [Worker -> Locals]
        BY <2>1, IdleLocals
      <3>2. reader \in [DB -> Maybe(Version)] /\ DOMAIN loaded = DB
            /\ clock \in Nat /\ lastReopenCheck \in Maybe(Nat)
        BY DEF Init, Maybe
      <3>3. file \in [DB -> Maybe(Version)]
        <4>1. 1 \in Version
          BY GeoAssumption DEF GeoAssumption, Version
        <4>. QED
          BY <4>1 DEF Init, Maybe
      <3>. QED
        BY <3>1, <3>2, <3>3 DEF Shape
    <2>3. ASSUME NEW w \in Worker PROVE Orderly(w)
      BY <2>1, IdleLocals, GeoAssumption DEF GeoAssumption, Orderly, Reopening, At
    <2>. QED
      BY <2>1, <2>2, <2>3 DEF Inv
  <1>. QED
    BY <1>1, InvStep, PTL DEF Spec

(* geoip.go:107-111, 184-186: with any number of workers, no reader is     *)
(* replaced while a lookup is under way, and the two halves of a result    *)
(* are of one generation.                                                  *)
THEOREM LookupsUndisturbed == Spec => []LookupUndisturbed
  <1>1. Inv => LookupUndisturbed
    <2>. SUFFICES ASSUME Inv, NEW w \in Worker, At(w, "lookup")
                  PROVE  /\ wk[w].res["country"] = reader["country"]
                         /\ \A v \in Worker : ~At(v, "open")
      BY DEF LookupUndisturbed
    <2>1. holder = None /\ None \notin Worker
      BY GeoAssumption DEF GeoAssumption, Inv, Orderly
    <2>. QED
      BY <2>1 DEF Inv, Orderly, Reopening, At
  <1>. QED
    BY <1>1, Invariance, PTL

(* geoip.go:99-133, metrics.go:130: between checks, and from the first one *)
(* on, the gauge is 1 exactly when a reader is open.                       *)
THEOREM GaugeAlwaysTellsReader == Spec => []GaugeTellsReader
  <1>1. Inv => GaugeTellsReader
    BY Zenon DEF Inv, GaugeTellsReader, Tells
  <1>. QED
    BY <1>1, Invariance, PTL

(* geoip.go:170-178: whatever goroutines wait for r.mu with a clock        *)
(* reading of earlier, two checks are never closer than the interval.      *)
THEOREM ChecksAlwaysSpaced == Spec => ChecksSpaced
  <1>1. Inv /\ [Next]_vars =>
          [lastReopenCheck # None =>
             lastReopenCheck' - lastReopenCheck >= ReopenCheckInterval]_lastReopenCheck
    <2>. SUFFICES ASSUME Inv, [Next]_vars, lastReopenCheck' # lastReopenCheck,
                         lastReopenCheck # None
                  PROVE  lastReopenCheck' - lastReopenCheck >= ReopenCheckInterval
      OBVIOUS
    <2>1. PICK w \in Worker : Reopening(w) /\ NextDB(w)
      BY Zenon DEF Next, Step, Resolve, Lock, Stat, Open, Get, LookupCountry, LookupASN, Add,
         NewFile, RemoveFile, Tick, vars, At, Reopening
    <2>2. lastReopenCheck' = wk[w].now
      BY <2>1 DEF NextDB
    <2>3. Due(w)
      BY <2>1 DEF Inv, Orderly
    <2>. QED
      BY <2>2, <2>3 DEF Due
  <1>. QED
    BY <1>1, Invariance, PTL DEF Spec, ChecksSpaced
-----------------------------------------------------------------------------
LEMMA StaleFinite ==
  /\ IsFiniteSet(StaleCached) /\ IsFiniteSet(StaleOnTheWay)
  /\ Cardinality(StaleCached) \in Nat /\ Cardinality(StaleOnTheWay) \in Nat
  <1>1. IsFiniteSet(StaleCached) /\ IsFiniteSet(StaleOnTheWay)
    BY FS_Subset, GeoAssumption DEF GeoAssumption, StaleCached, StaleOnTheWay
  <1>. QED
    BY <1>1, FS_CardinalityType

(* A step after which no answer is stale that was not before.              *)
LEMMA FewerStale ==
  ASSUME StaleBounded, StaleCached' \subseteq StaleCached,
         StaleOnTheWay' \subseteq StaleOnTheWay
  PROVE  StaleBounded'
  <1>1. /\ Cardinality(StaleCached') \in Nat /\ Cardinality(StaleOnTheWay') \in Nat
        /\ Cardinality(StaleCached') <= Cardinality(StaleCached)
        /\ Cardinality(StaleOnTheWay') <= Cardinality(StaleOnTheWay)
    BY StaleFinite, FS_Subset, FS_CardinalityType
  <1>2. Cardinality(Worker) \in Nat
    BY FS_CardinalityType, GeoAssumption DEF GeoAssumption
  <1>. QED
    BY <1>1, <1>2, StaleFinite DEF StaleBounded

(* Only w moves, and no reader or cached answer changes.                   *)
LEMMA NoneStaler ==
  ASSUME Inv, StaleBounded, NEW w \in Worker, UNCHANGED <<reader, cache>>,
         \A v \in Worker \ {w} : wk'[v] = wk[v],
         wk'[w].pc = "add" => wk'[w].res = reader
  PROVE  StaleBounded'
  <1>1. StaleCached' \subseteq StaleCached
    BY DEF StaleCached
  <1>2. StaleOnTheWay' \subseteq StaleOnTheWay
    BY Zenon DEF StaleOnTheWay, At
  <1>. QED
    BY <1>1, <1>2, FewerStale

LEMMA NextDBPlace ==
  ASSUME Inv, NEW w \in Worker, NextDB(w)
  PROVE  wk'[w].pc \in {"stat", "get"}
  <1>1. wk \in [Worker -> Locals]
    BY DEF Inv, Shape
  <1>2. ASSUME NEW pc, NEW d, wk' = [wk EXCEPT ![w].pc = pc, ![w].db = d, ![w].stat = None]
        PROVE  wk'[w].pc = pc
    <2>. DEFINE rec == [wk[w] EXCEPT !.pc = pc, !.db = d, !.stat = None]
    <2>1. wk' = [wk EXCEPT ![w] = rec]
      BY <1>2, Zenon
    <2>2. rec.pc = pc
      BY <1>1, Zenon DEF Locals
    <2>. HIDE DEF rec
    <2>. QED
      BY <1>1, <2>1, <2>2
  <1>. QED
    BY <1>2, Zenon DEF NextDB

(* The purge leaves the answers on their way, of other workers only.       *)
LEMMA OpenStale ==
  ASSUME Inv, NEW w \in Worker, Open(w)
  PROVE  StaleBounded'
  <1>1. StaleCached' = {}
    BY Zenon DEF Open, Purged, StaleCached
  <1>2. StaleOnTheWay' \subseteq Worker \ {w}
    <2>1. wk'[w].pc \in {"stat", "get"}
      BY NextDBPlace DEF Open
    <2>. QED
      BY <2>1 DEF StaleOnTheWay, At
  <1>3. IsFiniteSet(Worker) /\ Cardinality(Worker) \in Nat
    BY FS_CardinalityType, GeoAssumption DEF GeoAssumption
  <1>4. /\ IsFiniteSet(Worker \ {w}) /\ Cardinality(Worker \ {w}) = Cardinality(Worker) - 1
    BY <1>3, FS_RemoveElement
  <1>5. /\ Cardinality(StaleOnTheWay') <= Cardinality(Worker \ {w})
        /\ Cardinality(StaleOnTheWay') \in Nat
    BY <1>2, <1>4, FS_Subset, FS_CardinalityType
  <1>6. Cardinality(StaleCached') = 0
    BY <1>1, FS_EmptySet
  <1>. QED
    BY <1>3, <1>4, <1>5, <1>6 DEF StaleBounded

(* The answer added was on its way, and takes one place in the cache.      *)
LEMMA AddStale ==
  ASSUME Inv, StaleBounded, NEW w \in Worker, Add(w)
  PROVE  StaleBounded'
  <1>. DEFINE ip == wk[w].ip
  <1>1. /\ wk' = [wk EXCEPT ![w] = Idle] /\ reader' = reader /\ wk[w].pc = "add"
        /\ \A i \in IP \ {ip} : cache'[i] \in {cache[i], Absent}
        /\ ip \in IP => cache'[ip] = wk[w].res
    BY Zenon DEF Add, At, dbs
  <1>2. wk'[w] = Idle /\ \A v \in Worker \ {w} : wk'[v] = wk[v]
    BY <1>1, Zenon DEF Inv, Shape
  <1>3. StaleOnTheWay' \subseteq StaleOnTheWay \ {w}
    BY <1>1, <1>2, IdleLocals, Zenon DEF StaleOnTheWay, At
  <1>. HIDE DEF ip
  <1>4. CASE wk[w].res = reader
    <2>1. StaleCached' \subseteq StaleCached
      BY <1>1, <1>4 DEF StaleCached
    <2>. QED
      BY <1>3, <2>1, FewerStale
  <1>5. CASE wk[w].res # reader
    <2>1. w \in StaleOnTheWay
      BY <1>1, <1>5 DEF StaleOnTheWay, At
    <2>2. StaleCached' \subseteq StaleCached \union {ip}
      BY <1>1 DEF StaleCached
    <2>. DEFINE A == StaleCached \union {ip}
                B == StaleOnTheWay \ {w}
    <2>3. IsFiniteSet(A) /\ Cardinality(A) <= Cardinality(StaleCached) + 1
      <3>1. IsFiniteSet(StaleCached) /\ Cardinality(StaleCached) \in Nat
        BY StaleFinite
      <3>2. /\ IsFiniteSet(A)
            /\ Cardinality(A) = IF ip \in StaleCached THEN Cardinality(StaleCached)
                                ELSE Cardinality(StaleCached) + 1
        BY <3>1, FS_AddElement, Zenon
      <3>. QED
        BY <3>1, <3>2
    <2>4. IsFiniteSet(B) /\ Cardinality(B) = Cardinality(StaleOnTheWay) - 1
      BY <2>1, StaleFinite, FS_RemoveElement
    <2>. HIDE DEF A, B
    <2>5. Cardinality(A) \in Nat /\ Cardinality(B) \in Nat
      BY <2>3, <2>4, FS_CardinalityType
    <2>6. /\ Cardinality(StaleCached') \in Nat /\ Cardinality(StaleCached') <= Cardinality(A)
      BY <2>2, <2>3, FS_Subset, FS_CardinalityType DEF A
    <2>7. /\ Cardinality(StaleOnTheWay') \in Nat
          /\ Cardinality(StaleOnTheWay') <= Cardinality(B)
      BY <1>3, <2>4, FS_Subset, FS_CardinalityType DEF B
    <2>8. Cardinality(Worker) \in Nat
      BY FS_CardinalityType, GeoAssumption DEF GeoAssumption
    <2>. QED
      BY <2>3, <2>4, <2>5, <2>6, <2>7, <2>8, StaleFinite DEF StaleBounded
  <1>. QED
    BY <1>4, <1>5

(* What is looked up is of the current readers until one is replaced.      *)
LEMMA LookupFresh ==
  ASSUME Inv, NEW w \in Worker, LookupASN(w)
  PROVE  wk'[w].res = reader
  <1>1. /\ wk[w].res \in [DB -> Maybe(Version)] /\ reader \in [DB -> Maybe(Version)]
        /\ wk[w].res["country"] = reader["country"]
    BY DEF LookupASN, Inv, Shape, Locals, Orderly
  <1>2. wk'[w].res = [wk[w].res EXCEPT !["asn"] = reader["asn"]]
    BY Zenon DEF LookupASN, Inv, Shape, Locals
  <1>. QED
    BY <1>1, <1>2 DEF DB

LEMMA StaleStep == Inv /\ StaleBounded /\ [Next]_vars => StaleBounded'
  <1>. SUFFICES ASSUME Inv, StaleBounded, [Next]_vars PROVE StaleBounded'
    OBVIOUS
  <1>0. wk \in [Worker -> Locals]
    BY DEF Inv, Shape
  <1>1. CASE UNCHANGED <<reader, cache, wk>>
    <2>1. StaleCached' = StaleCached /\ StaleOnTheWay' = StaleOnTheWay
      BY <1>1 DEF StaleCached, StaleOnTheWay, At
    <2>. QED
      BY <2>1, FewerStale
  <1>2. ASSUME NEW w \in Worker, Step(w) PROVE StaleBounded'
    <2>1. CASE Open(w)
      BY <2>1, OpenStale
    <2>2. CASE Add(w)
      BY <2>2, AddStale
    <2>3. CASE LookupASN(w)
      <3>1. UNCHANGED <<reader, cache>> /\ \A v \in Worker \ {w} : wk'[v] = wk[v]
        BY <1>0, <2>3, Zenon DEF LookupASN, dbs
      <3>. QED
        BY <2>3, <3>1, LookupFresh, NoneStaler
    <2>4. CASE Stat(w)
      <3>1. UNCHANGED <<reader, cache>> /\ \A v \in Worker \ {w} : wk'[v] = wk[v]
        BY <1>0, <2>4, Zenon DEF Stat, NextDB
      <3>2. CASE NextDB(w)
        BY <3>1, <3>2, NextDBPlace, NoneStaler
      <3>3. CASE wk' = [wk EXCEPT ![w].pc = "open", ![w].stat = file[wk[w].db]]
        <4>. DEFINE rec == [wk[w] EXCEPT !.pc = "open", !.stat = file[wk[w].db]]
        <4>1. wk' = [wk EXCEPT ![w] = rec] /\ rec.pc = "open"
          BY <1>0, <3>3, Zenon DEF Locals
        <4>. HIDE DEF rec
        <4>2. wk'[w].pc # "add"
          BY <1>0, <4>1
        <4>. QED
          BY <3>1, <4>2, NoneStaler
      <3>. QED
        BY <2>4, <3>2, <3>3, Zenon DEF Stat
    <2>5. CASE Lock(w) \/ Get(w) \/ LookupCountry(w) \/ \E ip \in IP : Resolve(w, ip)
      <3>1. UNCHANGED <<reader, cache>> /\ \A v \in Worker \ {w} : wk'[v] = wk[v]
        BY <1>0, <2>5, Zenon DEF Lock, Get, LookupCountry, Resolve, Goto, dbs
      <3>2. CASE LookupCountry(w)
        <4>. DEFINE rec == [wk[w] EXCEPT !.pc = "lookup", !.res["country"] = reader["country"]]
        <4>1. wk' = [wk EXCEPT ![w] = rec] /\ rec.pc = "lookup"
          BY <1>0, <3>2, Zenon DEF LookupCountry, Locals
        <4>. HIDE DEF rec
        <4>2. wk'[w].pc # "add"
          BY <1>0, <4>1
        <4>. QED
          BY <3>1, <4>2, NoneStaler
      <3>3. CASE Lock(w) \/ Get(w) \/ \E ip \in IP : Resolve(w, ip)
        <4>1. wk'[w].pc # "add"
          <5>1. \A rec : wk' = [wk EXCEPT ![w] = rec] => wk'[w] = rec
            BY <1>0
          <5>2. \A pc : Goto(w, pc) => wk'[w].pc = pc
            BY <1>0, Zenon DEF Goto, Locals
          <5>3. \A ip \in IP : [Idle EXCEPT !.pc = "lock", !.ip = ip, !.now = clock].pc = "lock"
            BY IdleLocals, Zenon DEF Locals
          <5>. QED
            BY <3>3, <5>1, <5>2, <5>3, IdleLocals, Zenon DEF Lock, Get, Resolve
        <4>. QED
          BY <3>1, <4>1, NoneStaler
      <3>. QED
        BY <2>5, <3>2, <3>3
    <2>. QED
      BY <1>2, <2>1, <2>2, <2>3, <2>4, <2>5 DEF Step
  <1>. QED
    BY <1>1, <1>2 DEF Next, NewFile, RemoveFile, Tick, dbs, vars

(* geoip.go:99-113, 180-189: with any number of workers and addresses, and *)
(* however long a goroutine takes from its lookup to cache.Add, fewer      *)
(* answers of closed databases are cached or on their way than there are   *)
(* workers. A purge starts the count again at the workers other than the   *)
(* one that purges.                                                        *)
THEOREM StaleAlwaysBounded == Spec => []StaleBounded
  <1>1. Init => StaleBounded
    <2>. SUFFICES ASSUME Init PROVE StaleBounded
      OBVIOUS
    <2>1. StaleCached = {} /\ StaleOnTheWay = {}
      BY IdleLocals DEF Init, StaleCached, StaleOnTheWay, At
    <2>2. Cardinality(Worker) \in Nat /\ Cardinality(Worker) # 0
      BY FS_CardinalityType, FS_EmptySet, GeoAssumption DEF GeoAssumption
    <2>. QED
      BY <2>1, <2>2, FS_EmptySet DEF StaleBounded
  <1>. QED
    BY <1>1, Invariance, StaleStep, PTL DEF Spec
=============================================================================
