-------------------------- MODULE MCCollectorSafety --------------------------
(***************************************************************************)
(* The collector under several kinds of traffic, each with bounds of its   *)
(* own. A scenario restricts what the environment does and nothing else:   *)
(* every behaviour of ScenarioSpec is one of Collector's Spec.             *)
(***************************************************************************)
EXTENDS MCCollector

CONSTANTS b, c

VARIABLE scenario

(* a and c are in the first shard, b is in the last.                       *)
TwoShards == [ip \in IP |-> IF ip = b THEN NumShards - 1 ELSE 0]

(* a's country and ASN change when the databases are reloaded.             *)
GeoMoving ==
  [ip \in IP |-> {GeoWith(eu, as1)} \union (IF ip = a THEN {GeoWith(us, as2)} ELSE {})]

Traffic(frames, captured) ==
  [frames |-> frames, captured |-> captured, ticks |-> 0, steps |-> 0, drops |-> 0]

(* Three requests of one client for two workers to count.                  *)
Counting == Traffic(CountedRequests, 3)

(* A request and a response that may be of different countries and fall    *)
(* into different flushes.                                                 *)
Answering == Traffic(CountedRequests \union {FrameOf("response", a, Nil)}, 2)

(* Two requests compete for one place in a pending table, or one is        *)
(* answered, perhaps before it is stored.                                  *)
Competing == Traffic({FrameOf("request", b, x), FrameOf("request", b, y),
                      FrameOf("response", b, x)}, 2)

(* The wall clock is set between a request and its response.               *)
Setting == [Traffic({FrameOf("request", b, x), FrameOf("response", b, x)}, 2)
              EXCEPT !.steps = 1]

(* Clients of two shards arrive, expire and return while Flush counts.     *)
Expiring == [Traffic({FrameOf("request", ip, Nil) : ip \in {b, c}}, 2) EXCEPT !.ticks = 1]

(* The kernel drops frames, and sockets are replaced.                      *)
Dropping == [Traffic({FrameOf("request", b, Nil)}, 1) EXCEPT !.drops = 2]

Scenarios == {Counting, Answering, Competing, Setting, Expiring, Dropping}

ScenarioFrames == UNION {s.frames : s \in Scenarios}

WithinScenario ==
  /\ env.captured <= scenario.captured /\ env.steps <= scenario.steps
  /\ clock <= scenario.ticks /\ dropped <= scenario.drops
  /\ \A w \in Worker : \A i \in DOMAIN ring[w] : ring[w][i].frame \in scenario.frames

EnvironmentDone ==
  /\ env.captured = scenario.captured /\ env.steps = scenario.steps
  /\ clock = scenario.ticks /\ scenario.drops = 0

ScenarioNext ==
  /\ UNCHANGED scenario
  /\ \/ ~EnvironmentDone /\ Environment /\ WithinScenario'
     \/ \E w \in Worker : HandleFrame(w)
     \/ Flush

ScenarioSpec == Init /\ scenario \in Scenarios /\ [][ScenarioNext]_<<vars, scenario>>
=============================================================================
