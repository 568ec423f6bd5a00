------------------------------ MODULE NtpPool ------------------------------
(***************************************************************************)
(* The poller of ntppool.org (ntppool.go): RunForever downloads the        *)
(* history per monitor and the overall history, picks the newest entries   *)
(* and sets the gauges one by one. The site answers with its entries in    *)
(* any order; it changes, goes down, and may answer with something that    *)
(* is not JSON.                                                            *)
(*                                                                         *)
(* An entry is [id, ts, score, offset, rtt]; the id and each value may be  *)
(* missing. A timestamp is [kind, v]: a number, a string (v is its rank    *)
(* among the strings) or not set.                                          *)
(*                                                                         *)
(* An operator that nothing uses is a faulty variant of the definition     *)
(* after it: the mutation of the code that a property has to notice.       *)
(***************************************************************************)
EXTENDS Integers, Sequences, FiniteSets, SequencesExt, TLC

CONSTANTS
  Id,               (* monitor ids, numbers                                 *)
  Monitors,         (* the monitors of an answer: a sequence of [id, name]  *)
  Entries,          (* entries of the history per monitor                   *)
  MaxEntries,       (* bound on the entries of an answer                    *)
  OverallAnswers,   (* answers to the request for the overall history       *)
  MaxChanges,       (* bound on the changes of the site                     *)
  Missing,          (* nil                                                  *)
  Garbage           (* a body that is not JSON                              *)

ASSUME PoolAssumption ==
  /\ MaxEntries \in Nat /\ MaxChanges \in Nat
  /\ \A e \in Entries : e.id \in Id \union {Missing}

Field == <<"score", "offset", "rtt">>

(* monitorsByID: the id stands in for a name that is missing or empty.     *)
MonitorsByID ==
  FoldLeft(LAMBDA names, m :
             IF m.id = Missing THEN names
             ELSE (m.id :> IF m.name \in {Missing, ""} THEN ToString(m.id)
                           ELSE m.name) @@ names,
           <<>>, Monitors)

NameOf(id) ==
  IF id \in DOMAIN MonitorsByID THEN MonitorsByID[id] ELSE ToString(id)

Label == {NameOf(m) : m \in Id}

VARIABLES
  site,             (* the entries the site has, a subset of Entries        *)
  overall,          (* its answer to the request for the overall history    *)
  state, changes,   (* "up", "down" or "garbled"; changes so far            *)
  pc,               (* where PollOnce is                                    *)
  data, overallData,(* the bodies downloaded                                *)
  parsed,           (* the result of Parse: labels to entries               *)
  todo,             (* gauges yet to be set, a sequence of <<gauge, value>> *)
  gauge,            (* gauge values: <<"overall">> or <<label, field>>      *)
  success,          (* ntppool_scrape_success                               *)
  allowed, told     (* history: what each gauge may show after the polls    *)
                    (* that succeeded, and after the one under way          *)

siteVars == <<site, overall, state, changes>>
history == <<allowed, told>>
vars == <<siteVars, pc, data, overallData, parsed, todo, gauge, success, history>>

Gauge == {<<"overall">>} \union (Label \X Range(Field))

Sites == {S \in SUBSET Entries : Cardinality(S) <= MaxEntries}

Init ==
  /\ site \in Sites
  /\ overall \in OverallAnswers /\ state = "up" /\ changes = 0
  /\ pc = "poll" /\ data = <<>> /\ overallData = <<>>
  /\ parsed = <<>> /\ todo = <<>>
  /\ gauge = [g \in Gauge |-> Missing] /\ success = 0
  /\ allowed = [g \in Gauge |-> {Missing}] /\ told = allowed
-----------------------------------------------------------------------------
LessAcrossKinds(t, o) ==
  \/ t.kind = "unset" /\ o.kind # "unset"
  \/ t.kind # "unset" /\ o.kind # "unset" /\ t.v < o.v

(* flexTS.less: not set before string before number.                       *)
Less(t, o) ==
  \/ t.kind = "unset" /\ o.kind # "unset"
  \/ t.kind = "str" /\ o.kind = "num"
  \/ t.kind = o.kind /\ t.kind # "unset" /\ t.v < o.v

Newer(a, b) == Less(b.ts, a.ts)

(* The newest entry of a history that is not empty: the loop of Parse and  *)
(* ParseOverallScore.                                                      *)
Newest(h) ==
  FoldLeft(LAMBDA best, e : IF Newer(e, best) THEN e ELSE best, h[1], Tail(h))

(* The newest entry of each monitor.                                       *)
LatestByMonitor(h) ==
  FoldLeft(LAMBDA m, e :
             IF /\ e.id # Missing
                /\ e.id \notin DOMAIN m \/ Newer(e, m[e.id])
             THEN (e.id :> e) @@ m ELSE m,
           <<>>, h)

(* RTT is published in seconds: a ratio.                                   *)
Value(e, f) ==
  IF f = "rtt" /\ e.rtt # Missing THEN <<e.rtt, 1000>> ELSE e[f]

(* Parse, the naming loop: by label, the newest entry of a monitor with    *)
(* that label. Map iteration decides which one if two monitors share it.   *)
ByLabel(latest) ==
  LET labels == {NameOf(m) : m \in DOMAIN latest}
      picks == {p \in [labels -> DOMAIN latest] : \A l \in labels : NameOf(p[l]) = l}
  IN  {[l \in labels |-> latest[p[l]]] : p \in picks}

(* The setter calls of PollOnce for one monitor: values that are there.    *)
SettersOf(l, e) ==
  SelectSeq([i \in 1 .. 3 |-> <<<<l, Field[i]>>, Value(e, Field[i])>>],
            LAMBDA call : call[2] # Missing)

(* All of them, for any order of the map of monitors.                      *)
Setters(monitors, score) ==
  {(IF score = Missing THEN <<>> ELSE <<<<<<"overall">>, score>>>>)
     \o FlattenSeq([i \in DOMAIN order |-> SettersOf(order[i], monitors[order[i]])])
   : order \in SetToSeqs(DOMAIN monitors)}

(* ParseOverallScore                                                       *)
OverallScore(h) == IF h = <<>> THEN Missing ELSE Newest(h).score
-----------------------------------------------------------------------------
(* What the polls have to find, said without the loops: the entries for    *)
(* which no other is more recent, on one scale for all timestamps.         *)

Age(ts) == CASE ts.kind = "unset" -> <<0, 0>>
             [] ts.kind = "str" -> <<1, ts.v>>
             [] ts.kind = "num" -> <<2, ts.v>>

MoreRecent(e, o) ==
  LET a == Age(e.ts) b == Age(o.ts) IN a[1] > b[1] \/ (a[1] = b[1] /\ a[2] > b[2])

MostRecent(S) == {e \in S : \A o \in S : ~ MoreRecent(o, e)}

(* The values a gauge may show after a poll that was given these entries,  *)
(* if it could show those in old before.                                   *)
After(S, overalls, g, old) ==
  LET among == IF g = <<"overall">> THEN MostRecent(overalls)
               ELSE UNION {MostRecent({e \in S : e.id = m}) :
                             m \in {i \in Id : NameOf(i) = g[1]}}
      shown(e) == IF g = <<"overall">> THEN e.score ELSE Value(e, g[2])
  IN  IF among = {} THEN old
      ELSE UNION {IF shown(e) = Missing THEN old ELSE {shown(e)} : e \in among}
-----------------------------------------------------------------------------
(* getJSON: fails unless the site answers with a status 2xx.               *)
Body(answers) == CASE state = "up" -> answers
                   [] state = "garbled" -> {Garbage}
                   [] state = "down" -> {}

FailedSilently ==
  /\ pc' = "poll" /\ data' = <<>> /\ overallData' = <<>> /\ parsed' = <<>>
  /\ UNCHANGED <<siteVars, todo, gauge, success, history>>

(* Any failure: scrape_success is 0, nothing else is published.            *)
Failed ==
  /\ pc' = "poll" /\ success' = 0
  /\ data' = <<>> /\ overallData' = <<>> /\ parsed' = <<>>
  /\ UNCHANGED <<siteVars, todo, gauge, history>>

Download ==
  /\ pc = "poll" /\ pc' = "overall"
  /\ data' \in Body(SetToSeqs(site))
  /\ UNCHANGED <<siteVars, overallData, parsed, todo, gauge, success, history>>

DownloadOverall ==
  /\ pc = "overall" /\ pc' = "parse"
  /\ overallData' \in Body({overall})
  /\ UNCHANGED <<siteVars, data, parsed, todo, gauge, success, history>>

DownloadFails == pc \in {"poll", "overall"} /\ state = "down" /\ Failed

ParseFails ==
  /\ \/ pc = "parse" /\ data = Garbage
     \/ pc = "parseOverall" /\ overallData = Garbage
  /\ Failed

ParseMonitors ==
  /\ pc = "parse" /\ data # Garbage
  /\ pc' = "parseOverall"
  /\ \E latest \in {LatestByMonitor(data)} : parsed' \in ByLabel(latest)
  /\ UNCHANGED <<siteVars, data, overallData, todo, gauge, success, history>>

ParseOverall ==
  /\ pc = "parseOverall" /\ overallData # Garbage
  /\ pc' = "publish" /\ data' = <<>> /\ overallData' = <<>> /\ parsed' = <<>>
  /\ todo' \in Setters(parsed, OverallScore(overallData))
  /\ told' = [g \in Gauge |-> After(Range(data), Range(overallData), g, allowed[g])]
  /\ UNCHANGED <<siteVars, gauge, success, allowed>>

Publish ==
  /\ pc = "publish" /\ todo # <<>>
  /\ gauge' = [gauge EXCEPT ![Head(todo)[1]] = Head(todo)[2]]
  /\ todo' = Tail(todo)
  /\ UNCHANGED <<siteVars, pc, data, overallData, parsed, success, history>>

Succeed ==
  /\ pc = "publish" /\ todo = <<>>
  /\ pc' = "poll" /\ success' = 1 /\ allowed' = told
  /\ UNCHANGED <<siteVars, data, overallData, parsed, todo, gauge, told>>

(* The site: an entry comes or goes, answers stop and resume.              *)
Change ==
  /\ changes < MaxChanges /\ changes' = changes + 1
  /\ \/ /\ \E e \in Entries : site' \in {site \union {e}, site \ {e}} \intersect Sites
        /\ UNCHANGED <<overall, state>>
     \/ overall' \in OverallAnswers /\ UNCHANGED <<site, state>>
     \/ state' \in {"up", "down", "garbled"} /\ UNCHANGED <<site, overall>>
  /\ UNCHANGED <<pc, data, overallData, parsed, todo, gauge, success, history>>

PollOnce ==
  \/ Download \/ DownloadOverall \/ DownloadFails
  \/ ParseFails \/ ParseMonitors \/ ParseOverall \/ Publish \/ Succeed

Next == PollOnce \/ Change

(* RunForever calls PollOnce for ever; the client's timeout ends each      *)
(* download.                                                               *)
Spec == Init /\ [][Next]_vars /\ WF_vars(PollOnce)
-----------------------------------------------------------------------------
(* Between two polls every gauge shows what the last polls that succeeded  *)
(* tell: the value of the most recent entry whatever the order of the      *)
(* answer, or the older value where that entry has none or the monitor is  *)
(* gone; a poll that fails at any point leaves them all alone. Halfway     *)
(* through publishing, a scrape sees for each gauge that or what this poll *)
(* tells, nothing else. (Parse orders by flexTS; PollOnce returns early    *)
(* before any setter.)                                                     *)
GaugesTellHistory ==
  \A g \in Gauge : gauge[g] \in allowed[g] \union told[g]

Current ==
  \A g \in Gauge :
    gauge[g] \in After(site, Range(overall), g, {gauge[g]})

(* Once the site answers and no longer changes, the gauges come to show    *)
(* what it has and scrape_success comes to be 1, for good; once it is down *)
(* for good scrape_success comes to be 0, while the gauges keep showing    *)
(* old values. (RunForever polls again after every outcome.)               *)
Recovers ==
  /\ <>[](state = "up") => <>[](success = 1 /\ Current)
  /\ <>[](state # "up") => <>[](success = 0)
=============================================================================
