--------------------------- MODULE NtpLoadProofs ---------------------------
(***************************************************************************)
(* For any number of workers, any rate, any loss, duplication and order of *)
(* replies: run's counts add up. The sums run computes over the workers    *)
(* are proved by carrying their partial sums as a function s with s[0] = 0 *)
(* and s[k + 1] = s[k] + rtts[k].                                          *)
(***************************************************************************)
EXTENDS NtpLoad, FiniteSetTheorems, TLAPS

LoopsType ==
  /\ sendPc \in [Worker -> {"none", "pace", "sleep", "send", "write", "count",
                            "undo", "returned"}]
  /\ recvPc \in [Worker -> {"none", "poll", "read", "match", "record", "returned"}]
  /\ cookie \in [Worker -> Nat]
  /\ counter \in [Worker -> Nat] /\ sent \in [Worker -> Nat]
  /\ rtts \in [Worker -> Nat] /\ recvCount \in Nat
  /\ pending \in [Worker -> SUBSET Nat] /\ written \in [Worker -> SUBSET Nat]
  /\ \A w \in Worker :
       pending[w] \subseteq 1 .. counter[w] /\ written[w] \subseteq 1 .. counter[w]

StatsType ==
  /\ DOMAIN stats = {"sent", "received", "lost", "rtts"}
  /\ stats.sent \in Nat /\ stats.rtts \in Nat

(* The cookie being sent is pending and no reply can name it yet; recvLoop *)
(* only sees cookies that were written.                                    *)
CookieOrder ==
  \A w \in Worker :
    /\ sendPc[w] \in {"write", "undo"} =>
         counter[w] \in pending[w] /\ counter[w] \notin written[w]
    /\ cookie[w] \in written[w] \union {Stray}

(* No loop runs before the sockets are dialled, or beside run's sums.      *)
Joined ==
  /\ pc = "dial" =>
       \A w \in Worker : sendPc[w] = "none" /\ recvPc[w] = "none"
  /\ pc \in {"summing", "returned"} =>
       \A w \in Worker : sendPc[w] = "returned" /\ recvPc[w] = "returned"

PartialSums(s) ==
  /\ s \in [0 .. Workers -> Int] /\ s[0] = 0 /\ s[Workers] = recvCount
  /\ \A k \in Worker : s[k + 1] = s[k] + rtts[k]

SumsRight ==
  \E s : /\ PartialSums(s)
         /\ pc = "summing" => at \in 0 .. Workers /\ stats.rtts = s[at]

StatsRight ==
  /\ pc \notin {"summing", "returned"} => stats = NoStats
  /\ pc = "summing" => stats.rtts <= stats.sent

LoadInv ==
  /\ LoopsType /\ StatsType /\ CookieOrder /\ SendsAccounted
  /\ Joined /\ SumsRight /\ StatsRight /\ LossWithinSent

(* Removing a pending cookie, or entering a new one.                       *)
LEMMA PendingCount ==
  ASSUME NEW m \in Nat, NEW S \in SUBSET (1 .. m)
  PROVE  /\ Cardinality(S) \in Nat
         /\ \A c \in S : Cardinality(S \ {c}) = Cardinality(S) - 1
         /\ \A c : c \notin S => Cardinality(S \union {c}) = Cardinality(S) + 1
<1>1. IsFiniteSet(1 .. m)
  BY FS_Interval, SMT
<1>2. IsFiniteSet(S)
  BY <1>1, FS_Subset, Zenon
<1> QED
  BY <1>2, FS_CardinalityType, FS_AddElement, FS_RemoveElement

LEMMA LoadInit == Init => LoadInv
<1> SUFFICES ASSUME Init PROVE LoadInv
  OBVIOUS
<1> USE LoadAssumption
<1>1. LoopsType /\ StatsType
  BY DEF Init, LoopsType, StatsType, Zero, Nothing, NoStats, Stray
<1>2. CookieOrder /\ Joined /\ StatsRight /\ LossWithinSent
  BY DEF Init, CookieOrder, Joined, StatsRight, LossWithinSent, Stray
<1>3. SendsAccounted
  BY FS_EmptySet DEF Init, SendsAccounted, InFlight, Zero, Nothing
<1>4. SumsRight
  <2> DEFINE s == [k \in 0 .. Workers |-> 0]
  <2>1. PartialSums(s)
    BY DEF Init, PartialSums, Worker, Zero
  <2>2. pc # "summing"
    BY DEF Init
  <2> QED
    BY <2>1, <2>2 DEF SumsRight
<1> QED
  BY <1>1, <1>2, <1>3, <1>4 DEF LoadInv
(* A step of a loop leaves run and its statistics alone.                   *)
LoopFrame == UNCHANGED <<pc, at, stats>>

(* While a loop runs run does not sum: only the counts of that loop have   *)
(* to be looked at.                                                        *)
LEMMA LoopStep ==
  ASSUME LoadInv, LoopFrame, NEW w \in Worker,
         sendPc[w] \notin {"none", "returned"} \/ recvPc[w] \notin {"none", "returned"}
  PROVE  /\ pc \notin {"dial", "summing", "returned"}
         /\ Joined' /\ StatsRight' /\ LossWithinSent'
         /\ UNCHANGED <<rtts, recvCount>> => SumsRight'
<1>1. pc \notin {"dial", "summing", "returned"}
  BY DEF LoadInv, Joined
<1>2. Joined' /\ StatsRight' /\ LossWithinSent'
  BY <1>1 DEF LoopFrame, LoadInv, Joined, StatsRight, LossWithinSent
<1>3. ASSUME UNCHANGED <<rtts, recvCount>> PROVE SumsRight'
  <2>1. PICK s : PartialSums(s)
    BY DEF LoadInv, SumsRight
  <2>2. PartialSums(s)'
    BY <1>3, <2>1 DEF PartialSums
  <2> QED
    BY <1>1, <2>2 DEF SumsRight, LoopFrame
<1> QED
  BY <1>1, <1>2, <1>3

(* The steps of sendLoop.                                                  *)
LEMMA SenderStep ==
  ASSUME LoadInv, NEW w \in Worker, Sender(w) PROVE LoadInv'
<1> USE DEF Stray
<1>0. /\ LoopFrame /\ sendPc[w] \notin {"none", "returned"}
      /\ UNCHANGED <<recvPc, cookie, rtts, recvCount>>
  BY DEF Sender, Pace, Wake, Send, Write, Count, Undo, LoopFrame, main, receiving
<1>f. Joined' /\ StatsRight' /\ LossWithinSent' /\ SumsRight'
  BY <1>0, LoopStep
<1>s. StatsType'
  BY <1>0 DEF LoadInv, StatsType, LoopFrame
<1>t. LoopsType /\ CookieOrder /\ SendsAccounted
  BY DEF LoadInv
<1>c. \A v \in Worker : Cardinality(pending[v]) \in Nat
  BY <1>t, PendingCount, Zenon DEF LoopsType
<1>1. CASE Pace(w) \/ Wake(w) \/ (Send(w) /\ stop)
  <2>1. /\ sendPc[w] \in {"pace", "sleep", "send"}
        /\ \E q \in {"pace", "sleep", "send", "returned"} :
             sendPc' = [sendPc EXCEPT ![w] = q]
        /\ UNCHANGED <<counter, sent, written, pending>>
    BY <1>1 DEF Pace, Wake, Send
  <2>2. LoopsType' /\ CookieOrder' /\ SendsAccounted'
    BY <1>0, <1>t, <2>1 DEF LoopsType, CookieOrder, SendsAccounted, InFlight
  <2> QED
    BY <1>f, <1>s, <2>2 DEF LoadInv
<1>2. CASE Send(w) /\ ~ stop
  <2> DEFINE c == counter[w] + 1
  <2>1. /\ sendPc[w] = "send" /\ sendPc' = [sendPc EXCEPT ![w] = "write"]
        /\ counter' = [counter EXCEPT ![w] = c]
        /\ pending' = [pending EXCEPT ![w] = @ \union {c}]
        /\ UNCHANGED <<sent, written>>
    BY <1>2 DEF Send
  <2>2. c \notin pending[w] /\ c \notin written[w]
    BY <1>t DEF LoopsType
  <2>3. Cardinality(pending[w] \union {c}) = Cardinality(pending[w]) + 1
    BY <1>t, <2>2, PendingCount, Zenon DEF LoopsType
  <2>4. LoopsType'
    BY <1>0, <1>t, <2>1 DEF LoopsType
  <2>5. CookieOrder'
    BY <1>0, <1>t, <2>1, <2>2 DEF LoopsType, CookieOrder
  <2>6. SendsAccounted'
    <3> SUFFICES ASSUME NEW v \in Worker
                 PROVE  Cardinality(pending'[v]) + rtts'[v]
                          + (IF recvPc'[v] = "record" THEN 1 ELSE 0)
                          = sent'[v] + (IF InFlight(v)' THEN 1 ELSE 0)
      BY DEF SendsAccounted
    <3>1. CASE v = w
      BY <1>0, <1>t, <1>c, <2>1, <2>3, <3>1 DEF LoopsType, SendsAccounted, InFlight
    <3>2. CASE v # w
      BY <1>0, <1>t, <2>1, <3>2 DEF LoopsType, SendsAccounted, InFlight
    <3> QED
      BY <3>1, <3>2
  <2> QED
    BY <1>f, <1>s, <2>4, <2>5, <2>6 DEF LoadInv
<1>3. CASE Write(w)
  <2>1. /\ sendPc[w] = "write" /\ UNCHANGED <<counter, sent, pending>>
        /\ \/ /\ sendPc' = [sendPc EXCEPT ![w] = "count"]
              /\ written' = [written EXCEPT ![w] = @ \union {counter[w]}]
           \/ sendPc' = [sendPc EXCEPT ![w] = "undo"] /\ UNCHANGED written
    BY <1>3 DEF Write
  <2>2. counter[w] \in pending[w]
    BY <1>t, <2>1 DEF CookieOrder
  <2>3. LoopsType'
    BY <1>0, <1>t, <2>1, <2>2 DEF LoopsType
  <2>4. CookieOrder'
    BY <1>0, <1>t, <2>1, <2>2 DEF LoopsType, CookieOrder
  <2>5. SendsAccounted'
    BY <1>0, <1>t, <2>1 DEF LoopsType, SendsAccounted, InFlight
  <2> QED
    BY <1>f, <1>s, <2>3, <2>4, <2>5 DEF LoadInv
<1>4. CASE Count(w)
  <2>1. /\ sendPc[w] = "count" /\ sent' = [sent EXCEPT ![w] = @ + 1]
        /\ \E q \in {"send", "pace"} : sendPc' = [sendPc EXCEPT ![w] = q]
        /\ UNCHANGED <<counter, written, pending>>
    BY <1>4, Zenon DEF Count, SendDone
  <2>2. LoopsType'
    BY <1>0, <1>t, <2>1 DEF LoopsType
  <2>3. CookieOrder'
    BY <1>0, <1>t, <2>1 DEF LoopsType, CookieOrder
  <2>4. SendsAccounted'
    BY <1>0, <1>t, <1>c, <2>1 DEF LoopsType, SendsAccounted, InFlight
  <2> QED
    BY <1>f, <1>s, <2>2, <2>3, <2>4 DEF LoadInv
<1>5. CASE Undo(w)
  <2>1. /\ sendPc[w] = "undo"
        /\ pending' = [pending EXCEPT ![w] = @ \ {counter[w]}]
        /\ \E q \in {"send", "pace"} : sendPc' = [sendPc EXCEPT ![w] = q]
        /\ UNCHANGED <<counter, sent, written>>
    BY <1>5, Zenon DEF Undo, SendDone
  <2>2. Cardinality(pending[w] \ {counter[w]}) = Cardinality(pending[w]) - 1
    BY <1>t, <2>1, PendingCount, Zenon DEF LoopsType, CookieOrder
  <2>3. LoopsType'
    BY <1>0, <1>t, <2>1 DEF LoopsType
  <2>4. CookieOrder'
    BY <1>0, <1>t, <2>1 DEF LoopsType, CookieOrder
  <2>5. SendsAccounted'
    BY <1>0, <1>t, <1>c, <2>1, <2>2 DEF LoopsType, SendsAccounted, InFlight
  <2> QED
    BY <1>f, <1>s, <2>3, <2>4, <2>5 DEF LoadInv
<1> QED
  BY <1>1, <1>2, <1>3, <1>4, <1>5 DEF Sender
(* The steps of recvLoop.                                                  *)
LEMMA ReceiverStep ==
  ASSUME LoadInv, NEW w \in Worker, Receiver(w) PROVE LoadInv'
<1> USE DEF Stray
<1>0. /\ LoopFrame /\ recvPc[w] \notin {"none", "returned"}
      /\ UNCHANGED <<sendPc, counter, sent, written>>
  BY DEF Receiver, Poll, ReadTimeout, Read, Match, Record, LoopFrame, main, sending
<1>f. /\ Joined' /\ StatsRight' /\ LossWithinSent'
      /\ UNCHANGED <<rtts, recvCount>> => SumsRight'
      /\ pc \notin {"summing", "returned"}
  BY <1>0, LoopStep, SMTT(30)
<1>s. StatsType'
  BY <1>0 DEF LoadInv, StatsType, LoopFrame
<1>t. LoopsType /\ CookieOrder /\ SendsAccounted
  BY DEF LoadInv
<1>c. \A v \in Worker : Cardinality(pending[v]) \in Nat
  BY <1>t, PendingCount, Zenon DEF LoopsType
<1>1. CASE Poll(w) \/ ReadTimeout(w) \/ Read(w)
  <2>1. /\ recvPc[w] \in {"poll", "read"}
        /\ \E q \in {"poll", "read", "match", "returned"} :
             recvPc' = [recvPc EXCEPT ![w] = q]
        /\ \/ UNCHANGED cookie
           \/ \E c \in written[w] \union {Stray} :
                cookie' = [cookie EXCEPT ![w] = c]
        /\ UNCHANGED <<pending, rtts, recvCount>>
    BY <1>1 DEF Poll, ReadTimeout, Read
  <2>2. LoopsType'
    BY <1>0, <1>t, <2>1 DEF LoopsType
  <2>3. CookieOrder' /\ SendsAccounted'
    BY <1>0, <1>t, <2>1, SMTT(30) DEF LoopsType, CookieOrder, SendsAccounted, InFlight
  <2> QED
    BY <1>f, <1>s, <2>1, <2>2, <2>3 DEF LoadInv
<1>2. CASE Match(w)
  <2>1. /\ recvPc[w] = "match"
        /\ recvPc' = [recvPc EXCEPT ![w] =
                       IF cookie[w] \in pending[w] THEN "record" ELSE "poll"]
        /\ pending' = [pending EXCEPT ![w] = @ \ {cookie[w]}]
        /\ UNCHANGED <<cookie, rtts, recvCount>>
    BY <1>2 DEF Match
  <2>2. IF cookie[w] \in pending[w]
        THEN Cardinality(pending[w] \ {cookie[w]}) = Cardinality(pending[w]) - 1
        ELSE pending[w] \ {cookie[w]} = pending[w]
    BY <1>t, PendingCount, Zenon DEF LoopsType
  <2>3. LoopsType'
    BY <1>0, <1>t, <2>1 DEF LoopsType
  <2>4. CookieOrder'
    <3>1. sendPc[w] \in {"write", "undo"} => counter[w] # cookie[w]
      BY <1>t DEF CookieOrder, LoopsType
    <3> QED
      BY <1>0, <1>t, <2>1, <3>1 DEF LoopsType, CookieOrder
  <2>5. SendsAccounted'
    <3> SUFFICES ASSUME NEW v \in Worker
                 PROVE  Cardinality(pending'[v]) + rtts'[v]
                          + (IF recvPc'[v] = "record" THEN 1 ELSE 0)
                          = sent'[v] + (IF InFlight(v)' THEN 1 ELSE 0)
      BY DEF SendsAccounted
    <3>1. CASE v # w
      BY <1>0, <1>t, <2>1, <3>1 DEF LoopsType, SendsAccounted, InFlight
    <3>2. CASE v = w /\ cookie[w] \in pending[w]
      BY <1>0, <1>t, <1>c, <2>1, <2>2, <3>2
         DEF LoopsType, SendsAccounted, InFlight
    <3>3. CASE v = w /\ cookie[w] \notin pending[w]
      <4>1. pending' = pending /\ recvPc'[w] = "poll"
        BY <1>t, <2>1, <2>2, <3>3 DEF LoopsType
      <4> QED
        BY <1>0, <1>t, <2>1, <3>3, <4>1 DEF SendsAccounted, InFlight
    <3> QED
      BY <3>1, <3>2, <3>3
  <2> QED
    BY <1>f, <1>s, <2>1, <2>3, <2>4, <2>5 DEF LoadInv
<1>3. CASE Record(w)
  <2>1. /\ recvPc[w] = "record" /\ recvPc' = [recvPc EXCEPT ![w] = "poll"]
        /\ recvCount' = recvCount + 1 /\ rtts' = [rtts EXCEPT ![w] = @ + 1]
        /\ UNCHANGED <<pending, cookie>>
    BY <1>3 DEF Record
  <2>2. LoopsType'
    BY <1>0, <1>t, <2>1 DEF LoopsType
  <2>3. CookieOrder'
    BY <1>0, <1>t, <2>1 DEF LoopsType, CookieOrder
  <2>4. SendsAccounted'
    BY <1>0, <1>t, <1>c, <2>1 DEF LoopsType, SendsAccounted, InFlight
  <2>5. SumsRight'
    <3>1. PICK s : PartialSums(s)
      BY DEF LoadInv, SumsRight
    <3> DEFINE r == [k \in 0 .. Workers |-> IF k > w THEN s[k] + 1 ELSE s[k]]
    <3>2. Workers \in Nat /\ w \in 0 .. Workers - 1
      BY LoadAssumption DEF Worker
    <3>3. /\ r \in [0 .. Workers -> Int] /\ r[0] = 0
          /\ r[Workers] = recvCount'
      BY <2>1, <3>1, <3>2 DEF PartialSums
    <3>4. ASSUME NEW k \in Worker PROVE r[k + 1] = r[k] + rtts'[k]
      <4>1. k \in Int /\ k \in 0 .. Workers /\ k + 1 \in 0 .. Workers
        BY <3>2, <3>4 DEF Worker
      <4>2. s[k + 1] = s[k] + rtts[k] /\ s[k] \in Int /\ rtts[k] \in Int
        <5> HIDE DEF r
        <5>1. s[k + 1] = s[k] + rtts[k]
          BY <3>1, <3>4 DEF PartialSums
        <5>2. s[k] \in Int
          BY <3>1, <4>1 DEF PartialSums
        <5>3. rtts[k] \in Int
          BY <1>t, <3>4 DEF LoopsType
        <5> QED
          BY <5>1, <5>2, <5>3
      <4>3. rtts'[k] = IF k = w THEN rtts[k] + 1 ELSE rtts[k]
        BY <1>t, <2>1, <3>4 DEF LoopsType
      <4>4. /\ r[k + 1] = IF k + 1 > w THEN s[k + 1] + 1 ELSE s[k + 1]
            /\ r[k] = IF k > w THEN s[k] + 1 ELSE s[k]
        BY <4>1
      <4> HIDE DEF r
      <4> QED
        BY <3>2, <4>1, <4>2, <4>3, <4>4
    <3>5. PartialSums(r)'
      <4> HIDE DEF r
      <4> QED
        BY <3>3, <3>4 DEF PartialSums
    <3> QED
      BY <1>0, <1>f, <3>5 DEF SumsRight, LoopFrame
  <2> QED
    BY <1>f, <1>s, <2>2, <2>3, <2>4, <2>5 DEF LoadInv
<1> QED
  BY <1>1, <1>2, <1>3 DEF Receiver

(* The steps of run, and time.                                             *)
LEMMA RunStep ==
  ASSUME LoadInv, Run \/ Tick \/ UNCHANGED vars PROVE LoadInv'
<1> USE DEF Stray
<1>0. /\ UNCHANGED <<counter, pending, sent, rtts, recvCount, written, cookie>>
      /\ UNCHANGED <<sendPc, recvPc>>
         \/ (pc = "dial" /\ pc' = "sending" /\ UNCHANGED stats
              /\ sendPc' = [w \in Worker |-> "pace"]
              /\ recvPc' = [w \in Worker |-> "poll"])
  BY DEF Run, Dial, DialFailed, StopSending, StopReceiving, Join, Sum, Report,
         Tick, vars, main, sending, receiving
<1>t. LoopsType' /\ CookieOrder' /\ SendsAccounted'
  <2>1. LoopsType'
    BY <1>0 DEF LoadInv, LoopsType
  <2>2. CookieOrder' /\ SendsAccounted'
    BY <1>0 DEF LoadInv, LoopsType, CookieOrder, SendsAccounted, InFlight, Joined
  <2> QED
    BY <2>1, <2>2
<1>p. PICK s : /\ PartialSums(s) /\ PartialSums(s)'
               /\ pc = "summing" => at \in 0 .. Workers /\ stats.rtts = s[at]
  BY <1>0, Zenon DEF LoadInv, SumsRight, PartialSums
<1>1. CASE /\ UNCHANGED stats /\ pc \notin {"summing", "returned"}
           /\ pc' \notin {"summing", "returned"}
           /\ pc' = "dial" => pc = "dial" /\ UNCHANGED <<sendPc, recvPc>>
  BY <1>t, <1>p, <1>1, SMTT(30)
  DEF LoadInv, StatsType, Joined, SumsRight, StatsRight, LossWithinSent
<1>2. CASE Join
  <2>1. /\ pc = "joining" /\ pc' = "summing" /\ at' = 0 /\ UNCHANGED stats
        /\ UNCHANGED <<sendPc, recvPc>>
        /\ \A w \in Worker : sendPc[w] = "returned" /\ recvPc[w] = "returned"
    BY <1>2 DEF Join, sending, receiving
  <2>2. stats = NoStats /\ stats.rtts = 0 /\ stats.sent = 0
    BY <2>1 DEF LoadInv, StatsRight, NoStats
  <2>3. SumsRight'
    <3>1. at' \in 0 .. Workers /\ s[at'] = 0 /\ stats'.rtts = 0
      BY <1>p, <2>1, <2>2, LoadAssumption DEF PartialSums
    <3> QED
      BY <1>p, <3>1, Zenon DEF SumsRight
  <2> QED
    BY <1>t, <2>1, <2>2, <2>3
       DEF LoadInv, StatsType, Joined, StatsRight, LossWithinSent
<1>3. CASE Sum
  <2>1. /\ pc = "summing" /\ pc' = pc /\ at < Workers /\ at' = at + 1
        /\ stats' = [stats EXCEPT !.sent = @ + sent[at], !.rtts = @ + rtts[at]]
        /\ UNCHANGED <<sendPc, recvPc>>
    BY <1>3 DEF Sum, sending, receiving
  <2>2. at \in Worker /\ at' \in 0 .. Workers
    BY <1>p, <2>1, LoadAssumption DEF Worker
  <2>3. /\ stats'.sent = stats.sent + sent[at]
        /\ stats'.rtts = stats.rtts + rtts[at] /\ DOMAIN stats' = DOMAIN stats
    BY <2>1 DEF LoadInv, StatsType
  <2>4. rtts[at] <= sent[at] /\ rtts[at] \in Nat /\ sent[at] \in Nat
    <3>1. Cardinality(pending[at]) \in Nat
      BY <2>2, PendingCount, Zenon DEF LoadInv, LoopsType
    <3>2. Cardinality(pending[at]) + rtts[at] + 0 = sent[at] + 0
      BY <2>1, <2>2 DEF LoadInv, Joined, SendsAccounted, InFlight
    <3>3. rtts[at] \in Nat /\ sent[at] \in Nat
      BY <2>2 DEF LoadInv, LoopsType
    <3> QED
      BY <3>1, <3>2, <3>3
  <2>5. StatsType'
    BY <2>3, <2>4 DEF LoadInv, StatsType
  <2>6. StatsRight'
    BY <2>1, <2>3, <2>4 DEF LoadInv, StatsRight, StatsType
  <2>7. SumsRight'
    BY <1>p, <2>1, <2>2, <2>3, Zenon DEF SumsRight, PartialSums
  <2> QED
    BY <1>t, <2>1, <2>5, <2>6, <2>7 DEF LoadInv, Joined, LossWithinSent
<1>4. CASE Report
  <2>1. /\ pc = "summing" /\ at = Workers /\ pc' = "returned"
        /\ stats' = [stats EXCEPT
             !.received = recvCount,
             !.lost = IF stats.sent > 0
                      THEN (stats.sent - recvCount) % WordSize ELSE 0]
        /\ UNCHANGED <<sendPc, recvPc>>
    BY <1>4 DEF Report, sending, receiving
  <2>2. /\ stats'.sent = stats.sent /\ stats'.rtts = stats.rtts
        /\ stats'.received = recvCount /\ DOMAIN stats' = DOMAIN stats
        /\ stats'.lost = IF stats.sent > 0
                         THEN (stats.sent - recvCount) % WordSize ELSE 0
    BY <2>1 DEF LoadInv, StatsType
  <2>3. recvCount = stats.rtts /\ recvCount <= stats.sent
    BY <1>p, <2>1 DEF PartialSums, LoadInv, StatsRight
  <2>4. recvCount \in Nat /\ stats.sent \in Nat
    BY DEF LoadInv, LoopsType, StatsType
  <2>5. stats.sent < WordSize => stats'.lost = stats.sent - recvCount
    <3> HAVE stats.sent < WordSize
    <3>1. CASE stats.sent = 0
      BY <2>2, <2>3, <2>4, <3>1
    <3>2. CASE stats.sent > 0
      <4> DEFINE d == stats.sent - recvCount
      <4>1. d \in 0 .. WordSize - 1 /\ WordSize \in Nat
        BY <2>3, <2>4, LoadAssumption
      <4> HIDE DEF d
      <4>2. d % WordSize = d
        BY <4>1
      <4> QED
        BY <2>2, <3>2, <4>2 DEF d
    <3> QED
      BY <2>4, <3>1, <3>2
  <2>6. StatsType' /\ StatsRight' /\ Joined'
    BY <2>1, <2>2 DEF LoadInv, StatsType, StatsRight, Joined
  <2>7. SumsRight'
    BY <1>p, <2>1 DEF SumsRight
  <2>8. LossWithinSent'
    BY <2>2, <2>3, <2>5 DEF LossWithinSent
  <2> QED
    BY <1>t, <2>6, <2>7, <2>8 DEF LoadInv
<1>5. CASE Tick \/ UNCHANGED vars
  <2>1. UNCHANGED <<pc, at, stats, sendPc, recvPc>>
    BY <1>5 DEF Tick, vars, main, sending, receiving
  <2> QED
    BY <1>0, <1>t, <1>p, <2>1
       DEF LoadInv, StatsType, Joined, SumsRight, StatsRight, LossWithinSent
<1>6. CASE Dial \/ DialFailed \/ StopSending \/ StopReceiving
  BY <1>1, <1>6
     DEF Dial, DialFailed, StopSending, StopReceiving, sending, receiving
<1> QED
  BY <1>2, <1>3, <1>4, <1>5, <1>6 DEF Run

LEMMA LoadInvariance == Spec => []LoadInv
<1>1. LoadInv /\ [Next]_vars => LoadInv'
  BY SenderStep, ReceiverStep, RunStep DEF Next, Ended
<1> QED
  BY <1>1, LoadInit, PTL DEF Spec

(* main.go:139-189: SendsAccounted, for any number of workers.             *)
THEOREM SendsAccountedAlways == Spec => []SendsAccounted
<1>1. LoadInv => SendsAccounted
  BY DEF LoadInv
<1> QED
  BY <1>1, LoadInvariance, PTL

(* main.go:271-307: LossWithinSent, run never reports more replies than    *)
(* requests, for any number of workers, rate and behaviour of the network. *)
THEOREM LossWithinSentAlways == Spec => []LossWithinSent
<1>1. LoadInv => LossWithinSent
  BY DEF LoadInv
<1> QED
  BY <1>1, LoadInvariance, PTL

(* main.go:312-324: NearestRank, for any number of round trips.            *)
THEOREM NearestRankAlways == Spec => []NearestRank
<1>1. LoadInv => NearestRank
  <2> SUFFICES ASSUME LoadInv, stats.rtts > 0, NEW p \in {50, 95, 99}
               PROVE  LET k == PercentileIndex(stats.rtts, p)
                      IN  /\ k \in 0 .. stats.rtts - 1
                          /\ p * stats.rtts <= (k + 1) * 100
                          /\ k * 100 < p * stats.rtts
    BY DEF NearestRank
  <2>1. stats.rtts \in Nat
    BY DEF LoadInv, StatsType
  <2> QED
    BY <2>1 DEF PercentileIndex
<1> QED
  BY <1>1, LoadInvariance, PTL
-----------------------------------------------------------------------------
(* The last send of the batch is due.                                      *)
PaceInv ==
  /\ clock \in Nat /\ interval \in Nat \ {0}
  /\ n \in [Worker -> Nat] /\ left \in [Worker -> Int]
  /\ sendPc \in [Worker -> {"none", "pace", "sleep", "send", "write", "count",
                            "undo", "returned"}]
  /\ \A w \in Worker : sendPc[w] \in {"send", "write", "count", "undo"} =>
       left[w] >= 1 /\ (n[w] + left[w] - 1) * interval <= clock

LEMMA ScaleUp ==
  ASSUME NEW a \in Int, NEW b \in Int, NEW i \in Nat, a <= b PROVE a * i <= b * i
<1>1. (b - a) * i >= 0
  OBVIOUS
<1>2. (b - a) * i = b * i - a * i
  OBVIOUS
<1>3. a * i \in Int /\ b * i \in Int
  OBVIOUS
<1> QED
  BY <1>1, <1>2, <1>3

(* A batch ends with a send that is due.                                   *)
LEMMA BatchDue ==
  ASSUME NEW k \in Nat, clock \in Nat, interval \in Nat \ {0}, k * interval <= clock
  PROVE  LET m == Batch(clock - k * interval)
         IN  m \in Int /\ m >= 1 /\ (k + m - 1) * interval <= clock
<1> DEFINE b == clock - k * interval
           q == b \div interval
           m == Batch(b)
<1>1. b \in Nat /\ k * interval \in Nat
  OBVIOUS
<1>2. q \in Nat /\ q * interval <= b
  <2> HIDE DEF b
  <2> QED
    BY <1>1
<1>3. m \in Int /\ m >= 1 /\ m - 1 <= q
  <2> HIDE DEF q, b
  <2> QED
    BY <1>2, LoadAssumption DEF Batch, q
<1> HIDE DEF m
<1>4. (m - 1) * interval <= q * interval
  <2> HIDE DEF q
  <2> QED
    BY <1>2, <1>3, ScaleUp
<1>5. (k + m - 1) * interval = k * interval + (m - 1) * interval
  BY <1>3
<1>6. (m - 1) * interval \in Int /\ q * interval \in Int
  BY <1>2, <1>3
<1>7. k * interval + b = clock
  BY <1>1
<1>8. (k + m - 1) * interval <= clock
  <2> DEFINE x == (m - 1) * interval
             y == q * interval
             z == k * interval
  <2>1. x \in Int /\ y \in Int /\ z \in Int /\ x <= y /\ y <= b /\ z + b = clock /\ b \in Int
    BY <1>1, <1>2, <1>4, <1>6, <1>7
  <2> HIDE DEF x, y, z, b
  <2>2. z + x <= clock
    BY <2>1
  <2> QED
    BY <2>2, <1>5 DEF x, z
<1> QED
  BY <1>3, <1>8 DEF m

LEMMA PaceStep == PaceInv /\ [Next]_vars => PaceInv'
<1> SUFFICES ASSUME PaceInv, [Next]_vars PROVE PaceInv'
  OBVIOUS
<1>1. ASSUME NEW w \in Worker, Pace(w) PROVE PaceInv'
  <2>1. /\ n' = n /\ clock' = clock /\ interval' = interval
        /\ \/ left' = left /\ \E q \in {"returned", "sleep"} :
                             sendPc' = [sendPc EXCEPT ![w] = q]
           \/ /\ clock >= Due(w) /\ sendPc' = [sendPc EXCEPT ![w] = "send"]
              /\ left' = [left EXCEPT ![w] = Batch(clock - Due(w))]
    BY <1>1 DEF Pace, time
  <2>2. CASE left' = left /\ \E q \in {"returned", "sleep"} :
                               sendPc' = [sendPc EXCEPT ![w] = q]
    BY <2>1, <2>2 DEF PaceInv
  <2>3. CASE clock >= Due(w) /\ left' = [left EXCEPT ![w] = Batch(clock - Due(w))]
             /\ sendPc' = [sendPc EXCEPT ![w] = "send"]
    <3> DEFINE m == Batch(clock - Due(w))
    <3>1. m \in Int /\ m >= 1 /\ (n[w] + m - 1) * interval <= clock
      <4>1. n[w] \in Nat /\ n[w] * interval \in Int /\ n[w] * interval <= clock
        BY <2>3 DEF Due, PaceInv
      <4> QED
        BY <4>1, BatchDue DEF Due, PaceInv
    <3> HIDE DEF m
    <3> QED
      BY <2>1, <2>3, <3>1 DEF PaceInv, m
  <2> QED
    BY <2>1, <2>2, <2>3
<1>2. ASSUME NEW w \in Worker, Wake(w) \/ Send(w) \/ Write(w) PROVE PaceInv'
  <2>1. /\ UNCHANGED <<n, left, clock, interval>>
        /\ \/ sendPc' = [sendPc EXCEPT ![w] = "pace"]
           \/ sendPc' = [sendPc EXCEPT ![w] = "returned"]
           \/ /\ sendPc[w] \in {"send", "write"}
              /\ \E q \in {"write", "count", "undo"} : sendPc' = [sendPc EXCEPT ![w] = q]
    BY <1>2 DEF Wake, Send, Write, time
  <2> QED
    BY <2>1 DEF PaceInv
<1>3. ASSUME NEW w \in Worker, Count(w) \/ Undo(w) PROVE PaceInv'
  <2>1. /\ UNCHANGED <<clock, interval>> /\ sendPc[w] \in {"count", "undo"}
        /\ sendPc' = [sendPc EXCEPT ![w] = IF left[w] > 1 THEN "send" ELSE "pace"]
        /\ n' = [n EXCEPT ![w] = @ + 1] /\ left' = [left EXCEPT ![w] = @ - 1]
    BY <1>3 DEF Count, Undo, SendDone, time
  <2>2. n[w] \in Nat /\ left[w] \in Int /\ (n[w] + left[w] - 1) * interval <= clock
    BY <2>1 DEF PaceInv
  <2>3. (n[w] + 1) + (left[w] - 1) - 1 = n[w] + left[w] - 1
    BY <2>2
  <2>4. n'[w] + left'[w] - 1 = n[w] + left[w] - 1
    BY <2>1, <2>3 DEF PaceInv
  <2>5. n' \in [Worker -> Nat] /\ left' \in [Worker -> Int]
    BY <2>1 DEF PaceInv
  <2>6. ASSUME NEW v \in Worker, sendPc'[v] \in {"send", "write", "count", "undo"}
        PROVE  left'[v] >= 1 /\ (n'[v] + left'[v] - 1) * interval <= clock
    <3>1. CASE v = w
      <4>1. left[w] > 1 /\ left'[w] = left[w] - 1
        BY <2>1, <2>6, <3>1 DEF PaceInv
      <4> QED
        BY <2>2, <2>4, <3>1, <4>1
    <3>2. CASE v # w
      BY <2>1, <2>6, <3>2 DEF PaceInv
    <3> QED
      BY <3>1, <3>2
  <2> QED
    BY <2>1, <2>5, <2>6, SMTT(30) DEF PaceInv
<1>4. ASSUME UNCHANGED <<sendPc, n, left>> \/ sendPc' = [w \in Worker |-> "pace"],
             UNCHANGED <<n, left, interval>>, clock' \in {clock, clock + 1}
      PROVE  PaceInv'
  <2>1. clock' \in Nat /\ clock <= clock'
    BY <1>4 DEF PaceInv
  <2>2. CASE sendPc' = [w \in Worker |-> "pace"]
    BY <1>4, <2>1, <2>2 DEF PaceInv
  <2>3. CASE UNCHANGED <<sendPc, n, left>>
    <3>1. ASSUME NEW w \in Worker, (n[w] + left[w] - 1) * interval <= clock
          PROVE  (n[w] + left[w] - 1) * interval <= clock'
      <4> DEFINE x == (n[w] + left[w] - 1) * interval
      <4>1. x \in Int
        BY DEF PaceInv
      <4> HIDE DEF x
      <4>2. x <= clock'
        BY <2>1, <3>1, <4>1 DEF PaceInv, x
      <4> QED
        BY <4>2 DEF x
    <3> QED
      BY <1>4, <2>1, <2>3, <3>1 DEF PaceInv
  <2> QED
    BY <1>4, <2>2, <2>3
<1>5. ASSUME NEW w \in Worker, Receiver(w) PROVE PaceInv'
  <2>1. UNCHANGED <<sendPc, n, left, interval, clock>>
    BY <1>5 DEF Receiver, Poll, ReadTimeout, Read, Match, Record, sending, time
  <2> QED
    BY <1>4, <2>1
<1>6. CASE Run \/ Tick \/ Ended \/ UNCHANGED vars
  <2>1. /\ UNCHANGED <<sendPc, n, left>> \/ sendPc' = [w \in Worker |-> "pace"]
        /\ UNCHANGED <<n, left, interval>> /\ clock' \in {clock, clock + 1}
    BY <1>6 DEF Run, Dial, DialFailed, StopSending, StopReceiving, Join, Sum,
                Report, Tick, Ended, vars, sending, time
  <2> QED
    BY <1>4, <2>1
<1> QED
  BY <1>1, <1>2, <1>3, <1>5, <1>6 DEF Next, Sender

(* main.go:99-133: NeverAhead, for any rate, stall and cap on the batch.   *)
THEOREM NeverAheadAlways == Spec => []NeverAhead
<1>1. Init => PaceInv
  BY LoadAssumption DEF Init, PaceInv, Zero
<1>2. PaceInv => NeverAhead
  <2> SUFFICES ASSUME PaceInv, NEW w \in Worker, InFlight(w)
               PROVE  Due(w) <= clock
    BY DEF NeverAhead
  <2>1. /\ n[w] \in Nat /\ left[w] \in Int /\ left[w] >= 1 /\ interval \in Nat
        /\ clock \in Nat /\ (n[w] + left[w] - 1) * interval <= clock
    BY DEF PaceInv, InFlight
  <2>2. n[w] * interval <= (n[w] + left[w] - 1) * interval
    BY <2>1, ScaleUp
  <2>3. n[w] * interval \in Int /\ (n[w] + left[w] - 1) * interval \in Int
    BY <2>1
  <2> QED
    BY <2>1, <2>2, <2>3 DEF Due
<1> QED
  BY <1>1, <1>2, PaceStep, PTL DEF Spec

(* What a socket may be, by where run is: dialled up to at, all open while *)
(* the loops may run, none open once run has ended. A run that ended in an *)
(* error has started no loop.                                              *)
SocketInv ==
  /\ conn \in [Worker -> {"none", "open", "closed"}] /\ at \in Nat
  /\ pc \in {"dial", "sending", "draining", "joining", "summing", "returned",
             "error"}
  /\ pc = "dial" =>
       /\ at < Workers
       /\ \A w \in Worker : conn[w] = IF w < at THEN "open" ELSE "none"
  /\ pc \in {"sending", "draining", "joining", "summing"} =>
       \A w \in Worker : conn[w] = "open"
  /\ pc \in {"returned", "error"} => \A w \in Worker : conn[w] # "open"
  /\ pc = "error" =>
       \A w \in Worker : sendPc[w] = "none" /\ recvPc[w] = "none"

LEMMA SocketInit == Init => SocketInv
BY LoadAssumption DEF Init, SocketInv, Worker

LEMMA SocketStep == LoadInv /\ SocketInv /\ [Next]_vars => SocketInv'
<1> SUFFICES ASSUME LoadInv, SocketInv, [Next]_vars PROVE SocketInv'
  OBVIOUS
<1> USE LoadAssumption
<1>j. Joined
  BY DEF LoadInv
<1>1. ASSUME NEW w \in Worker, Sender(w) \/ Receiver(w) PROVE SocketInv'
  <2>1. UNCHANGED <<pc, at, conn>>
    <3>1. CASE Sender(w)
      BY <3>1, ZenonT(30) DEF Sender, Pace, Wake, Send, Write, Count, Undo, SendDone, main
    <3>2. CASE Receiver(w)
      BY <3>2, ZenonT(30) DEF Receiver, Poll, ReadTimeout, Read, Match, Record, main
    <3> QED
      BY <1>1, <3>1, <3>2, Zenon
  <2>2. sendPc[w] # "none" \/ recvPc[w] # "none"
    BY <1>1 DEF Sender, Pace, Wake, Send, Write, Count, Undo, Receiver, Poll,
       ReadTimeout, Read, Match, Record
  <2>3. pc # "error"
    BY <2>2 DEF SocketInv
  <2> QED
    BY <2>1, <2>3, SMTT(30) DEF SocketInv
<1>2. ASSUME Dial PROVE SocketInv'
  <2>1. /\ pc = "dial" /\ at \in Worker /\ at' = at + 1
        /\ conn' = [conn EXCEPT ![at] = "open"]
        /\ IF at' < Workers THEN pc' = "dial" ELSE pc' = "sending"
    BY <1>2 DEF Dial, SocketInv, Worker
  <2>2. \A w \in Worker : conn'[w] = IF w < at' THEN "open" ELSE "none"
    BY <2>1 DEF SocketInv, Worker
  <2>3. conn' \in [Worker -> {"none", "open", "closed"}] /\ at' \in Nat
    BY <2>1 DEF SocketInv
  <2>4. at' >= Workers => \A w \in Worker : w < at'
    BY <2>3 DEF Worker
  <2> QED
    BY <2>1, <2>2, <2>3, <2>4 DEF SocketInv
<1>3. ASSUME DialFailed PROVE SocketInv'
  <2>1. pc = "dial" /\ pc' = "error" /\ UNCHANGED <<at, sendPc, recvPc>>
    BY <1>3 DEF DialFailed, sending, receiving
  <2>2. conn' = [w \in Worker |-> IF w < at THEN "closed" ELSE conn[w]]
    BY <1>3 DEF DialFailed
  <2>3. \A w \in Worker : conn'[w] # "open"
    BY <2>1, <2>2 DEF SocketInv
  <2>4. conn' \in [Worker -> {"none", "open", "closed"}]
    BY <2>2 DEF SocketInv
  <2> QED
    BY <1>j, <2>1, <2>3, <2>4 DEF SocketInv, Joined
<1>4. ASSUME StopSending \/ StopReceiving \/ Join \/ Sum PROVE SocketInv'
  <2>1. /\ pc \in {"sending", "draining", "joining", "summing"}
        /\ pc' \in {"draining", "joining", "summing"}
        /\ UNCHANGED conn /\ at' \in {0, at, at + 1}
    BY <1>4 DEF StopSending, StopReceiving, Join, Sum
  <2> QED
    BY <2>1 DEF SocketInv
<1>5. ASSUME Report PROVE SocketInv'
  BY <1>5 DEF Report, SocketInv, AllClosed
<1>6. ASSUME Tick \/ UNCHANGED vars PROVE SocketInv'
  BY <1>6 DEF Tick, vars, main, sending, receiving, SocketInv
<1> QED
  BY <1>1, <1>2, <1>3, <1>4, <1>5, <1>6 DEF Next, Run, Ended

(* main.go:219-234: a loop only uses an open socket, and run leaves none   *)
(* open, whichever dial fails and in whatever order the loops end.         *)
THEOREM SocketsHeldAlways == Spec => []SocketsHeld
<1>1. LoadInv /\ SocketInv => SocketsHeld
  BY DEF LoadInv, Joined, SocketInv, SocketsHeld
<1> QED
  BY <1>1, SocketInit, SocketStep, LoadInvariance, PTL DEF Spec
=============================================================================
