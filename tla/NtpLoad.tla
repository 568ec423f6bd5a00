------------------------------ MODULE NtpLoad ------------------------------
(***************************************************************************)
(* The load generator (scripts/ntp-load/main.go): run dials one socket per *)
(* worker, starts a sendLoop and a recvLoop on each, closes stop after     *)
(* Duration and done after Timeout more, waits for the loops and sums up.  *)
(* The network loses, reorders and duplicates replies and delivers strays. *)
(*                                                                         *)
(* Time is counted in ticks from start. A cookie is its worker's counter:  *)
(* a worker matches replies against its own pending map only. rtts is the  *)
(* number of round trips kept, their values are left out.                  *)
(*                                                                         *)
(* An operator that nothing uses is a faulty variant of the definition     *)
(* after it: the mutation of the code that a property has to notice.       *)
(***************************************************************************)
EXTENDS Integers, FiniteSets

CONSTANTS
  Workers,             (* cfg.Workers                                       *)
  Intervals,           (* send intervals per worker that -rate may ask for  *)
  SleepFloor,          (* batchSleepFloor                                   *)
  MaxBatch,            (* maxBatch: 64 in the code                          *)
  Duration, Timeout,   (* cfg.Duration, cfg.Timeout                         *)
  WordSize,            (* 2^64 in the code                                  *)
  MaxLag,              (* bound on how late run closes stop                 *)
  MaxExtra             (* bound on duplicated and stray replies             *)

ASSUME LoadAssumption ==
  /\ Workers \in Nat \ {0} /\ Intervals \subseteq Nat \ {0}
  /\ SleepFloor \in Nat /\ MaxBatch \in Nat \ {0} /\ WordSize \in Nat
  /\ Duration \in Nat /\ Timeout \in Nat /\ MaxLag \in Nat /\ MaxExtra \in Nat

Worker == 0 .. Workers - 1
Stray == 0        (* a reply that echoes no cookie, or is too short         *)

VARIABLES
  pc, at, until,  (* where run is, the worker its loop is at, and the time  *)
                  (* it sleeps until                                        *)
  stop, done,     (* the channels are closed                                *)
  clock, interval,
  conn,           (* the sockets: "none", "open" or "closed"                *)
  sendPc, n, left,   (* sendLoop: where it is, sends so far, left in batch  *)
  recvPc, cookie,    (* recvLoop: where it is, the cookie of the reply      *)
  counter, pending, sent, rtts,
  recvCount,
  written,        (* cookies of the requests that left                      *)
  heard, extra,   (* cookies a reply came for; duplicates and strays so far *)
  stats           (* what run returns                                       *)

main == <<pc, at, until, stop, done, conn, stats>>
sending == <<sendPc, n, left, counter, sent, written>>
receiving == <<recvPc, cookie, rtts, recvCount, heard, extra>>
time == <<clock, interval>>
vars == <<main, sending, receiving, pending, time>>

Zero == [w \in Worker |-> 0]
Nothing == [w \in Worker |-> {}]
NoStats == [sent |-> 0, received |-> 0, lost |-> 0, rtts |-> 0]

Init ==
  /\ pc = "dial" /\ at = 0 /\ until = Duration /\ stop = FALSE /\ done = FALSE
  /\ clock = 0 /\ interval \in Intervals
  /\ conn = [w \in Worker |-> "none"]
  /\ sendPc = [w \in Worker |-> "none"] /\ n = Zero /\ left = Zero
  /\ recvPc = [w \in Worker |-> "none"] /\ cookie = [w \in Worker |-> Stray]
  /\ counter = Zero /\ sent = Zero /\ rtts = Zero /\ recvCount = 0
  /\ pending = Nothing /\ written = Nothing /\ heard = Nothing /\ extra = 0
  /\ stats = NoStats
-----------------------------------------------------------------------------
(* sendLoop                                                                *)

BatchAhead(behind) ==
  IF interval >= SleepFloor THEN 1
  ELSE IF behind \div interval + 2 > MaxBatch THEN MaxBatch
  ELSE behind \div interval + 2

(* How many sends are due when the first of them is behind ticks late.     *)
Batch(behind) ==
  IF interval >= SleepFloor THEN 1
  ELSE IF behind \div interval + 1 > MaxBatch THEN MaxBatch
  ELSE behind \div interval + 1

Due(w) == n[w] * interval

(* The top of the loop: return, sleep until the next send is due, or start *)
(* a batch. Too short a wait is not slept but spun away: no step.          *)
Pace(w) ==
  /\ sendPc[w] = "pace"
  /\ \/ stop /\ sendPc' = [sendPc EXCEPT ![w] = "returned"] /\ UNCHANGED left
     \/ /\ ~ stop /\ clock < Due(w) /\ interval >= SleepFloor
        /\ sendPc' = [sendPc EXCEPT ![w] = "sleep"] /\ UNCHANGED left
     \/ /\ ~ stop /\ clock >= Due(w)
        /\ sendPc' = [sendPc EXCEPT ![w] = "send"]
        /\ left' = [left EXCEPT ![w] = Batch(clock - Due(w))]
  /\ UNCHANGED <<main, time, receiving, n, counter, sent, written, pending>>

Wake(w) ==
  /\ sendPc[w] = "sleep" /\ clock >= Due(w)
  /\ sendPc' = [sendPc EXCEPT ![w] = "pace"]
  /\ UNCHANGED <<main, time, receiving, n, left, counter, sent, written, pending>>

(* The top of the batch: return, or enter the next cookie into pending.    *)
Send(w) ==
  /\ sendPc[w] = "send"
  /\ IF stop
     THEN /\ sendPc' = [sendPc EXCEPT ![w] = "returned"]
          /\ UNCHANGED <<counter, pending>>
     ELSE /\ sendPc' = [sendPc EXCEPT ![w] = "write"]
          /\ counter' = [counter EXCEPT ![w] = @ + 1]
          /\ pending' = [pending EXCEPT ![w] = @ \union {counter[w] + 1}]
  /\ UNCHANGED <<main, time, receiving, n, left, sent, written>>

(* conn.Write                                                              *)
Write(w) ==
  /\ sendPc[w] = "write"
  /\ \/ /\ sendPc' = [sendPc EXCEPT ![w] = "count"]
        /\ written' = [written EXCEPT ![w] = @ \union {counter[w]}]
     \/ /\ sendPc' = [sendPc EXCEPT ![w] = "undo"]
        /\ UNCHANGED written
  /\ UNCHANGED <<main, time, receiving, n, left, counter, sent, pending>>

(* The end of the batch's loop body: n++.                                  *)
SendDone(w) ==
  /\ sendPc' = [sendPc EXCEPT ![w] = IF left[w] > 1 THEN "send" ELSE "pace"]
  /\ n' = [n EXCEPT ![w] = @ + 1] /\ left' = [left EXCEPT ![w] = @ - 1]

Count(w) ==
  /\ sendPc[w] = "count"
  /\ sent' = [sent EXCEPT ![w] = @ + 1]
  /\ SendDone(w)
  /\ UNCHANGED <<main, time, receiving, counter, written, pending>>

(* The send failed: the cookie leaves pending.                             *)
Undo(w) ==
  /\ sendPc[w] = "undo"
  /\ pending' = [pending EXCEPT ![w] = @ \ {counter[w]}]
  /\ SendDone(w)
  /\ UNCHANGED <<main, time, receiving, counter, sent, written>>
-----------------------------------------------------------------------------
(* recvLoop                                                                *)

PollDrains(w) ==
  /\ recvPc[w] = "poll"
  /\ recvPc' = [recvPc EXCEPT ![w] =
                 IF done /\ pending[w] = {} THEN "returned" ELSE "read"]
  /\ UNCHANGED <<main, time, sending, pending, cookie, rtts, recvCount, heard,
                 extra>>

(* The top of the loop.                                                    *)
Poll(w) ==
  /\ recvPc[w] = "poll"
  /\ recvPc' = [recvPc EXCEPT ![w] = IF done THEN "returned" ELSE "read"]
  /\ UNCHANGED <<main, time, sending, pending, cookie, rtts, recvCount, heard,
                 extra>>

(* conn.Read: the 200 ms go by without a reply.                            *)
ReadTimeout(w) ==
  /\ recvPc[w] = "read"
  /\ recvPc' = [recvPc EXCEPT ![w] = "poll"]
  /\ UNCHANGED <<main, time, sending, pending, cookie, rtts, recvCount, heard,
                 extra>>

(* conn.Read: the reply to any request that left, again perhaps, or a      *)
(* stray one.                                                              *)
Read(w) ==
  /\ recvPc[w] = "read"
  /\ recvPc' = [recvPc EXCEPT ![w] = "match"]
  /\ \E c \in written[w] \union {Stray} :
       /\ cookie' = [cookie EXCEPT ![w] = c]
       /\ IF c \in written[w] \ heard[w]
          THEN heard' = [heard EXCEPT ![w] = @ \union {c}] /\ UNCHANGED extra
          ELSE extra < MaxExtra /\ extra' = extra + 1 /\ UNCHANGED heard
  /\ UNCHANGED <<main, time, sending, pending, rtts, recvCount>>

MatchKeepsPending(w) ==
  /\ recvPc[w] = "match"
  /\ recvPc' = [recvPc EXCEPT ![w] =
                 IF cookie[w] \in pending[w] THEN "record" ELSE "poll"]
  /\ UNCHANGED <<main, time, sending, pending, cookie, rtts, recvCount, heard,
                 extra>>

(* The section on mu: a cookie that is pending is taken out.               *)
Match(w) ==
  /\ recvPc[w] = "match"
  /\ recvPc' = [recvPc EXCEPT ![w] =
                 IF cookie[w] \in pending[w] THEN "record" ELSE "poll"]
  /\ pending' = [pending EXCEPT ![w] = @ \ {cookie[w]}]
  /\ UNCHANGED <<main, time, sending, cookie, rtts, recvCount, heard, extra>>

(* recvCount.Add(1) and the append to rtts, which only run reads later.    *)
Record(w) ==
  /\ recvPc[w] = "record"
  /\ recvCount' = recvCount + 1
  /\ rtts' = [rtts EXCEPT ![w] = @ + 1]
  /\ recvPc' = [recvPc EXCEPT ![w] = "poll"]
  /\ UNCHANGED <<main, time, sending, pending, cookie, heard, extra>>
-----------------------------------------------------------------------------
(* run                                                                     *)

(* The deferred Close of every socket.                                     *)
AllClosed == [w \in Worker |-> "closed"]

DialFailedLeaks ==
  /\ pc = "dial" /\ pc' = "error"
  /\ UNCHANGED <<at, until, stop, done, stats, conn, sending, receiving,
                 pending, time>>

(* A socket cannot be had: those before it are closed.                     *)
DialFailed ==
  /\ pc = "dial" /\ pc' = "error"
  /\ conn' = [w \in Worker |-> IF w < at THEN "closed" ELSE conn[w]]
  /\ UNCHANGED <<at, until, stop, done, stats, sending, receiving, pending,
                 time>>

(* A socket is dialled; after the last one the loops start.                *)
Dial ==
  /\ pc = "dial" /\ at' = at + 1
  /\ conn' = [conn EXCEPT ![at] = "open"]
  /\ IF at' < Workers
     THEN UNCHANGED <<pc, sendPc, recvPc>>
     ELSE /\ pc' = "sending"
          /\ sendPc' = [w \in Worker |-> "pace"]
          /\ recvPc' = [w \in Worker |-> "poll"]
  /\ UNCHANGED <<until, stop, done, stats, n, left, counter, sent, written,
                 cookie, rtts, recvCount, heard, extra, pending, time>>

(* close(stop)                                                             *)
StopSending ==
  /\ pc = "sending" /\ clock >= until
  /\ pc' = "draining" /\ stop' = TRUE /\ until' = clock + Timeout
  /\ UNCHANGED <<at, done, conn, stats, sending, receiving, pending, time>>

(* close(done)                                                             *)
StopReceiving ==
  /\ pc = "draining" /\ clock >= until
  /\ pc' = "joining" /\ done' = TRUE
  /\ UNCHANGED <<at, until, stop, conn, stats, sending, receiving, pending,
                 time>>

JoinReceivers ==
  /\ pc = "joining" /\ \A w \in Worker : recvPc[w] = "returned"
  /\ pc' = "summing" /\ at' = 0
  /\ UNCHANGED <<until, stop, done, conn, stats, sending, receiving, pending,
                 time>>

(* wg.Wait                                                                 *)
Join ==
  /\ pc = "joining"
  /\ \A w \in Worker : sendPc[w] = "returned" /\ recvPc[w] = "returned"
  /\ pc' = "summing" /\ at' = 0
  /\ UNCHANGED <<until, stop, done, conn, stats, sending, receiving, pending,
                 time>>

(* The loop over the workers' counters.                                    *)
Sum ==
  /\ pc = "summing" /\ at < Workers /\ at' = at + 1
  /\ stats' = [stats EXCEPT !.sent = @ + sent[at], !.rtts = @ + rtts[at]]
  /\ UNCHANGED <<pc, until, stop, done, conn, sending, receiving, pending,
                 time>>

(* The end of run: unsigned subtraction, and the sockets are closed.       *)
Report ==
  /\ pc = "summing" /\ at = Workers /\ pc' = "returned"
  /\ stats' = [stats EXCEPT
       !.received = recvCount,
       !.lost = IF stats.sent > 0 THEN (stats.sent - recvCount) % WordSize ELSE 0]
  /\ conn' = AllClosed
  /\ UNCHANGED <<at, until, stop, done, sending, receiving, pending, time>>

(* Time passes: while requests are due, and as long as somebody sleeps.    *)
Tick ==
  /\ \/ pc = "sending" /\ clock < Duration + MaxLag
     \/ pc = "draining" /\ clock < until
     \/ stop /\ \E w \in Worker : sendPc[w] = "sleep" /\ clock < Due(w)
  /\ clock' = clock + 1
  /\ UNCHANGED <<main, sending, receiving, pending, interval>>

Sender(w) == Pace(w) \/ Wake(w) \/ Send(w) \/ Write(w) \/ Count(w) \/ Undo(w)
Receiver(w) == Poll(w) \/ ReadTimeout(w) \/ Read(w) \/ Match(w) \/ Record(w)
Run ==
  \/ Dial \/ DialFailed \/ StopSending \/ StopReceiving \/ Join \/ Sum
  \/ Report

Ended == pc \in {"returned", "error"} /\ UNCHANGED vars

Next == Run \/ Tick \/ (\E w \in Worker : Sender(w) \/ Receiver(w)) \/ Ended

Fairness ==
  /\ WF_vars(Run) /\ WF_vars(Tick)
  /\ \A w \in Worker : WF_vars(Sender(w)) /\ WF_vars(Receiver(w))

Spec == Init /\ [][Next]_vars /\ Fairness
-----------------------------------------------------------------------------
(* percentile: the index into the len > 0 sorted round trips for p in 100. *)
PercentileIndex(len, p) ==
  LET idx == (p * len + 99) \div 100 - 1
  IN  IF idx < 0 THEN 0 ELSE IF idx >= len THEN len - 1 ELSE idx
-----------------------------------------------------------------------------
InFlight(w) == sendPc[w] \in {"write", "count", "undo"}

(* main.go:139-189. No request is counted and then forgotten, and no reply *)
(* is counted twice: each request sent is still pending or has one round   *)
(* trip, with lost, late, duplicated and stray replies, failed writes and  *)
(* a reply that is matched before its request is counted.                  *)
SendsAccounted ==
  \A w \in Worker :
    Cardinality(pending[w]) + rtts[w] + (IF recvPc[w] = "record" THEN 1 ELSE 0)
      = sent[w] + (IF InFlight(w) THEN 1 ELSE 0)

(* main.go:271-307. When run returns it has not received more than it has  *)
(* sent: the unsigned sent - received does not wrap around, and there is   *)
(* a round trip for every reply counted.                                   *)
LossWithinSent ==
  pc = "returned" =>
    /\ stats.received <= stats.sent /\ stats.rtts = stats.received
    /\ stats.sent < WordSize => stats.lost = stats.sent - stats.received

(* main.go:99-104, 114-133. Request n never leaves before start + n *      *)
(* interval: catching up after a stall sends what is due and no more.      *)
NeverAhead == \A w \in Worker : InFlight(w) => Due(w) <= clock

(* main.go:219-234. A loop only uses a socket that is open, and run leaves *)
(* no socket open, whichever dial fails.                                   *)
SocketsHeld ==
  /\ \A w \in Worker : {sendPc[w], recvPc[w]} \subseteq {"none", "returned"}
                         \/ conn[w] = "open"
  /\ pc \in {"returned", "error"} => \A w \in Worker : conn[w] # "open"

(* main.go:312-324. The index is the nearest rank: at least p percent of   *)
(* the round trips are not above it, and fewer are not above the one       *)
(* before it.                                                              *)
NearestRank ==
  pc = "returned" /\ stats.rtts > 0 =>
    \A p \in {50, 95, 99} :
      LET k == PercentileIndex(stats.rtts, p)
      IN  /\ k \in 0 .. stats.rtts - 1
          /\ p * stats.rtts <= (k + 1) * 100 /\ k * 100 < p * stats.rtts

(* main.go:265-271. run returns: every loop sees its channel closed, a     *)
(* sender that sleeps as well as a receiver that waits for a reply.        *)
RunReturns == <>(pc \in {"returned", "error"})
=============================================================================
