------------------------------- MODULE Capture -------------------------------
(***************************************************************************)
(* The life of the capture sockets: capture/manager.go (Open, RunWorker,   *)
(* reopenWorker, Run, Close, KernelDrops) under cmd/exporter/main.go       *)
(* (runCapture, flushForever, the signal goroutine, main's poll loop).     *)
(*                                                                         *)
(* A socket is a number, given out in the order of creation. Frames are    *)
(* left out: what HandleFrame does with one is module Collector.           *)
(*                                                                         *)
(* An operator that nothing uses is a faulty variant of the definition     *)
(* after it: the mutation of the code that a property has to notice.       *)
(***************************************************************************)
EXTENDS Integers, Sequences, FiniteSets, FiniteSums

CONSTANTS
  NumWorkers, loopErrReopenAfter, loopErrBackoffMin, loopErrBackoffMax,
  None,                    (* no socket                                     *)
  MaxSockets, MaxDrops     (* bounds on sockets created and frames dropped  *)

Worker == 1 .. NumWorkers
Socket == 1 .. MaxSockets

ASSUME CaptureAssumption ==
  /\ NumWorkers \in Nat \ {0} /\ loopErrReopenAfter \in Nat \ {0}
  /\ loopErrBackoffMin \in Nat \ {0} /\ loopErrBackoffMax \in Nat
  /\ loopErrBackoffMin <= loopErrBackoffMax
  /\ MaxSockets \in Nat /\ MaxDrops \in Nat /\ None \notin Socket

VARIABLES
  stop,       (* the channel stop is closed                                 *)
  signals,    (* signals delivered to sigCh and not yet received            *)
  main,       (* "starting" or "polling"                                    *)
  rc,         (* record: runCapture's program counter, Open's local sockets *)
  sockets,    (* m.sockets; <<>> before Open assigns it                     *)
  running, done,   (* Run's countdown and channel                           *)
  wk,         (* [Worker -> record]: RunWorker's program counter and locals *)
  currentMgr, (* the atomic pointer is not nil                              *)
  flush,      (* flushForever's program counter                             *)
  scrape,     (* the gauge ntp_clients_scrape_success                       *)
  state,      (* [Socket -> "new", "open" or "closed"]                      *)
  tally,      (* [Socket -> Nat]: tp_drops                                  *)
  misuse      (* history: what must not be done to a socket or a channel    *)

vars == <<stop, signals, main, rc, sockets, running, done, wk, currentMgr,
          flush, scrape, state, tally, misuse>>

process == <<stop, signals, main>>
kernel  == <<state, tally, misuse>>
runners == <<running, done>>
-----------------------------------------------------------------------------
(* Sockets (package afpacket).                                             *)
Fresh == {s \in Socket : state[s] = "new" /\ \A r \in 1 .. s - 1 : state[r] # "new"}

(* newSocket succeeds; or it fails, at once or after NewTPacket, and then  *)
(* closes tp: the sockets it created and closed.                           *)
Opens(s) == state' = [state EXCEPT ![s] = "open"] /\ UNCHANGED <<tally, misuse>>

Failed == {{}} \union {{s} : s \in Fresh}

(* Close each socket of S.                                                 *)
Closes(S) ==
  /\ state' = [s \in Socket |-> IF s \in S THEN "closed" ELSE state[s]]
  /\ misuse' = misuse \union {"closed twice" : s \in {t \in S : state[t] = "closed"}}
  /\ UNCHANGED tally

Elems(seq) == {seq[i] : i \in DOMAIN seq}

Init ==
  /\ stop = FALSE /\ signals = 0 /\ main = "starting"
  /\ rc = [pc |-> "start", opened |-> <<>>]
  /\ sockets = <<>>
  /\ running = 0 /\ done = FALSE
  /\ wk = [i \in Worker |-> [pc |-> "none", sock |-> None, next |-> None, errs |-> 0,
                             backoff |-> loopErrBackoffMin]]
  /\ currentMgr = FALSE
  /\ flush = "none"
  /\ scrape = 0
  /\ state = [s \in Socket |-> "new"] /\ tally = [s \in Socket |-> 0]
  /\ misuse = {}
-----------------------------------------------------------------------------
(* The process.                                                            *)

(* SIGINT or SIGTERM arrives; sigCh has room for one.                      *)
Signal ==
  /\ signals = 0 /\ ~stop
  /\ signals' = 1
  /\ UNCHANGED <<stop, main, rc, sockets, runners, wk, currentMgr, flush, scrape, kernel>>

(* The signal goroutine.                                                   *)
CloseStop ==
  /\ signals = 1 /\ ~stop
  /\ stop' = TRUE /\ signals' = 0
  /\ UNCHANGED <<main, rc, sockets, runners, wk, currentMgr, flush, scrape, kernel>>

(* main starts runCapture, unless capture is disabled, and flushForever,   *)
(* then polls for ever.                                                    *)
Start ==
  /\ main = "starting"
  /\ main' = "polling"
  /\ \E pc \in {"check", "returned"} : rc' = [rc EXCEPT !.pc = pc]
  /\ flush' = "wait"
  /\ UNCHANGED <<stop, signals, sockets, runners, wk, currentMgr, scrape, kernel>>

(* poller.RunForever: PollOnce, Sleep, again.                              *)
RunForever == main = "polling" /\ UNCHANGED vars
-----------------------------------------------------------------------------
(* runCapture, with Manager.Open, Run and Close.                           *)
CheckStop ==
  /\ rc.pc = "check"
  /\ rc' = [pc |-> IF stop THEN "returned" ELSE "open", opened |-> <<>>]
  /\ UNCHANGED <<process, sockets, runners, wk, currentMgr, flush, scrape, kernel>>

OpenSocket ==
  /\ rc.pc = "open" /\ Len(rc.opened) < NumWorkers
  /\ \E s \in Fresh :
       /\ Opens(s)
       /\ rc' = [rc EXCEPT !.opened = Append(@, s)]
  /\ UNCHANGED <<process, sockets, runners, wk, currentMgr, flush, scrape>>

NothingToClose == {}

(* What the loop of Open closes before it returns the error.               *)
OpenedSoFar == Elems(rc.opened)

(* newSocket fails in the loop of Open; runCapture backs off for 30s.      *)
OpenFails ==
  /\ rc.pc = "open" /\ Len(rc.opened) < NumWorkers
  /\ \E tp \in Failed : Closes(OpenedSoFar \union tp)
  /\ scrape' = 0
  /\ rc' = [pc |-> "backoff", opened |-> <<>>]
  /\ UNCHANGED <<process, sockets, runners, wk, currentMgr, flush>>

(* metrics.NtpClientsScrapeSuccess.Set(1)                                  *)
GaugeWhenOpen == 1

Opened ==
  /\ rc.pc = "open" /\ Len(rc.opened) = NumWorkers
  /\ sockets' = rc.opened
  /\ scrape' = GaugeWhenOpen
  /\ rc' = [pc |-> "store", opened |-> <<>>]
  /\ UNCHANGED <<process, runners, wk, currentMgr, flush, kernel>>

(* select on stop and time.After(30 * time.Second)                         *)
Backoff ==
  /\ rc.pc = "backoff"
  /\ \/ stop /\ rc' = [rc EXCEPT !.pc = "returned"]
     \/ rc' = [rc EXCEPT !.pc = "check"]
  /\ UNCHANGED <<process, sockets, runners, wk, currentMgr, flush, scrape, kernel>>

StoreManager ==
  /\ rc.pc = "store"
  /\ currentMgr' = TRUE
  /\ rc' = [rc EXCEPT !.pc = "run"]
  /\ UNCHANGED <<process, sockets, runners, wk, flush, scrape, kernel>>

Run ==
  /\ rc.pc = "run"
  /\ running' = Len(sockets)
  /\ wk' = [i \in Worker |-> [wk[i] EXCEPT !.pc = "start"]]
  /\ rc' = [rc EXCEPT !.pc = "join"]
  /\ UNCHANGED <<process, sockets, done, currentMgr, flush, scrape, kernel>>

StopOnly == stop

(* <-stop; <-done                                                          *)
StopAndDone == stop /\ done

Join ==
  /\ rc.pc = "join" /\ StopAndDone
  /\ currentMgr' = FALSE
  /\ rc' = [rc EXCEPT !.pc = "close"]
  /\ UNCHANGED <<process, sockets, runners, wk, flush, scrape, kernel>>

Close ==
  /\ rc.pc = "close"
  /\ Closes(Elems(sockets))
  /\ rc' = [rc EXCEPT !.pc = "gauge"]
  /\ UNCHANGED <<process, sockets, runners, wk, currentMgr, flush, scrape>>

SetScrape ==
  /\ rc.pc = "gauge"
  /\ scrape' = 0
  /\ rc' = [rc EXCEPT !.pc = "check"]
  /\ UNCHANGED <<process, sockets, runners, wk, currentMgr, flush, kernel>>

runCapture ==
  CheckStop \/ OpenSocket \/ OpenFails \/ Opened \/ Backoff \/ StoreManager
  \/ Run \/ Join \/ Close \/ SetScrape
-----------------------------------------------------------------------------
(* RunWorker, on worker i.                                                 *)
At(i, pc) == wk[i].pc = pc
Goto(i, pc) == wk' = [wk EXCEPT ![i].pc = pc]

TakeSocket(i) ==
  /\ At(i, "start")
  /\ wk' = [wk EXCEPT ![i].pc = "loop", ![i].sock = sockets[i]]
  /\ UNCHANGED <<sockets, runners, kernel>>

Loop(i) ==
  /\ At(i, "loop")
  /\ Goto(i, IF stop THEN "exit" ELSE "read")
  /\ UNCHANGED <<sockets, runners, kernel>>

(* ZeroCopyReadPacketData times out, returns a frame (ProcessFrame), or    *)
(* fails.                                                                  *)
Read(i) ==
  /\ At(i, "read")
  /\ \/ Goto(i, "loop")
     \/ wk' = [wk EXCEPT ![i].pc = "loop", ![i].errs = 0,
                         ![i].backoff = loopErrBackoffMin]
     \/ wk' = [wk EXCEPT ![i].errs = @ + 1,
                         ![i].pc = IF wk[i].errs + 1 >= loopErrReopenAfter
                                   THEN "reopen" ELSE "pause"]
  /\ misuse' = IF state[wk[i].sock] = "closed"
               THEN misuse \union {"read after close"} ELSE misuse
  /\ UNCHANGED <<sockets, runners, state, tally>>

(* if backoff > loopErrBackoffMax { backoff = loopErrBackoffMax }          *)
Capped(backoff) == IF backoff > loopErrBackoffMax THEN loopErrBackoffMax ELSE backoff

(* select on stop and time.After(backoff)                                  *)
Pause(i) ==
  /\ At(i, "pause")
  /\ \/ stop /\ Goto(i, "exit")
     \/ wk' = [wk EXCEPT ![i].pc = "loop",
                         ![i].backoff = Capped(2 * @)]
  /\ UNCHANGED <<sockets, runners, kernel>>

ReturnWhenReopenFails == "exit"

(* "socket reopen failed, will keep retrying"                              *)
WhenReopenFails == "loop"

(* reopenWorker: newSocket; the swap under socketsMu; old.Close().         *)
Reopen(i) ==
  /\ At(i, "reopen")
  /\ \/ \E s \in Fresh : Opens(s) /\ wk' = [wk EXCEPT ![i].pc = "swap", ![i].next = s]
     \/ /\ \E tp \in Failed : Closes(tp)
        /\ wk' = [wk EXCEPT ![i].pc = WhenReopenFails, ![i].errs = 0,
                            ![i].backoff = loopErrBackoffMin]
  /\ UNCHANGED <<sockets, runners>>

Swap(i) ==
  /\ At(i, "swap")
  /\ sockets' = [sockets EXCEPT ![i] = wk[i].next]
  /\ Goto(i, "closeold")
  /\ UNCHANGED <<runners, kernel>>

CloseOld(i) ==
  /\ At(i, "closeold")
  /\ Closes({wk[i].sock})
  /\ wk' = [wk EXCEPT ![i].pc = "loop", ![i].sock = wk[i].next, ![i].next = None,
                      ![i].errs = 0, ![i].backoff = loopErrBackoffMin]
  /\ UNCHANGED <<sockets, runners>>

LastWhenZeroBefore == running = 0

(* atomic.AddInt32(&running, -1) == 0                                      *)
LastWorker == running - 1 = 0

(* The goroutine's end; the last one closes done.                          *)
Exit(i) ==
  /\ At(i, "exit")
  /\ running' = running - 1
  /\ done' = (done \/ LastWorker)
  /\ misuse' = IF done /\ LastWorker THEN misuse \union {"done closed twice"} ELSE misuse
  /\ Goto(i, "gone")
  /\ UNCHANGED <<sockets, state, tally>>

RunWorker(i) ==
  /\ \/ TakeSocket(i) \/ Loop(i) \/ Read(i) \/ Pause(i) \/ Reopen(i)
     \/ Swap(i) \/ CloseOld(i) \/ Exit(i)
  /\ UNCHANGED <<process, rc, currentMgr, flush, scrape>>
-----------------------------------------------------------------------------
(* flushForever: wait for the ticker, load the manager, Flush, which asks  *)
(* it for the drops.                                                       *)
SumTallies(S) == SumOver(tally, S)

KernelDropsOfAll == SumTallies({s \in Socket : state[s] = "open"})

(* SocketStats fails on a closed socket, which is left out of the sum.     *)
KernelDrops == SumTallies({s \in Elems(sockets) : state[s] = "open"})

FlushOnTick ==
  \/ flush = "wait" /\ flush' = "load"
  \/ flush = "load" /\ flush' = IF currentMgr THEN "drops" ELSE "wait"
  \/ flush = "drops" /\ flush' = "wait"

FlushOnStop == flush = "wait" /\ stop /\ flush' = "returned"

flushForever ==
  /\ FlushOnTick \/ FlushOnStop
  /\ UNCHANGED <<process, rc, sockets, runners, wk, currentMgr, scrape, kernel>>

(* The kernel drops a frame on a socket whose ring is full.                *)
Drop ==
  /\ SumTallies(Socket) < MaxDrops
  /\ \E s \in Socket : state[s] = "open" /\ tally' = [tally EXCEPT ![s] = @ + 1]
  /\ UNCHANGED <<process, rc, sockets, runners, wk, currentMgr, flush, scrape,
                 state, misuse>>

Next ==
  \/ Signal \/ CloseStop \/ Start \/ RunForever \/ runCapture
  \/ (\E i \in Worker : RunWorker(i)) \/ flushForever \/ Drop

Spec == Init /\ [][Next]_vars

(* Goroutines are scheduled; reads time out after a second, sleeps end. A  *)
(* select with two ready cases takes either with equal chance, so that     *)
(* flushForever, which may find the ticker ready each time, sees stop.     *)
Fairness ==
  /\ WF_vars(CloseStop) /\ WF_vars(Start) /\ WF_vars(runCapture)
  /\ \A i \in Worker : WF_vars(RunWorker(i))
  /\ WF_vars(flushForever) /\ SF_vars(flushForever /\ FlushOnStop)

FairSpec == Spec /\ Fairness
=============================================================================
