-------------------------- MODULE CaptureProperties --------------------------
(***************************************************************************)
(* What the capture manager and the goroutines around it promise.          *)
(***************************************************************************)
EXTENDS Capture

WorkerPCs == {"none", "start", "loop", "read", "pause", "reopen", "swap",
              "closeold", "exit", "gone"}
RcPCs == {"start", "check", "open", "backoff", "store", "run", "join",
          "close", "gauge", "returned"}

(* Type invariant. In particular RunWorker's backoff stays between         *)
(* loopErrBackoffMin and loopErrBackoffMax, and its count of consecutive   *)
(* errors never passes loopErrReopenAfter.                                 *)
TypeOK ==
  /\ stop \in BOOLEAN /\ signals \in 0 .. 1 /\ main \in {"starting", "polling"}
  /\ rc.pc \in RcPCs /\ Elems(rc.opened) \subseteq Socket
  /\ Elems(sockets) \subseteq Socket /\ Len(sockets) \in {0, NumWorkers}
  /\ running \in 0 .. NumWorkers /\ done \in BOOLEAN
  /\ wk \in [Worker -> [pc : WorkerPCs, sock : Socket \union {None},
                        next : Socket \union {None}, errs : 0 .. loopErrReopenAfter,
                        backoff : loopErrBackoffMin .. loopErrBackoffMax]]
  /\ currentMgr \in BOOLEAN /\ flush \in {"none", "wait", "load", "drops", "returned"}
  /\ scrape \in 0 .. 1
  /\ state \in [Socket -> {"new", "open", "closed"}] /\ tally \in [Socket -> Nat]

(* manager.go:127-133, 157-252. No socket is closed twice or read after it *)
(* was closed, and Run's channel is closed once: a worker that reopens its *)
(* socket while runCapture shuts down never meets Close.                   *)
NoMisuse == misuse = {}

(* The sockets somebody will still close: Open's local ones, m.sockets,    *)
(* the one reopenWorker is about to put there and the one it took out.     *)
Owned ==
  Elems(rc.opened) \union Elems(sockets)
  \union {wk[i].next : i \in {j \in Worker : At(j, "swap")}}
  \union {wk[i].sock : i \in {j \in Worker : At(j, "closeold")}}

(* manager.go:83-98, 224-235, main.go:172-206. No socket leaks: each open  *)
(* socket has an owner, and none is open while runCapture waits to try     *)
(* again or after it returned.                                             *)
NoLeak ==
  LET open == {s \in Socket : state[s] = "open"} IN
  /\ open \subseteq Owned
  /\ rc.pc \in {"check", "backoff", "returned"} => open = {}

(* main.go:169-171 "1 while workers are running": whenever a worker        *)
(* goroutine runs, the gauge is 1, whatever the sockets go through.        *)
ScrapeWhileRunning ==
  (\E i \in Worker : wk[i].pc \notin {"none", "gone"}) => scrape = 1

(* manager.go:136-148. The tally that the collector reads develops as it   *)
(* assumes: sockets are swapped, fail to open and close, and the sum over  *)
(* m.sockets only ever gains what was dropped on a socket entering it.     *)
TallyOf == INSTANCE DropTally WITH
  tpDrops <- KernelDrops,
  unseen <- SumTallies(Elems(rc.opened)
                       \union {wk[i].next : i \in {j \in Worker : At(j, "swap")}}),
  dropped <- SumTallies(Socket)

ImplementsDropTally == TallyOf!DropsSpec

(* main.go:126-127, 175-205. Once stop is closed, every worker exits, the  *)
(* sockets are closed, the gauge is 0, and runCapture and flushForever     *)
(* return, wherever they were: opening, backing off, reopening, flushing.  *)
StopReachesAll ==
  stop ~> /\ rc.pc = "returned" /\ flush = "returned" /\ scrape = 0
          /\ \A i \in Worker : wk[i].pc \in {"none", "gone"}

(* manager.go:150-156 "does not return on ordinary socket errors": a       *)
(* worker that pauses or reopens gets back to reading, unless stop is      *)
(* closed.                                                                 *)
WorkerReadsAgain ==
  \A i \in Worker :
    wk[i].pc \in {"pause", "reopen", "swap", "closeold"} ~> (wk[i].pc = "read" \/ stop)
=============================================================================
