---------------------------- MODULE CaptureProofs ----------------------------
(***************************************************************************)
(* The safety of the capture sockets, for any number of workers, sockets,  *)
(* errors and drops, and the refinement of DropTally.                      *)
(***************************************************************************)
EXTENDS CaptureProperties, FiniteSumProofs

Locals == [pc : WorkerPCs, sock : Socket \union {None}, next : Socket \union {None},
           errs : 0 .. loopErrReopenAfter,
           backoff : loopErrBackoffMin .. loopErrBackoffMax]

Shape ==
  /\ stop \in BOOLEAN /\ signals \in 0 .. 1 /\ main \in {"starting", "polling"}
  /\ rc \in [pc : RcPCs, opened : Seq(Socket)]
  /\ sockets \in Seq(Socket) /\ Len(sockets) \in {0, NumWorkers}
  /\ running \in Nat /\ done \in BOOLEAN
  /\ wk \in [Worker -> Locals]
  /\ \A i \in Worker : wk[i].pc \notin {"reopen", "swap", "closeold"}
                         => wk[i].errs < loopErrReopenAfter
  /\ currentMgr \in BOOLEAN /\ flush \in {"none", "wait", "load", "drops", "returned"}
  /\ scrape \in 0 .. 1
  /\ state \in [Socket -> {"new", "open", "closed"}] /\ tally \in [Socket -> Nat]

(* The workers that Run counts.                                            *)
Live == {i \in Worker : wk[i].pc \notin {"none", "gone"}}

(* Where runCapture is tells which goroutines there are: none before Run,  *)
(* and none again once it has seen stop and done.                          *)
AllAt(pc) == \A i \in Worker : At(i, pc)

Control ==
  /\ main = "starting" => rc.pc = "start"
  /\ rc.pc \in {"start", "open", "backoff", "store", "run"} => AllAt("none")
  /\ rc.pc = "join" => \A i \in Worker : ~At(i, "none")
  /\ rc.pc \in {"close", "gauge"} => stop /\ AllAt("gone")
  /\ rc.pc \in {"check", "returned"} => AllAt("none") \/ (stop /\ AllAt("gone"))
  /\ rc.pc \in {"store", "run", "join", "close", "gauge"} => scrape = 1
  /\ running = Cardinality(Live)
  /\ done => AllAt("gone")

(* Worker i answers for socket s.                                          *)
Holds(i, s) ==
  \/ s = sockets[i]
  \/ At(i, "swap") /\ s = wk[i].next
  \/ At(i, "closeold") /\ s = wk[i].sock

Steady(i) ==
  /\ wk[i].pc \in {"loop", "read", "pause", "reopen", "swap", "exit"}
       => wk[i].sock = sockets[i]
  /\ At(i, "swap") => wk[i].next \in Socket /\ wk[i].next # sockets[i]
  /\ At(i, "closeold") => /\ wk[i].sock \in Socket /\ wk[i].next = sockets[i]
                          /\ wk[i].sock # wk[i].next

Holding == {"store", "run", "join", "close"}

(* While Run is possible, the open sockets are those the workers answer    *)
(* for, each one for its own; inside Open they are its local ones.         *)
Ownership ==
  /\ rc.pc \in Holding =>
       /\ Len(sockets) = NumWorkers
       /\ \A i \in Worker : Steady(i)
       /\ \A s \in Socket : state[s] = "open" <=> \E i \in Worker : Holds(i, s)
       /\ \A i, j \in Worker : \A s \in Socket : Holds(i, s) /\ Holds(j, s) => i = j
  /\ rc.pc = "open" =>
       /\ Len(rc.opened) <= NumWorkers
       /\ \A s \in Socket : state[s] = "open" <=> s \in Elems(rc.opened)
       /\ \A k, l \in 1 .. Len(rc.opened) : rc.opened[k] = rc.opened[l] => k = l
  /\ rc.pc \notin Holding \union {"open"} => \A s \in Socket : state[s] # "open"

Inv == Shape /\ Control /\ Ownership /\ NoMisuse

USE CaptureAssumption DEF CaptureAssumption
-----------------------------------------------------------------------------
LEMMA InitInv == Init => Inv
  <1>. SUFFICES ASSUME Init PROVE Inv
    OBVIOUS
  <1>1. Shape
    <2>1. rc \in [pc : RcPCs, opened : Seq(Socket)] /\ sockets \in Seq(Socket)
      BY DEF Init, RcPCs
    <2>2. Len(sockets) = 0
      BY DEF Init
    <2>3. wk \in [Worker -> Locals] /\ \A i \in Worker : wk[i].errs < loopErrReopenAfter
      BY DEF Init, Locals, WorkerPCs
    <2>4. stop \in BOOLEAN /\ done \in BOOLEAN /\ currentMgr \in BOOLEAN
      BY Zenon DEF Init
    <2>5. signals \in 0 .. 1 /\ scrape \in 0 .. 1 /\ running \in Nat
      BY DEF Init
    <2>6. state \in [Socket -> {"new", "open", "closed"}] /\ tally \in [Socket -> Nat]
      BY DEF Init
    <2>7. main \in {"starting", "polling"} /\ flush \in {"none", "wait", "load", "drops", "returned"}
      BY DEF Init
    <2>. QED
      BY <2>1, <2>2, <2>3, <2>4, <2>5, <2>6, <2>7, Zenon DEF Shape
  <1>2. Control
    <2>1. Live = {}
      BY DEF Init, Live
    <2>. QED
      BY <2>1, FS_EmptySet DEF Init, Control, AllAt, At, Worker
  <1>. QED
    BY <1>1, <1>2 DEF Init, Inv, Ownership, Holding, NoMisuse

LEMMA LiveFinite == IsFiniteSet(Live) /\ Cardinality(Live) \in Nat
  <1>0. 1 \in Int /\ NumWorkers \in Int
    OBVIOUS
  <1>1. IsFiniteSet(Worker) /\ Live \subseteq Worker
    BY <1>0, FS_Interval, Zenon DEF Worker, Live
  <1>. QED
    BY <1>1, FS_Subset, FS_CardinalityType

(* A worker that runs does so under Run.                                   *)
LEMMA LiveJoins ==
  ASSUME Inv, NEW i \in Worker, wk[i].pc \notin {"none", "gone"}
  PROVE  rc.pc = "join"
  BY DEF Inv, Shape, Control, AllAt, At, RcPCs

(* m.sockets as a function.                                                *)
LEMMA SocketsOfWorkers ==
  ASSUME Inv, Len(sockets) = NumWorkers
  PROVE  /\ DOMAIN sockets = Worker /\ \A i \in Worker : sockets[i] \in Socket
         /\ Elems(sockets) = {sockets[i] : i \in Worker}
  <1>1. sockets \in Seq(Socket)
    BY DEF Inv, Shape
  <1>2. DOMAIN sockets = Worker
    BY <1>1 DEF Worker
  <1>3. \A i \in Worker : sockets[i] \in Socket
    BY <1>1, <1>2
  <1>. QED
    BY <1>2, <1>3, Zenon DEF Elems
-----------------------------------------------------------------------------
(* A step of worker i that stays in RunWorker.                             *)
LEMMA ControlStep ==
  ASSUME Inv, NEW i \in Worker, NEW rec \in Locals, wk' = [wk EXCEPT ![i] = rec],
         wk[i].pc \notin {"none", "gone"}, rec.pc \notin {"none", "gone"},
         UNCHANGED <<process, rc, scrape, runners>>
  PROVE  Control'
  <1>1. /\ wk'[i] = rec /\ \A j \in Worker \ {i} : wk'[j] = wk[j]
    BY DEF Inv, Shape
  <1>2. Live' = Live
    BY <1>1 DEF Live
  <1>3. rc.pc = "join" /\ ~done
    BY LiveJoins DEF Inv, Control, AllAt, At
  <1>4. \A j \in Worker : ~At(j, "none")'
    BY <1>1, <1>3 DEF Inv, Control, At
  <1>. QED
    BY <1>2, <1>3, <1>4 DEF Inv, Control, process, runners

(* One in which the same sockets stay open, in the same hands.             *)
LEMMA OwnershipStep ==
  ASSUME Inv, NEW i \in Worker, NEW rec \in Locals, wk' = [wk EXCEPT ![i] = rec],
         wk[i].pc \notin {"none", "gone", "swap", "closeold"},
         rec.pc \notin {"swap", "closeold"}, rec.sock = sockets[i],
         UNCHANGED <<rc, sockets>>,
         \A s \in Socket : state'[s] = "open" <=> state[s] = "open"
  PROVE  Ownership'
  <1>1. wk'[i] = rec /\ \A j \in Worker \ {i} : wk'[j] = wk[j]
    BY DEF Inv, Shape
  <1>2. rc.pc = "join"
    BY LiveJoins
  <1>3. \A j \in Worker, s \in Socket : Holds(j, s)' <=> Holds(j, s)
    BY <1>1 DEF Holds, At
  <1>4. \A j \in Worker : Steady(j)'
    BY <1>1, <1>2 DEF Inv, Ownership, Steady, At, Holding
  <1>. QED
    BY <1>2, <1>3, <1>4, Zenon DEF Inv, Ownership, Holding
-----------------------------------------------------------------------------
(* Steps of RunWorker. Each gives the worker's new locals as a record.     *)
LEMMA ShapeStep ==
  ASSUME Inv, NEW i \in Worker, NEW rec \in Locals, wk' = [wk EXCEPT ![i] = rec],
         rec.pc \notin {"reopen", "swap", "closeold"} => rec.errs < loopErrReopenAfter,
         UNCHANGED <<process, rc, currentMgr, flush, scrape, tally>>,
         sockets' \in Seq(Socket), Len(sockets') = Len(sockets), running' \in Nat,
         done' \in BOOLEAN, state' \in [Socket -> {"new", "open", "closed"}]
  PROVE  Shape'
  <1>1. /\ wk' \in [Worker -> Locals]
        /\ \A j \in Worker : wk'[j].pc \notin {"reopen", "swap", "closeold"}
                                => wk'[j].errs < loopErrReopenAfter
    BY DEF Inv, Shape
  <1>. QED
    BY <1>1 DEF Inv, Shape, process

(* A step of worker i's loop that changes nothing but its locals.          *)
LEMMA QuietStep ==
  ASSUME Inv, NEW i \in Worker, NEW rec \in Locals, wk' = [wk EXCEPT ![i] = rec],
         wk[i].pc \in {"start", "loop", "read", "pause", "reopen"},
         rec.pc \in {"loop", "read", "pause", "reopen", "exit"}, rec.sock = sockets[i],
         rec.pc # "reopen" => rec.errs < loopErrReopenAfter,
         UNCHANGED <<process, rc, currentMgr, flush, scrape, sockets, runners, tally>>,
         state' \in [Socket -> {"new", "open", "closed"}],
         \A s \in Socket : state'[s] = "open" <=> state[s] = "open",
         misuse' = misuse
  PROVE  Inv'
  <1>1. Shape'
    BY ShapeStep, Zenon DEF Inv, Shape, runners
  <1>2. Control'
    BY ControlStep, Zenon
  <1>3. Ownership'
    BY OwnershipStep, Zenon
  <1>. QED
    BY <1>1, <1>2, <1>3 DEF Inv, NoMisuse

(* What a worker at its loop has in hand.                                  *)
LEMMA LoopFacts ==
  ASSUME Inv, NEW i \in Worker, wk[i].pc \notin {"none", "gone"}
  PROVE  /\ rc.pc = "join" /\ wk[i] \in Locals /\ DOMAIN sockets = Worker
         /\ sockets[i] \in Socket /\ Len(sockets) = NumWorkers
         /\ wk[i].pc \notin {"reopen", "swap", "closeold"}
              => wk[i].errs < loopErrReopenAfter
         /\ Steady(i)
         /\ \A s \in Socket : Holds(i, s) => state[s] = "open"
         /\ state \in [Socket -> {"new", "open", "closed"}]
  <1>1. rc.pc = "join"
    BY LiveJoins
  <1>2. Len(sockets) = NumWorkers
    BY <1>1 DEF Inv, Ownership, Holding
  <1>3. Steady(i) /\ \A s \in Socket : Holds(i, s) => state[s] = "open"
    BY <1>1 DEF Inv, Ownership, Holding
  <1>4. DOMAIN sockets = Worker /\ sockets[i] \in Socket
    BY <1>2, SocketsOfWorkers
  <1>. QED
    BY <1>1, <1>2, <1>3, <1>4 DEF Inv, Shape

LEMMA TakeSocketStep ==
  ASSUME Inv, NEW i \in Worker, TakeSocket(i),
         UNCHANGED <<process, rc, currentMgr, flush, scrape>>
  PROVE  Inv'
  <1>. DEFINE rec == [wk[i] EXCEPT !.pc = "loop", !.sock = sockets[i]]
  <1>1. wk[i].pc = "start" /\ UNCHANGED <<sockets, runners, state, tally, misuse>>
    BY DEF TakeSocket, At, kernel
  <1>2. wk' = [wk EXCEPT ![i] = rec]
    BY Zenon DEF TakeSocket
  <1>3. rec \in Locals /\ rec.pc = "loop" /\ rec.sock = sockets[i] /\ rec.errs = wk[i].errs
    BY <1>1, LoopFacts, Zenon DEF Locals, WorkerPCs
  <1>4. wk[i].errs < loopErrReopenAfter /\ state \in [Socket -> {"new", "open", "closed"}]
    BY <1>1, LoopFacts
  <1>. HIDE DEF rec
  <1>. QED
    BY <1>1, <1>2, <1>3, <1>4, QuietStep, Zenon

LEMMA GotoStep ==
  ASSUME Inv, NEW i \in Worker, NEW pc \in {"loop", "read", "exit"}, Goto(i, pc),
         wk[i].pc \in {"loop", "read", "pause"},
         UNCHANGED <<process, rc, currentMgr, flush, scrape, sockets, runners, state,
                     tally, misuse>>
  PROVE  Inv'
  <1>. DEFINE rec == [wk[i] EXCEPT !.pc = pc]
  <1>1. wk' = [wk EXCEPT ![i] = rec]
    BY DEF Goto
  <1>2. wk[i] \in Locals /\ wk[i].sock = sockets[i]
    BY LoopFacts DEF Steady
  <1>3. rec \in Locals /\ rec.pc = pc /\ rec.sock = sockets[i] /\ rec.errs = wk[i].errs
    BY <1>2 DEF Locals, WorkerPCs
  <1>4. wk[i].errs < loopErrReopenAfter /\ state \in [Socket -> {"new", "open", "closed"}]
    BY LoopFacts
  <1>. HIDE DEF rec
  <1>. QED
    BY <1>1, <1>3, <1>4, QuietStep, Zenon

LEMMA LoopStep ==
  ASSUME Inv, NEW i \in Worker, Loop(i),
         UNCHANGED <<process, rc, currentMgr, flush, scrape>>
  PROVE  Inv'
  BY GotoStep DEF Loop, At, kernel

(* errs and backoff start over.                                            *)
LEMMA ResetLocals ==
  ASSUME NEW r \in Locals
  PROVE  LET rec == [r EXCEPT !.pc = "loop", !.errs = 0, !.backoff = loopErrBackoffMin]
         IN  /\ rec \in Locals /\ rec.pc = "loop" /\ rec.sock = r.sock
             /\ rec.errs < loopErrReopenAfter
  <1>. DEFINE rec == [r EXCEPT !.pc = "loop", !.errs = 0, !.backoff = loopErrBackoffMin]
  <1>1. 0 \in 0 .. loopErrReopenAfter /\ 0 < loopErrReopenAfter
        /\ loopErrBackoffMin \in loopErrBackoffMin .. loopErrBackoffMax
    OBVIOUS
  <1>2. rec \in Locals
    BY <1>1, Zenon DEF Locals, WorkerPCs
  <1>3. rec.pc = "loop" /\ rec.sock = r.sock /\ rec.errs = 0
    BY DEF Locals
  <1>. QED
    BY <1>1, <1>2, <1>3, Zenon

(* The socket a worker reads is open.                                      *)
LEMMA ReadStep ==
  ASSUME Inv, NEW i \in Worker, Read(i),
         UNCHANGED <<process, rc, currentMgr, flush, scrape>>
  PROVE  Inv'
  <1>1. wk[i].pc = "read" /\ UNCHANGED <<sockets, runners, state, tally>>
    BY Zenon DEF Read, At
  <1>2. /\ wk[i] \in Locals /\ wk[i].sock = sockets[i]
        /\ wk[i].errs < loopErrReopenAfter
        /\ state \in [Socket -> {"new", "open", "closed"}]
    BY <1>1, LoopFacts DEF Steady
  <1>3. misuse' = misuse
    <2>1. state[sockets[i]] = "open"
      BY <1>1, LoopFacts DEF Holds
    <2>. QED
      BY <1>2, <2>1 DEF Read
  <1>4. CASE Goto(i, "loop")
    BY <1>1, <1>3, <1>4, GotoStep
  <1>5. CASE wk' = [wk EXCEPT ![i].pc = "loop", ![i].errs = 0, ![i].backoff = loopErrBackoffMin]
    <2>. DEFINE rec == [wk[i] EXCEPT !.pc = "loop", !.errs = 0, !.backoff = loopErrBackoffMin]
    <2>1. wk' = [wk EXCEPT ![i] = rec]
      BY <1>5, Zenon
    <2>2. /\ rec \in Locals /\ rec.pc = "loop" /\ rec.sock = sockets[i]
          /\ rec.errs < loopErrReopenAfter
      BY <1>2, ResetLocals, Zenon
    <2>. HIDE DEF rec
    <2>. QED
      BY <1>1, <1>2, <1>3, <2>1, <2>2, QuietStep, Zenon
  <1>6. CASE wk' = [wk EXCEPT ![i].errs = @ + 1,
                              ![i].pc = IF wk[i].errs + 1 >= loopErrReopenAfter
                                        THEN "reopen" ELSE "pause"]
    <2>. DEFINE rec == [wk[i] EXCEPT !.errs = @ + 1,
                          !.pc = IF wk[i].errs + 1 >= loopErrReopenAfter
                                 THEN "reopen" ELSE "pause"]
    <2>1. wk' = [wk EXCEPT ![i] = rec]
      BY <1>6, Zenon
    <2>2. wk[i].errs + 1 \in 0 .. loopErrReopenAfter
      BY <1>2 DEF Locals
    <2>3. rec \in Locals
      BY <1>2, <2>2, Zenon DEF Locals, WorkerPCs
    <2>4. /\ rec.pc \in {"reopen", "pause"} /\ rec.sock = sockets[i]
          /\ rec.pc # "reopen" => rec.errs < loopErrReopenAfter
      BY <1>2, <2>2 DEF Locals
    <2>. HIDE DEF rec
    <2>. QED
      BY <1>1, <1>2, <1>3, <2>1, <2>3, <2>4, QuietStep, Zenon
  <1>. QED
    BY <1>4, <1>5, <1>6, Zenon DEF Read

(* The backoff doubles up to its cap.                                      *)
LEMMA CappedBackoff ==
  ASSUME NEW b \in loopErrBackoffMin .. loopErrBackoffMax
  PROVE  Capped(2 * b) \in loopErrBackoffMin .. loopErrBackoffMax
  BY DEF Capped

LEMMA PauseStep ==
  ASSUME Inv, NEW i \in Worker, Pause(i),
         UNCHANGED <<process, rc, currentMgr, flush, scrape>>
  PROVE  Inv'
  <1>1. wk[i].pc = "pause" /\ UNCHANGED <<sockets, runners, state, tally, misuse>>
    BY DEF Pause, At, kernel
  <1>2. CASE Goto(i, "exit")
    BY <1>1, <1>2, GotoStep
  <1>3. CASE wk' = [wk EXCEPT ![i].pc = "loop", ![i].backoff = Capped(2 * @)]
    <2>. DEFINE b == Capped(2 * wk[i].backoff)
                rec == [wk[i] EXCEPT !.pc = "loop", !.backoff = b]
    <2>1. wk' = [wk EXCEPT ![i] = rec]
      BY <1>3, Zenon
    <2>2. /\ wk[i] \in Locals /\ wk[i].sock = sockets[i] /\ wk[i].errs < loopErrReopenAfter
          /\ state \in [Socket -> {"new", "open", "closed"}]
      BY <1>1, LoopFacts DEF Steady
    <2>3. b \in loopErrBackoffMin .. loopErrBackoffMax
      BY <2>2, CappedBackoff DEF Locals
    <2>. HIDE DEF b
    <2>4. rec \in Locals /\ rec.pc = "loop" /\ rec.sock = sockets[i] /\ rec.errs = wk[i].errs
      BY <2>2, <2>3, Zenon DEF Locals, WorkerPCs
    <2>. HIDE DEF rec
    <2>. QED
      BY <1>1, <2>1, <2>2, <2>4, QuietStep, Zenon
  <1>. QED
    BY <1>2, <1>3 DEF Pause

(* Closing sockets of which none is closed.                                *)
LEMMA ClosesFacts ==
  ASSUME Inv, NEW S, \A t \in S : state[t] # "closed", Closes(S)
  PROVE  /\ state' \in [Socket -> {"new", "open", "closed"}] /\ tally' = tally
         /\ \A s \in Socket : state'[s] = "open" <=> state[s] = "open" /\ s \notin S
         /\ misuse' = misuse
  <1>1. {t \in S : state[t] = "closed"} = {}
    OBVIOUS
  <1>2. misuse' = misuse
    BY <1>1, Zenon DEF Closes
  <1>. QED
    BY <1>2, Zenon DEF Closes, Inv, Shape

(* newSocket fails: only the socket it created itself is closed.           *)
LEMMA ReopenFailsStep ==
  ASSUME Inv, NEW i \in Worker, wk[i].pc = "reopen",
         NEW tp \in Failed, Closes(tp),
         wk' = [wk EXCEPT ![i].pc = WhenReopenFails, ![i].errs = 0,
                          ![i].backoff = loopErrBackoffMin],
         UNCHANGED <<process, rc, currentMgr, flush, scrape, sockets, runners>>
  PROVE  Inv'
  <1>. DEFINE rec == [wk[i] EXCEPT !.pc = "loop", !.errs = 0, !.backoff = loopErrBackoffMin]
  <1>1. wk' = [wk EXCEPT ![i] = rec]
    BY Zenon DEF WhenReopenFails
  <1>2. wk[i] \in Locals /\ wk[i].sock = sockets[i]
    BY LoopFacts DEF Steady
  <1>3. /\ rec \in Locals /\ rec.pc = "loop" /\ rec.sock = sockets[i]
        /\ rec.errs < loopErrReopenAfter
    BY <1>2, ResetLocals, Zenon
  <1>4. \A t \in tp : state[t] = "new"
    BY DEF Failed, Fresh
  <1>5. /\ state' \in [Socket -> {"new", "open", "closed"}] /\ tally' = tally
        /\ \A s \in Socket : state'[s] = "open" <=> state[s] = "open"
        /\ misuse' = misuse
    BY <1>4, ClosesFacts
  <1>. HIDE DEF rec
  <1>. QED
    BY <1>1, <1>3, <1>5, QuietStep, Zenon

(* A worker whose socket a step of another leaves alone.                   *)
LEMMA OthersSteady ==
  ASSUME Inv, rc.pc = "join", NEW j \in Worker, wk'[j] = wk[j], sockets'[j] = sockets[j]
  PROVE  Steady(j)'
  <1>1. Steady(j)
    BY DEF Inv, Ownership, Holding
  <1>. QED
    BY <1>1, Zenon DEF Steady, At

(* newSocket succeeds: the new socket was nobody's.                        *)
LEMMA ReopenedStep ==
  ASSUME Inv, NEW i \in Worker, wk[i].pc = "reopen", NEW n \in Fresh, Opens(n),
         wk' = [wk EXCEPT ![i].pc = "swap", ![i].next = n],
         UNCHANGED <<process, rc, currentMgr, flush, scrape, sockets, runners>>
  PROVE  Inv'
  <1>. DEFINE rec == [wk[i] EXCEPT !.pc = "swap", !.next = n]
  <1>1. wk' = [wk EXCEPT ![i] = rec]
    BY Zenon
  <1>2. /\ wk[i] \in Locals /\ wk[i].sock = sockets[i] /\ rc.pc = "join"
        /\ sockets[i] \in Socket /\ Len(sockets) = NumWorkers
        /\ state \in [Socket -> {"new", "open", "closed"}]
    BY LoopFacts DEF Steady
  <1>3. n \in Socket /\ state[n] = "new"
    BY DEF Fresh
  <1>4. rec \in Locals /\ rec.pc = "swap" /\ rec.sock = sockets[i] /\ rec.next = n
    BY <1>2, <1>3, Zenon DEF Locals, WorkerPCs
  <1>5. /\ state' \in [Socket -> {"new", "open", "closed"}]
        /\ \A s \in Socket : state'[s] = "open" <=> state[s] = "open" \/ s = n
        /\ UNCHANGED <<tally, misuse>>
    BY <1>2, <1>3 DEF Opens
  <1>. HIDE DEF rec
  <1>6. Shape'
    <2>1. sockets' \in Seq(Socket) /\ running' \in Nat /\ done' \in BOOLEAN
      BY Zenon DEF Inv, Shape, runners
    <2>. QED
      BY <1>1, <1>4, <1>5, <2>1, ShapeStep, Zenon
  <1>7. Control'
    BY <1>1, <1>4, ControlStep, Zenon
  <1>8. wk'[i] = rec /\ \A j \in Worker \ {i} : wk'[j] = wk[j]
    BY <1>1, Zenon DEF Inv, Shape
  <1>9. \A j \in Worker, s \in Socket : Holds(j, s)' <=> Holds(j, s) \/ (j = i /\ s = n)
    BY <1>4, <1>8, Zenon DEF Holds, At
  <1>10. \A j \in Worker : ~Holds(j, n)
    BY <1>2, <1>3 DEF Inv, Ownership, Holding
  <1>11. n # sockets[i]
    BY <1>10 DEF Holds
  <1>12. \A j \in Worker : Steady(j)'
    <2>1. Steady(i)'
      BY <1>3, <1>4, <1>8, <1>11, Zenon DEF Steady, At
    <2>. QED
      BY <1>2, <1>8, <2>1, OthersSteady, Zenon
  <1>13. \A s \in Socket : state'[s] = "open" <=> \E j \in Worker : Holds(j, s)'
    BY <1>2, <1>5, <1>9, Zenon DEF Inv, Ownership, Holding
  <1>14. \A j, k \in Worker : \A s \in Socket : Holds(j, s)' /\ Holds(k, s)' => j = k
    <2>1. \A j, k \in Worker : \A s \in Socket : Holds(j, s) /\ Holds(k, s) => j = k
      BY <1>2 DEF Inv, Ownership, Holding
    <2>. QED
      BY <1>9, <1>10, <2>1
  <1>15. Ownership'
    BY <1>2, <1>12, <1>13, <1>14, Zenon DEF Ownership, Holding
  <1>. QED
    BY <1>5, <1>6, <1>7, <1>15 DEF Inv, NoMisuse

LEMMA ReopenStep ==
  ASSUME Inv, NEW i \in Worker, Reopen(i),
         UNCHANGED <<process, rc, currentMgr, flush, scrape>>
  PROVE  Inv'
  BY ReopenedStep, ReopenFailsStep, Zenon DEF Reopen, At

(* The new socket takes the old one's place; worker i still has both.      *)
LEMMA SwapStep ==
  ASSUME Inv, NEW i \in Worker, Swap(i),
         UNCHANGED <<process, rc, currentMgr, flush, scrape>>
  PROVE  Inv'
  <1>. DEFINE rec == [wk[i] EXCEPT !.pc = "closeold"]
              n == wk[i].next
  <1>1. /\ wk[i].pc = "swap" /\ wk' = [wk EXCEPT ![i] = rec]
        /\ sockets' = [sockets EXCEPT ![i] = n]
        /\ UNCHANGED <<runners, state, tally, misuse>>
    BY DEF Swap, At, Goto, kernel
  <1>2. /\ wk[i] \in Locals /\ wk[i].sock = sockets[i] /\ rc.pc = "join"
        /\ sockets[i] \in Socket /\ n \in Socket /\ n # sockets[i]
        /\ Len(sockets) = NumWorkers /\ DOMAIN sockets = Worker
    BY <1>1, LoopFacts DEF Steady, At
  <1>3. rec \in Locals /\ rec.pc = "closeold" /\ rec.sock = sockets[i] /\ rec.next = n
    BY <1>2, SMTT(30) DEF Locals, WorkerPCs
  <1>4. /\ sockets' \in Seq(Socket) /\ Len(sockets') = NumWorkers
        /\ sockets'[i] = n /\ \A j \in Worker \ {i} : sockets'[j] = sockets[j]
    <2>1. sockets \in Seq(Socket) /\ i \in 1 .. Len(sockets)
      BY <1>2 DEF Inv, Shape, Worker
    <2>. HIDE DEF n
    <2>. QED
      BY <1>1, <1>2, <2>1
  <1>. HIDE DEF rec, n
  <1>5. Shape'
    BY <1>1, <1>2, <1>3, <1>4, ShapeStep, Zenon DEF Inv, Shape, runners
  <1>6. Control'
    BY <1>1, <1>3, ControlStep, Zenon
  <1>7. wk'[i] = rec /\ \A j \in Worker \ {i} : wk'[j] = wk[j]
    BY <1>1 DEF Inv, Shape
  <1>8. \A s \in Socket : Holds(i, s)' <=> Holds(i, s)
    BY <1>1, <1>3, <1>4, <1>7 DEF Holds, At, n
  <1>9. \A j \in Worker, s \in Socket : Holds(j, s)' <=> Holds(j, s)
    BY <1>4, <1>7, <1>8 DEF Holds, At
  <1>10. \A j \in Worker : Steady(j)'
    <2>1. Steady(i)'
      BY <1>2, <1>3, <1>4, <1>7 DEF Steady, At
    <2>. QED
      BY <1>2, <1>4, <1>7, <2>1, OthersSteady
  <1>11. \A s \in Socket : state'[s] = "open" <=> \E j \in Worker : Holds(j, s)'
    BY <1>1, <1>2, <1>9, Zenon DEF Inv, Ownership, Holding
  <1>12. \A j, k \in Worker : \A s \in Socket : Holds(j, s)' /\ Holds(k, s)' => j = k
    BY <1>2, <1>9, Zenon DEF Inv, Ownership, Holding
  <1>13. Ownership'
    BY <1>2, <1>4, <1>10, <1>11, <1>12, Zenon DEF Ownership, Holding
  <1>. QED
    BY <1>1, <1>5, <1>6, <1>13 DEF Inv, NoMisuse

(* The old socket is open, and only worker i had it.                       *)
LEMMA CloseOldStep ==
  ASSUME Inv, NEW i \in Worker, CloseOld(i),
         UNCHANGED <<process, rc, currentMgr, flush, scrape>>
  PROVE  Inv'
  <1>. DEFINE rec == [wk[i] EXCEPT !.pc = "loop", !.sock = wk[i].next, !.next = None,
                                   !.errs = 0, !.backoff = loopErrBackoffMin]
              o == wk[i].sock
  <1>1. /\ wk[i].pc = "closeold" /\ Closes({o}) /\ UNCHANGED <<sockets, runners>>
        /\ wk' = [wk EXCEPT ![i] = rec]
    BY Zenon DEF CloseOld, At
  <1>2. /\ wk[i] \in Locals /\ rc.pc = "join" /\ o \in Socket
        /\ wk[i].next = sockets[i] /\ o # sockets[i] /\ sockets[i] \in Socket
        /\ Len(sockets) = NumWorkers
    BY <1>1, LoopFacts DEF Steady, At
  <1>3. /\ rec \in Locals /\ rec.pc = "loop" /\ rec.sock = sockets[i]
        /\ rec.errs < loopErrReopenAfter
    <2>. DEFINE r == [wk[i] EXCEPT !.sock = wk[i].next, !.next = None]
    <2>1. r \in Locals /\ r.sock = sockets[i]
      BY <1>2, Zenon DEF Locals
    <2>2. rec = [r EXCEPT !.pc = "loop", !.errs = 0, !.backoff = loopErrBackoffMin]
      BY <1>2, Zenon DEF Locals
    <2>. HIDE DEF r, rec
    <2>. QED
      BY <2>1, <2>2, ResetLocals, Zenon
  <1>4. Holds(i, o) /\ state[o] = "open"
    BY <1>1, <1>2, LoopFacts DEF Holds, At
  <1>. HIDE DEF rec
  <1>5. /\ state' \in [Socket -> {"new", "open", "closed"}] /\ UNCHANGED <<tally, misuse>>
        /\ \A s \in Socket : state'[s] = "open" <=> state[s] = "open" /\ s # o
    <2>1. \A t \in {o} : state[t] # "closed"
      BY <1>4
    <2>. HIDE DEF o
    <2>. QED
      BY <1>1, <2>1, ClosesFacts
  <1>6. Shape'
    <2>1. sockets' \in Seq(Socket) /\ running' \in Nat /\ done' \in BOOLEAN
      BY <1>1, Zenon DEF Inv, Shape, runners
    <2>. QED
      BY <1>1, <1>3, <1>5, <2>1, ShapeStep, Zenon
  <1>7. Control'
    BY <1>1, <1>3, ControlStep, Zenon
  <1>8. wk'[i] = rec /\ \A j \in Worker \ {i} : wk'[j] = wk[j]
    BY <1>1 DEF Inv, Shape
  <1>9. \A s \in Socket : Holds(i, s)' <=> Holds(i, s) /\ s # o
    BY <1>1, <1>2, <1>3, <1>8 DEF Holds, At
  <1>. HIDE DEF o
  <1>10. \A j \in Worker \ {i}, s \in Socket :
           (Holds(j, s)' <=> Holds(j, s)) /\ (Holds(j, s) => s # o)
    <2>1. \A j \in Worker \ {i}, s \in Socket : Holds(j, s)' <=> Holds(j, s)
      BY <1>1, <1>8 DEF Holds, At
    <2>2. \A j \in Worker : Holds(j, o) => j = i
      BY <1>2, <1>4, Zenon DEF Inv, Ownership, Holding
    <2>. QED
      BY <2>1, <2>2
  <1>11. \A j \in Worker, s \in Socket : Holds(j, s)' <=> Holds(j, s) /\ s # o
    BY <1>9, <1>10, Zenon
  <1>12. \A j \in Worker : Steady(j)'
    <2>1. Steady(i)'
      BY <1>1, <1>3, <1>8 DEF Steady, At
    <2>. QED
      BY <1>1, <1>2, <1>8, <2>1, OthersSteady
  <1>13. \A s \in Socket : state'[s] = "open" <=> \E j \in Worker : Holds(j, s)'
    BY <1>2, <1>5, <1>11, Zenon DEF Inv, Ownership, Holding
  <1>14. \A j, k \in Worker : \A s \in Socket : Holds(j, s)' /\ Holds(k, s)' => j = k
    BY <1>2, <1>11, Zenon DEF Inv, Ownership, Holding
  <1>15. Ownership'
    BY <1>1, <1>2, <1>12, <1>13, <1>14, Zenon DEF Ownership, Holding
  <1>. QED
    BY <1>5, <1>6, <1>7, <1>15 DEF Inv, NoMisuse

(* The last worker to end finds the countdown at zero, and done not closed.*)
LEMMA ExitStep ==
  ASSUME Inv, NEW i \in Worker, Exit(i),
         UNCHANGED <<process, rc, currentMgr, flush, scrape>>
  PROVE  Inv'
  <1>. DEFINE rec == [wk[i] EXCEPT !.pc = "gone"]
  <1>1. /\ wk[i].pc = "exit" /\ wk' = [wk EXCEPT ![i] = rec]
        /\ running' = running - 1 /\ UNCHANGED <<sockets, state, tally>>
    BY Zenon DEF Exit, At, Goto
  <1>2. /\ wk[i] \in Locals /\ wk[i].sock = sockets[i] /\ rc.pc = "join"
        /\ wk[i].errs < loopErrReopenAfter
        /\ state \in [Socket -> {"new", "open", "closed"}]
    BY <1>1, LoopFacts DEF Steady
  <1>3. rec \in Locals /\ rec.pc = "gone" /\ rec.sock = sockets[i] /\ rec.errs = wk[i].errs
    BY <1>2 DEF Locals, WorkerPCs
  <1>. HIDE DEF rec
  <1>4. wk'[i] = rec /\ \A j \in Worker \ {i} : wk'[j] = wk[j]
    BY <1>1 DEF Inv, Shape
  <1>5. Live' = Live \ {i} /\ i \in Live
    BY <1>1, <1>3, <1>4 DEF Live
  <1>6. running' = Cardinality(Live') /\ running' \in Nat /\ (running' = 0 => Live' = {})
    <2>1. running = Cardinality(Live) /\ running \in Nat
      BY LiveFinite DEF Inv, Control
    <2>2. IsFiniteSet(Live') /\ Cardinality(Live') = running - 1
      BY <1>5, <2>1, LiveFinite, FS_RemoveElement
    <2>. QED
      BY <1>1, <2>1, <2>2, FS_EmptySet, FS_CardinalityType
  <1>7. ~done /\ misuse' = misuse /\ done' \in BOOLEAN /\ (done' => running' = 0)
    <2>1. ~done
      BY <1>1 DEF Inv, Control, AllAt, At
    <2>. QED
      BY <1>1, <2>1, Zenon DEF Exit, LastWorker
  <1>8. \A j \in Worker : ~At(j, "none")'
    BY <1>2, <1>3, <1>4 DEF Inv, Control, At
  <1>9. done' => AllAt("gone")'
    BY <1>6, <1>7, <1>8 DEF AllAt, At, Live
  <1>10. Shape'
    BY <1>1, <1>2, <1>3, <1>6, <1>7, ShapeStep, Zenon DEF Inv, Shape
  <1>11. Control'
    BY <1>2, <1>6, <1>8, <1>9 DEF Inv, Control, process
  <1>12. Ownership'
    BY <1>1, <1>3, OwnershipStep, Zenon
  <1>. QED
    BY <1>7, <1>10, <1>11, <1>12 DEF Inv, NoMisuse

LEMMA RunWorkerStep ==
  ASSUME Inv, NEW i \in Worker, RunWorker(i)
  PROVE  Inv'
  BY TakeSocketStep, LoopStep, ReadStep, PauseStep, ReopenStep, SwapStep, CloseOldStep,
     ExitStep, SMTT(30) DEF RunWorker
-----------------------------------------------------------------------------
(* Steps of others leave the workers where they are, with what they have.  *)
LEMMA WorkersRest ==
  ASSUME wk' = wk
  PROVE  /\ Live' = Live /\ \A pc \in WorkerPCs : AllAt(pc)' <=> AllAt(pc)
         /\ sockets' = sockets => /\ \A i \in Worker, s \in Socket : Holds(i, s)' <=> Holds(i, s)
                                 /\ \A i \in Worker : Steady(i)' <=> Steady(i)
  BY DEF Live, AllAt, At, Holds, Steady

(* The kernel, the signal goroutine and flushForever.                      *)
LEMMA WorldStep ==
  ASSUME Inv, UNCHANGED <<main, rc, sockets, runners, wk, scrape, state, misuse>>,
         stop => stop', stop' \in BOOLEAN, signals' \in 0 .. 1, currentMgr' \in BOOLEAN,
         flush' \in {"none", "wait", "load", "drops", "returned"},
         tally' \in [Socket -> Nat]
  PROVE  Inv'
  <1>1. Shape'
    BY DEF Inv, Shape, runners
  <1>2. Control'
    BY WorkersRest DEF Inv, Control, runners, WorkerPCs, AllAt, At
  <1>3. Ownership'
    BY WorkersRest, Zenon DEF Inv, Ownership
  <1>. QED
    BY <1>1, <1>2, <1>3 DEF Inv, NoMisuse

(* A step of runCapture, or the one that starts it: what it has to show of *)
(* where it goes.                                                          *)
LEMMA CaptureStep ==
  ASSUME Inv, NEW pc \in RcPCs, NEW seq \in Seq(Socket),
         rc' = [pc |-> pc, opened |-> seq], pc # "start", pc # "join",
         main' = "polling", UNCHANGED <<stop, signals, runners, wk>>,
         currentMgr' \in BOOLEAN, flush' \in {"none", "wait", "load", "drops", "returned"},
         scrape' \in 0 .. 1, UNCHANGED <<tally, misuse>>,
         state' \in [Socket -> {"new", "open", "closed"}],
         sockets' \in Seq(Socket), Len(sockets') \in {0, NumWorkers},
         pc \in {"open", "backoff", "store", "run"} => AllAt("none"),
         pc \in {"close", "gauge"} => stop /\ AllAt("gone"),
         pc \in {"check", "returned"} => AllAt("none") \/ (stop /\ AllAt("gone")),
         pc \in {"store", "run", "close", "gauge"} => scrape' = 1,
         Ownership'
  PROVE  Inv'
  <1>1. rc'.pc = pc /\ rc' \in [pc : RcPCs, opened : Seq(Socket)]
    OBVIOUS
  <1>2. Shape'
    BY <1>1 DEF Inv, Shape, runners
  <1>3. Live' = Live /\ (AllAt("none")' <=> AllAt("none")) /\ (AllAt("gone")' <=> AllAt("gone"))
    BY WorkersRest DEF WorkerPCs
  <1>4. Control'
    BY <1>1, <1>3 DEF Inv, Control, runners
  <1>. QED
    BY <1>2, <1>4 DEF Inv, NoMisuse

(* One between places where no socket is open.                             *)
LEMMA NothingOpen ==
  ASSUME NEW pc \in RcPCs \ (Holding \union {"open"}), rc'.pc = pc,
         \A s \in Socket : state'[s] # "open"
  PROVE  Ownership'
  BY DEF Ownership

LEMMA StartStep ==
  ASSUME Inv, Start
  PROVE  Inv'
  <1>1. PICK pc \in {"check", "returned"} : rc' = [rc EXCEPT !.pc = pc]
    BY DEF Start
  <1>2. rc.pc = "start" /\ AllAt("none") /\ rc.opened \in Seq(Socket)
    BY DEF Start, Inv, Control, Shape
  <1>3. rc' = [pc |-> pc, opened |-> rc.opened] /\ pc \in RcPCs
    BY <1>1, SMTT(30) DEF Inv, Shape, RcPCs
  <1>4. \A s \in Socket : state[s] # "open"
    BY <1>2 DEF Inv, Ownership, Holding
  <1>5. Ownership'
    BY <1>3, <1>4, NothingOpen DEF Start, kernel, Holding
  <1>. QED
    BY <1>2, <1>3, <1>5, CaptureStep, Zenon DEF Start, Inv, Shape, kernel

(* Before Run there is no worker.                                          *)
LEMMA Polling ==
  ASSUME Inv, rc.pc # "start"
  PROVE  main = "polling"
  BY DEF Inv, Shape, Control

LEMMA CheckStopStep ==
  ASSUME Inv, CheckStop
  PROVE  Inv'
  <1>. DEFINE pc == IF stop THEN "returned" ELSE "open"
  <1>1. rc.pc = "check" /\ rc' = [pc |-> pc, opened |-> <<>>] /\ pc \in RcPCs
    BY DEF CheckStop, RcPCs
  <1>2. \A s \in Socket : state[s] # "open"
    BY <1>1 DEF Inv, Ownership, Holding
  <1>3. <<>> \in Seq(Socket) /\ Len(<<>>) = 0 /\ Elems(<<>>) = {}
    BY DEF Elems
  <1>4. Ownership'
    BY <1>1, <1>2, <1>3 DEF CheckStop, kernel, Ownership, Holding
  <1>5. AllAt("none") \/ (stop /\ AllAt("gone"))
    BY <1>1 DEF Inv, Control
  <1>. QED
    BY <1>1, <1>3, <1>4, <1>5, Polling, CaptureStep, Zenon
       DEF CheckStop, Inv, Shape, kernel, process

LEMMA OpenSocketStep ==
  ASSUME Inv, OpenSocket
  PROVE  Inv'
  <1>1. PICK n \in Fresh : Opens(n) /\ rc' = [rc EXCEPT !.opened = Append(@, n)]
    BY Zenon DEF OpenSocket
  <1>. DEFINE old == rc.opened
              seq == Append(old, n)
  <1>2. /\ rc.pc = "open" /\ Len(old) < NumWorkers /\ old \in Seq(Socket)
        /\ n \in Socket /\ state[n] = "new"
        /\ state \in [Socket -> {"new", "open", "closed"}]
    BY DEF OpenSocket, Fresh, Inv, Shape
  <1>3. rc' = [pc |-> "open", opened |-> seq]
    BY <1>1, <1>2, Zenon DEF Inv, Shape
  <1>4. /\ state' \in [Socket -> {"new", "open", "closed"}]
        /\ \A s \in Socket : state'[s] = "open" <=> state[s] = "open" \/ s = n
        /\ UNCHANGED <<tally, misuse>>
    BY <1>1, <1>2 DEF Opens
  <1>5. /\ Len(old) \in Nat /\ Len(seq) = Len(old) + 1 /\ seq \in Seq(Socket)
        /\ \A k \in 1 .. Len(old) : seq[k] = old[k]
        /\ seq[Len(old) + 1] = n
    BY <1>2
  <1>6. /\ \A s \in Socket : state[s] = "open" <=> s \in Elems(old)
        /\ \A k, l \in 1 .. Len(old) : old[k] = old[l] => k = l
    BY <1>2 DEF Inv, Ownership
  <1>7. Elems(old) = {old[k] : k \in 1 .. Len(old)}
        /\ Elems(seq) = {seq[k] : k \in 1 .. Len(seq)}
    BY <1>2, <1>5 DEF Elems
  <1>. HIDE DEF old, seq
  <1>8. Elems(seq) = Elems(old) \union {n}
    BY <1>5, <1>7
  <1>9. n \notin Elems(old)
    BY <1>2, <1>6
  <1>10. \A k \in 1 .. Len(old) : old[k] # n
    BY <1>7, <1>9
  <1>11. \A k, l \in 1 .. Len(seq) : seq[k] = seq[l] => k = l
    BY <1>5, <1>6, <1>10
  <1>12. Ownership'
    <2>1. rc'.pc = "open" /\ rc'.opened = seq
      BY <1>3
    <2>2. \A s \in Socket : state'[s] = "open" <=> s \in Elems(seq)
      BY <1>4, <1>6, <1>8
    <2>3. Len(seq) <= NumWorkers
      BY <1>2, <1>5
    <2>4. Elems(rc.opened)' = Elems(seq)
      BY <2>1 DEF Elems
    <2>. QED
      BY <1>11, <2>1, <2>2, <2>3, <2>4 DEF Ownership, Holding
  <1>13. AllAt("none") /\ main = "polling"
    BY <1>2, Polling DEF Inv, Control
  <1>. QED
    BY <1>3, <1>4, <1>5, <1>12, <1>13, CaptureStep, Zenon
       DEF OpenSocket, Inv, Shape, process, RcPCs

(* What was opened is closed, and what was open had been opened here.      *)
LEMMA OpenFailsStep ==
  ASSUME Inv, OpenFails
  PROVE  Inv'
  <1>1. PICK tp \in Failed : Closes(Elems(rc.opened) \union tp)
    BY Zenon DEF OpenFails, OpenedSoFar
  <1>2. /\ rc.pc = "open" /\ rc.opened \in Seq(Socket)
        /\ rc' = [pc |-> "backoff", opened |-> <<>>]
    BY SMTT(30) DEF OpenFails, Inv, Shape
  <1>3. \A s \in Socket : state[s] = "open" <=> s \in Elems(rc.opened)
    BY <1>2 DEF Inv, Ownership
  <1>4. Elems(rc.opened) \subseteq Socket
    BY <1>2 DEF Elems
  <1>5. \A t \in Elems(rc.opened) \union tp : state[t] # "closed"
    BY <1>3, <1>4 DEF Failed, Fresh
  <1>6. /\ state' \in [Socket -> {"new", "open", "closed"}] /\ UNCHANGED <<tally, misuse>>
        /\ \A s \in Socket : state'[s] = "open"
                             <=> state[s] = "open" /\ s \notin Elems(rc.opened) \union tp
    BY <1>1, <1>5, ClosesFacts
  <1>7. \A s \in Socket : state'[s] # "open"
    BY <1>3, <1>6
  <1>8. Ownership'
    BY <1>2, <1>7, NothingOpen DEF Holding, RcPCs
  <1>9. AllAt("none") /\ main = "polling" /\ <<>> \in Seq(Socket)
    BY <1>2, Polling DEF Inv, Control
  <1>. QED
    <2>1. /\ UNCHANGED <<process, sockets, runners, wk, currentMgr, flush>> /\ scrape' = 0
          /\ sockets \in Seq(Socket) /\ Len(sockets) \in {0, NumWorkers}
          /\ currentMgr \in BOOLEAN /\ flush \in {"none", "wait", "load", "drops", "returned"}
      BY Zenon DEF OpenFails, Inv, Shape
    <2>2. "backoff" \in RcPCs /\ 0 \in 0 .. 1
      BY DEF RcPCs
    <2>. QED
      BY <1>2, <1>6, <1>8, <1>9, <2>1, <2>2, CaptureStep, Zenon DEF process

(* Open's local sockets become m.sockets, one for each worker.             *)
LEMMA OpenedStep ==
  ASSUME Inv, Opened
  PROVE  Inv'
  <1>1. /\ rc.pc = "open" /\ rc.opened \in Seq(Socket) /\ Len(rc.opened) = NumWorkers
        /\ rc' = [pc |-> "store", opened |-> <<>>] /\ sockets' = rc.opened
        /\ UNCHANGED <<state, tally, misuse, wk>> /\ scrape' = 1
    BY DEF Opened, Inv, Shape, kernel, GaugeWhenOpen
  <1>2. AllAt("none") /\ main = "polling" /\ <<>> \in Seq(Socket)
    BY <1>1, Polling DEF Inv, Control
  <1>3. \A i \in Worker, s \in Socket : Holds(i, s)' <=> s = rc.opened[i]
    BY <1>1, <1>2 DEF Holds, AllAt, At
  <1>4. \A i \in Worker : Steady(i)'
    BY <1>1, <1>2 DEF Steady, AllAt, At
  <1>5. Elems(rc.opened) = {rc.opened[i] : i \in Worker}
    BY <1>1 DEF Elems, Worker
  <1>6. \A s \in Socket : state[s] = "open" <=> \E i \in Worker : s = rc.opened[i]
    BY <1>1, <1>5 DEF Inv, Ownership
  <1>7. \A i, j \in Worker : rc.opened[i] = rc.opened[j] => i = j
    BY <1>1 DEF Inv, Ownership, Worker
  <1>8. Ownership'
    <2>1. \A s \in Socket : state'[s] = "open" <=> \E i \in Worker : Holds(i, s)'
      BY <1>1, <1>3, <1>6
    <2>2. \A i, j \in Worker : \A s \in Socket : Holds(i, s)' /\ Holds(j, s)' => i = j
      BY <1>3, <1>7
    <2>3. rc'.pc = "store" /\ Len(sockets') = NumWorkers
      BY <1>1
    <2>. QED
      BY <1>4, <2>1, <2>2, <2>3, SMTT(30) DEF Ownership, Holding
  <1>. QED
    <2>1. /\ UNCHANGED <<process, runners, wk, currentMgr, flush>>
          /\ currentMgr \in BOOLEAN /\ flush \in {"none", "wait", "load", "drops", "returned"}
          /\ state \in [Socket -> {"new", "open", "closed"}]
      BY Zenon DEF Opened, Inv, Shape
    <2>2. "store" \in RcPCs /\ 1 \in 0 .. 1 /\ Len(sockets') \in {0, NumWorkers}
      BY <1>1 DEF RcPCs
    <2>. QED
      BY <1>1, <1>2, <1>8, <2>1, <2>2, CaptureStep, Zenon DEF process

LEMMA BackoffStep ==
  ASSUME Inv, Backoff
  PROVE  Inv'
  <1>1. PICK pc \in {"returned", "check"} : rc' = [rc EXCEPT !.pc = pc]
    BY DEF Backoff
  <1>2. rc.pc = "backoff" /\ AllAt("none") /\ main = "polling" /\ rc.opened \in Seq(Socket)
    BY Polling DEF Backoff, Inv, Control, Shape
  <1>3. rc' = [pc |-> pc, opened |-> rc.opened] /\ pc \in RcPCs
    BY <1>1, SMTT(30) DEF Inv, Shape, RcPCs
  <1>4. \A s \in Socket : state[s] # "open"
    BY <1>2 DEF Inv, Ownership, Holding
  <1>5. Ownership'
    BY <1>3, <1>4, NothingOpen DEF Backoff, kernel, Holding
  <1>. QED
    BY <1>2, <1>3, <1>5, CaptureStep DEF Backoff, Inv, Shape, kernel, process

(* A step on the way through Run that leaves sockets and workers alone.    *)
LEMMA HoldingStep ==
  ASSUME Inv, NEW pc \in Holding, rc.pc \in Holding, rc'.pc = pc,
         UNCHANGED <<sockets, wk, state>>
  PROVE  Ownership'
  <1>1. /\ \A i \in Worker, s \in Socket : Holds(i, s)' <=> Holds(i, s)
        /\ \A i \in Worker : Steady(i)' <=> Steady(i)
    BY WorkersRest
  <1>2. rc'.pc \in Holding /\ rc'.pc # "open"
    BY DEF Holding
  <1>. QED
    BY <1>1, <1>2, Zenon DEF Inv, Ownership

LEMMA StoreManagerStep ==
  ASSUME Inv, StoreManager
  PROVE  Inv'
  <1>1. /\ rc.pc = "store" /\ rc' = [pc |-> "run", opened |-> rc.opened]
        /\ rc.opened \in Seq(Socket) /\ UNCHANGED <<sockets, wk, state, tally, misuse>>
    BY DEF StoreManager, Inv, Shape, kernel
  <1>2. AllAt("none") /\ main = "polling" /\ scrape = 1
    BY <1>1, Polling DEF Inv, Control
  <1>3. Ownership'
    BY <1>1, HoldingStep DEF Holding
  <1>. QED
    BY <1>1, <1>2, <1>3, CaptureStep, Zenon DEF StoreManager, Inv, Shape, process, RcPCs

(* Every worker starts, and running counts them.                           *)
LEMMA RunStep ==
  ASSUME Inv, Run
  PROVE  Inv'
  <1>1. /\ rc.pc = "run" /\ rc' = [pc |-> "join", opened |-> rc.opened]
        /\ rc.opened \in Seq(Socket) /\ running' = NumWorkers
        /\ UNCHANGED <<sockets, done, state, tally, misuse, scrape, process>>
    BY Zenon DEF Run, Inv, Shape, kernel, Ownership, Holding
  <1>2. AllAt("none") /\ main = "polling" /\ scrape = 1 /\ ~done
    BY <1>1, Polling DEF Inv, Control, AllAt, At, Worker
  <1>3. /\ wk' \in [Worker -> Locals]
        /\ \A i \in Worker : wk'[i].pc = "start" /\ wk'[i].errs = wk[i].errs
    <2>1. \A r \in Locals : /\ [r EXCEPT !.pc = "start"] \in Locals
                            /\ [r EXCEPT !.pc = "start"].pc = "start"
                            /\ [r EXCEPT !.pc = "start"].errs = r.errs
      BY Zenon DEF Locals, WorkerPCs
    <2>2. \A i \in Worker : wk[i] \in Locals
      BY DEF Inv, Shape
    <2>. QED
      BY <2>1, <2>2, Zenon DEF Run
  <1>4. Live' = Worker
    BY <1>3 DEF Live
  <1>5. Cardinality(Worker) = NumWorkers
    BY FS_Interval DEF Worker
  <1>6. Shape'
    <2>1. \A i \in Worker : wk'[i].errs < loopErrReopenAfter
      BY <1>2, <1>3, Zenon DEF Inv, Shape, AllAt, At
    <2>2. rc' \in [pc : RcPCs, opened : Seq(Socket)]
      BY <1>1 DEF RcPCs
    <2>. QED
      BY <1>1, <1>3, <2>1, <2>2, SMTT(30) DEF Run, Inv, Shape, process
  <1>7. Control'
    <2>1. \A i \in Worker : ~At(i, "none")'
      BY <1>3 DEF At
    <2>2. rc'.pc = "join"
      BY <1>1
    <2>. QED
      BY <1>1, <1>2, <1>4, <1>5, <2>1, <2>2 DEF Control, process
  <1>8. Ownership'
    <2>1. \A i \in Worker, s \in Socket : Holds(i, s)' <=> Holds(i, s)
      BY <1>1, <1>2, <1>3, SMTT(30) DEF Holds, AllAt, At
    <2>2. \A i \in Worker : Steady(i)'
      BY <1>3 DEF Steady, At
    <2>3. rc'.pc = "join"
      BY <1>1
    <2>. QED
      BY <1>1, <2>1, <2>2, <2>3, Zenon DEF Inv, Ownership, Holding
  <1>. QED
    BY <1>1, <1>6, <1>7, <1>8 DEF Inv, NoMisuse

(* Run returns only when every worker has ended.                           *)
LEMMA JoinStep ==
  ASSUME Inv, Join
  PROVE  Inv'
  <1>1. /\ rc.pc = "join" /\ stop /\ done /\ rc' = [pc |-> "close", opened |-> rc.opened]
        /\ rc.opened \in Seq(Socket) /\ UNCHANGED <<sockets, wk, state, tally, misuse>>
    BY SMTT(30) DEF Join, StopAndDone, Inv, Shape, kernel
  <1>2. AllAt("gone") /\ main = "polling" /\ scrape = 1
    BY <1>1, Polling DEF Inv, Control
  <1>3. Ownership'
    BY <1>1, HoldingStep DEF Holding
  <1>. QED
    BY <1>1, <1>2, <1>3, CaptureStep, Zenon DEF Join, Inv, Shape, process, RcPCs

(* The workers are gone, so m.sockets are all the open sockets.            *)
LEMMA CloseStep ==
  ASSUME Inv, Close
  PROVE  Inv'
  <1>1. /\ rc.pc = "close" /\ rc' = [pc |-> "gauge", opened |-> rc.opened]
        /\ rc.opened \in Seq(Socket) /\ Closes(Elems(sockets))
    BY SMTT(30) DEF Close, Inv, Shape
  <1>2. stop /\ AllAt("gone") /\ main = "polling" /\ scrape = 1
    BY <1>1, Polling DEF Inv, Control
  <1>3. \A i \in Worker, s \in Socket : Holds(i, s) <=> s = sockets[i]
    BY <1>2 DEF Holds, AllAt, At
  <1>4. Elems(sockets) = {sockets[i] : i \in Worker} /\ \A i \in Worker : sockets[i] \in Socket
    BY <1>1, SocketsOfWorkers DEF Inv, Ownership, Holding
  <1>5. \A s \in Socket : state[s] = "open" <=> s \in Elems(sockets)
    <2>1. \A s \in Socket : state[s] = "open" <=> \E i \in Worker : Holds(i, s)
      BY <1>1 DEF Inv, Ownership, Holding
    <2>. QED
      BY <1>3, <1>4, <2>1, SMTT(30)
  <1>6. \A t \in Elems(sockets) : state[t] # "closed"
    BY <1>4, <1>5
  <1>7. /\ state' \in [Socket -> {"new", "open", "closed"}] /\ UNCHANGED <<tally, misuse>>
        /\ \A s \in Socket : state'[s] = "open" <=> state[s] = "open" /\ s \notin Elems(sockets)
    BY <1>1, <1>6, ClosesFacts
  <1>8. Ownership'
    BY <1>1, <1>5, <1>7, NothingOpen, SMTT(30) DEF Holding, RcPCs
  <1>. QED
    BY <1>1, <1>2, <1>7, <1>8, CaptureStep, Zenon DEF Close, Inv, Shape, process, RcPCs

LEMMA SetScrapeStep ==
  ASSUME Inv, SetScrape
  PROVE  Inv'
  <1>1. /\ rc.pc = "gauge" /\ rc' = [pc |-> "check", opened |-> rc.opened]
        /\ rc.opened \in Seq(Socket) /\ UNCHANGED <<state, tally, misuse>>
    BY SMTT(30) DEF SetScrape, Inv, Shape, kernel
  <1>2. stop /\ AllAt("gone") /\ main = "polling"
    BY <1>1, Polling DEF Inv, Control
  <1>3. \A s \in Socket : state[s] # "open"
    BY <1>1 DEF Inv, Ownership, Holding
  <1>4. Ownership'
    BY <1>1, <1>3, NothingOpen DEF Holding, RcPCs
  <1>. QED
    <2>1. /\ UNCHANGED <<process, sockets, runners, wk, currentMgr, flush>> /\ scrape' = 0
          /\ sockets \in Seq(Socket) /\ Len(sockets) \in {0, NumWorkers}
          /\ currentMgr \in BOOLEAN /\ flush \in {"none", "wait", "load", "drops", "returned"}
          /\ state \in [Socket -> {"new", "open", "closed"}]
      BY Zenon DEF SetScrape, Inv, Shape
    <2>2. "check" \in RcPCs /\ 0 \in 0 .. 1
      BY DEF RcPCs
    <2>. QED
      BY <1>1, <1>2, <1>4, <2>1, <2>2, CaptureStep DEF process
-----------------------------------------------------------------------------
LEMMA NextInv == Inv /\ [Next]_vars => Inv'
  <1>. SUFFICES ASSUME Inv, [Next]_vars PROVE Inv'
    OBVIOUS
  <1>0. /\ stop \in BOOLEAN /\ signals \in 0 .. 1 /\ currentMgr \in BOOLEAN
        /\ flush \in {"none", "wait", "load", "drops", "returned"} /\ tally \in [Socket -> Nat]
    BY Zenon DEF Inv, Shape
  <1>1. CASE Signal
    <2>1. /\ UNCHANGED <<stop, main, rc, sockets, runners, wk, currentMgr, flush, scrape, kernel>>
          /\ signals' = 1
      BY <1>1 DEF Signal
    <2>. QED
      BY <2>1, <1>0, WorldStep DEF kernel
  <1>2. CASE CloseStop
    <2>1. /\ UNCHANGED <<main, rc, sockets, runners, wk, currentMgr, flush, scrape, kernel>>
          /\ stop' = TRUE /\ signals' = 0
      BY <1>2 DEF CloseStop
    <2>. QED
      BY <2>1, <1>0, WorldStep DEF kernel
  <1>3. CASE Start
    BY <1>3, StartStep
  <1>4. CASE runCapture
    BY <1>4, CheckStopStep, OpenSocketStep, OpenFailsStep, OpenedStep, BackoffStep,
       StoreManagerStep, RunStep, JoinStep, CloseStep, SetScrapeStep, SMTT(30) DEF runCapture
  <1>5. CASE \E i \in Worker : RunWorker(i)
    BY <1>5, RunWorkerStep
  <1>6. CASE flushForever
    <2>1. UNCHANGED <<process, rc, sockets, runners, wk, currentMgr, scrape, kernel>>
      BY <1>6 DEF flushForever
    <2>2. flush' \in {"none", "wait", "load", "drops", "returned"}
      BY <1>6 DEF flushForever, FlushOnTick, FlushOnStop
    <2>. QED
      BY <1>0, <2>1, <2>2, WorldStep DEF kernel, process
  <1>7. CASE Drop
    <2>1. UNCHANGED <<process, rc, sockets, runners, wk, currentMgr, flush, scrape, state, misuse>>
      BY <1>7 DEF Drop
    <2>2. tally' \in [Socket -> Nat]
      BY <1>7 DEF Drop, Inv, Shape
    <2>. QED
      BY <1>0, <2>1, <2>2, WorldStep DEF process
  <1>8. CASE UNCHANGED vars
    BY <1>0, <1>8, WorldStep DEF vars, runners
  <1>. QED
    BY <1>1, <1>2, <1>3, <1>4, <1>5, <1>6, <1>7, <1>8, SMTT(30) DEF Next, RunForever

LEMMA InvAlways == Spec => []Inv
  BY InitInv, NextInv, PTL DEF Spec

(* The state of the capture stays well-formed; in particular the backoff   *)
(* of RunWorker stays within its limits, and its count of consecutive      *)
(* errors within loopErrReopenAfter (manager.go:173-207).                  *)
THEOREM TypeCorrect == Spec => []TypeOK
  <1>1. Inv => TypeOK
    <2>. SUFFICES ASSUME Inv PROVE TypeOK
      OBVIOUS
    <2>1. Elems(rc.opened) \subseteq Socket /\ Elems(sockets) \subseteq Socket
      <3>1. rc.opened \in Seq(Socket) /\ sockets \in Seq(Socket)
        BY DEF Inv, Shape
      <3>2. \A seq \in Seq(Socket) : Elems(seq) \subseteq Socket
        BY DEF Elems
      <3>. QED
        BY <3>1, <3>2
    <2>2. running \in 0 .. NumWorkers
      <3>1. IsFiniteSet(Worker) /\ Cardinality(Worker) = NumWorkers
        BY FS_Interval DEF Worker
      <3>2. Cardinality(Live) <= NumWorkers
        BY <3>1, FS_Subset DEF Live
      <3>. QED
        BY <3>2, LiveFinite DEF Inv, Control
    <2>. QED
      BY <2>1, <2>2 DEF Inv, Shape, TypeOK, Locals
  <1>. QED
    BY <1>1, InvAlways, PTL

(* manager.go:127-133, 157-252. However workers reopen their sockets while *)
(* capture shuts down, none is closed twice or read when closed, and Run's *)
(* channel is closed once.                                                 *)
THEOREM NeverMisused == Spec => []NoMisuse
  <1>1. Inv => NoMisuse
    BY DEF Inv
  <1>. QED
    BY <1>1, InvAlways, PTL

(* manager.go:83-98, 224-235, main.go:172-206. Every open socket has an    *)
(* owner, and none is open while runCapture waits or after it returned,    *)
(* whichever calls fail.                                                   *)
THEOREM NothingLeaks == Spec => []NoLeak
  <1>1. Inv => NoLeak
    <2>. SUFFICES ASSUME Inv, NEW s \in Socket, state[s] = "open"
                  PROVE  s \in Owned /\ rc.pc \notin {"check", "backoff", "returned"}
      BY DEF NoLeak
    <2>1. rc.pc \in Holding \union {"open"}
      BY DEF Inv, Ownership
    <2>2. CASE rc.pc = "open"
      BY <2>2 DEF Inv, Ownership, Owned
    <2>3. CASE rc.pc \in Holding
      <3>1. PICK i \in Worker : Holds(i, s)
        BY <2>3, SMTT(30) DEF Inv, Ownership
      <3>2. Elems(sockets) = {sockets[j] : j \in Worker}
        BY <2>3, SocketsOfWorkers, SMTT(30) DEF Inv, Ownership
      <3>. QED
        BY <2>3, <3>1, <3>2, SMTT(30) DEF Holds, Owned, Holding
    <2>. QED
      BY <2>1, <2>2, <2>3
  <1>. QED
    BY <1>1, InvAlways, PTL

(* main.go:169-171. The gauge is 1 whenever a worker runs.                 *)
THEOREM GaugeWhileRunning == Spec => []ScrapeWhileRunning
  <1>1. Inv => ScrapeWhileRunning
    BY LiveJoins DEF Inv, Control, ScrapeWhileRunning
  <1>. QED
    BY <1>1, InvAlways, PTL
-----------------------------------------------------------------------------
(* The refinement of DropTally. KernelDrops sums the visible sockets; the  *)
(* drops on incoming ones are unseen.                                      *)
Visible == {s \in Elems(sockets) : state[s] = "open"}

Incoming == Elems(rc.opened) \union {wk[i].next : i \in {j \in Worker : At(j, "swap")}}

(* A socket starts with a tally of zero, Open's local sockets are only     *)
(* there inside Open, and m.sockets is empty until Open has succeeded.     *)
TallyInv ==
  /\ \A s \in Socket : state[s] = "new" => tally[s] = 0
  /\ rc.pc # "open" => rc.opened = <<>>
  /\ rc.pc \notin {"store", "run"} /\ AllAt("none") => sockets = <<>>

(* No socket is counted as visible and as incoming at once.                *)
Apart ==
  Visible \subseteq Socket /\ Incoming \subseteq Socket /\ Visible \intersect Incoming = {}

LEMMA ElemsFacts ==
  /\ Elems(<<>>) = {} /\ \A seq \in Seq(Socket) : Elems(seq) \subseteq Socket
  BY DEF Elems

LEMMA SocketFinite == IsFiniteSet(Socket)
  <1>1. 1 \in Int /\ MaxSockets \in Int
    OBVIOUS
  <1>. QED
    BY <1>1, FS_Interval, Zenon DEF Socket

(* The workers exist from Run to the end; none of them swaps at other      *)
(* times.                                                                  *)
LEMMA SwapsUnderRun ==
  ASSUME Inv, NEW i \in Worker, At(i, "swap")
  PROVE  rc.pc = "join" /\ wk[i].next \in Socket /\ wk[i].next # sockets[i]
  <1>1. wk[i].pc \notin {"none", "gone"}
    BY DEF At
  <1>. QED
    BY <1>1, LoopFacts DEF Steady

LEMMA NobodyHome ==
  ASSUME Inv, TallyInv, rc.pc \notin {"store", "run", "join", "close", "gauge"}
  PROVE  Visible = {}
  <1>1. CASE AllAt("none")
    BY <1>1, ElemsFacts, Zenon DEF TallyInv, Visible
  <1>2. CASE ~AllAt("none")
    <2>1. rc.pc \in RcPCs /\ sockets \in Seq(Socket)
      BY DEF Inv, Shape
    <2>2. rc.pc \notin Holding \union {"open"}
      BY <1>2, <2>1, SMTT(30) DEF Inv, Control, Holding, RcPCs
    <2>3. \A s \in Socket : state[s] # "open"
      BY <2>2 DEF Inv, Ownership
    <2>. QED
      BY <2>1, <2>3, ElemsFacts, Zenon DEF Visible
  <1>. QED
    BY <1>1, <1>2

LEMMA ApartFacts == Inv /\ TallyInv => Apart
  <1>. SUFFICES ASSUME Inv, TallyInv PROVE Apart
    OBVIOUS
  <1>1. sockets \in Seq(Socket) /\ rc.opened \in Seq(Socket) /\ rc.pc \in RcPCs
    BY DEF Inv, Shape
  <1>2. Visible \subseteq Socket
    BY <1>1, ElemsFacts, Zenon DEF Visible
  <1>3. Incoming \subseteq Socket
    BY <1>1, ElemsFacts, SwapsUnderRun, Zenon DEF Incoming
  <1>4. CASE rc.pc = "join"
    <2>1. Elems(rc.opened) = {}
      BY <1>4, ElemsFacts, Zenon DEF TallyInv
    <2>2. /\ Len(sockets) = NumWorkers
          /\ \A i, j \in Worker : \A s \in Socket : Holds(i, s) /\ Holds(j, s) => i = j
      BY <1>4 DEF Inv, Ownership, Holding
    <2>3. ASSUME NEW i \in Worker, NEW j \in Worker, At(j, "swap"), sockets[i] = wk[j].next
          PROVE  FALSE
      <3>1. wk[j].next \in Socket /\ wk[j].next # sockets[j]
        BY <2>3, SwapsUnderRun
      <3>2. Holds(i, wk[j].next) /\ Holds(j, wk[j].next)
        BY <2>3, Zenon DEF Holds
      <3>. QED
        BY <2>2, <2>3, <3>1, <3>2, Zenon
    <2>4. Elems(sockets) = {sockets[i] : i \in Worker}
      BY <2>2, SocketsOfWorkers
    <2>. QED
      BY <1>2, <1>3, <2>1, <2>3, <2>4, Zenon DEF Apart, Visible, Incoming
  <1>5. CASE rc.pc # "join"
    <2>1. Incoming = Elems(rc.opened)
      BY <1>5, SwapsUnderRun, Zenon DEF Incoming
    <2>2. CASE rc.pc = "open"
      BY <1>2, <1>3, <2>2, NobodyHome, Zenon DEF Apart
    <2>3. CASE rc.pc # "open"
      BY <1>2, <1>3, <2>1, <2>3, ElemsFacts, Zenon DEF Apart, TallyInv
    <2>. QED
      BY <2>2, <2>3
  <1>. QED
    BY <1>4, <1>5
-----------------------------------------------------------------------------
(* A step in which nothing is dropped: sockets become visible only from    *)
(* among the incoming ones, and what comes in has a tally of zero.         *)
Moves ==
  /\ tally' = tally /\ Visible' \subseteq Visible \union Incoming
  /\ \A s \in Incoming' : s \in Incoming \/ tally[s] = 0

LEMMA MovesChange ==
  ASSUME Inv, Apart, Apart', Moves
  PROVE  TallyOf!SocketsChange
  <1>. DEFINE S(A) == SumOver(tally, A)
              V == Visible
              U == Incoming
              W == Visible'
              X == Incoming'
  <1>1. \A s \in Socket : tally[s] \in Nat
    BY DEF Inv, Shape
  <1>2. /\ V \in SUBSET Socket /\ U \in SUBSET Socket /\ V \intersect U = {}
        /\ W \in SUBSET Socket /\ X \in SUBSET Socket /\ W \intersect X = {}
    BY DEF Apart
  <1>3. W \subseteq V \union U /\ \A s \in X : s \in U \/ tally[s] = 0
    BY DEF Moves
  <1>. HIDE DEF V, U, W, X
  <1>4. SumMoves(tally, V, U, W, X)
    BY <1>1, <1>2, <1>3, SocketFinite, SumMove, Zenon
  <1>5. KernelDrops = S(V) /\ KernelDrops' = S(W)
    BY DEF KernelDrops, SumTallies, V, W, Visible, Moves
  <1>6. /\ SumTallies(Incoming) = S(U) /\ SumTallies(Incoming)' = S(X)
        /\ SumTallies(Socket)' = SumTallies(Socket)
    BY DEF SumTallies, U, X, Moves
  <1>7. \E gone \in 0 .. S(V), new \in 0 .. S(U) :
          S(W) = S(V) - gone + new /\ S(X) \in 0 .. S(U) - new
    BY <1>4, SMTT(30) DEF SumMoves
  <1>. HIDE DEF S
  <1>. QED
    BY <1>5, <1>6, <1>7, Zenon DEF TallyOf!SocketsChange, Incoming

LEMMA QuietMoves ==
  ASSUME tally' = tally, sockets' = sockets,
         \A s \in Elems(sockets) : state'[s] = "open" => state[s] = "open",
         Elems(rc'.opened) \subseteq Elems(rc.opened),
         \A i \in Worker : wk'[i].pc = "swap" => wk[i].pc = "swap" /\ wk'[i].next = wk[i].next
  PROVE  Moves
  <1>1. Visible' \subseteq Visible
    BY DEF Visible
  <1>2. Incoming' \subseteq Incoming
    BY Zenon DEF Incoming, At
  <1>. QED
    BY <1>1, <1>2 DEF Moves

LEMMA ClosesMoves ==
  ASSUME Inv, NEW S, Closes(S)
  PROVE  /\ tally' = tally
         /\ \A s \in Socket : /\ state'[s] = "open" => state[s] = "open"
                              /\ state'[s] = "new" => state[s] = "new"
  BY Zenon DEF Closes

(* A step of RunWorker keeps the invariant: it is taken under Run.         *)
LEMMA WorkerTally ==
  ASSUME Inv, TallyInv, NEW i \in Worker, wk[i].pc \notin {"none", "gone"},
         wk'[i].pc # "none", UNCHANGED <<rc, tally>>,
         \A s \in Socket : state'[s] = "new" => state[s] = "new"
  PROVE  TallyInv'
  <1>1. rc.pc = "join"
    BY LiveJoins
  <1>2. ~AllAt("none")'
    BY Zenon DEF AllAt, At
  <1>. QED
    BY <1>1, <1>2 DEF TallyInv

LEMMA RunWorkerMoves ==
  ASSUME Inv, TallyInv, NEW i \in Worker, RunWorker(i)
  PROVE  TallyInv' /\ Moves
  <1>1. rc' = rc /\ wk[i].pc \notin {"none", "gone"}
    BY Zenon DEF RunWorker, TakeSocket, Loop, Read, Pause, Reopen, Swap, CloseOld, Exit, At
  <1>2. /\ wk \in [Worker -> Locals] /\ sockets \in Seq(Socket) /\ rc.pc = "join"
        /\ DOMAIN sockets = Worker /\ Len(sockets) = NumWorkers
        /\ Elems(sockets) = {sockets[j] : j \in Worker} /\ Elems(sockets) \subseteq Socket
    <2>1. wk \in [Worker -> Locals] /\ sockets \in Seq(Socket)
      BY DEF Inv, Shape
    <2>. QED
      BY <1>1, <2>1, LoopFacts, SocketsOfWorkers, ElemsFacts, SMTT(30)
  <1>3. ASSUME NEW rec, wk' = [wk EXCEPT ![i] = rec], rec.pc \notin {"none", "swap"},
               UNCHANGED <<sockets, tally>>,
               \A s \in Socket : /\ state'[s] = "open" => state[s] = "open"
                                 /\ state'[s] = "new" => state[s] = "new"
        PROVE  TallyInv' /\ Moves
    <2>1. wk'[i] = rec /\ \A j \in Worker \ {i} : wk'[j] = wk[j]
      BY <1>2, <1>3, Zenon
    <2>2. TallyInv'
      BY <1>1, <1>3, <2>1, WorkerTally
    <2>3. \A j \in Worker : wk'[j].pc = "swap" => wk[j].pc = "swap" /\ wk'[j].next = wk[j].next
      BY <1>3, <2>1, Zenon
    <2>4. \A s \in Elems(sockets) : state'[s] = "open" => state[s] = "open"
      BY <1>2, <1>3
    <2>. QED
      BY <1>1, <1>3, <2>2, <2>3, <2>4, QuietMoves, Zenon
  <1>4. CASE TakeSocket(i)
    <2>. DEFINE rec == [wk[i] EXCEPT !.pc = "loop", !.sock = sockets[i]]
    <2>1. wk' = [wk EXCEPT ![i] = rec] /\ UNCHANGED <<sockets, tally, state>>
      BY <1>4, Zenon DEF TakeSocket, kernel
    <2>2. rec.pc = "loop"
      BY <1>2 DEF Locals
    <2>. HIDE DEF rec
    <2>. QED
      BY <1>3, <2>1, <2>2, Zenon
  <1>5. ASSUME NEW pc \in {"loop", "read", "exit", "gone"}, Goto(i, pc),
               UNCHANGED <<sockets, tally, state>>
        PROVE  TallyInv' /\ Moves
    <2>. DEFINE rec == [wk[i] EXCEPT !.pc = pc]
    <2>1. wk' = [wk EXCEPT ![i] = rec] /\ rec.pc = pc
      BY <1>2, <1>5, Zenon DEF Goto, Locals
    <2>. HIDE DEF rec
    <2>. QED
      BY <1>3, <1>5, <2>1, Zenon
  <1>6. CASE Loop(i)
    BY <1>5, <1>6 DEF Loop, kernel
  <1>7. CASE Read(i)
    <2>1. UNCHANGED <<sockets, tally, state>>
      BY <1>7, Zenon DEF Read
    <2>2. CASE wk' = [wk EXCEPT ![i].pc = "loop", ![i].errs = 0, ![i].backoff = loopErrBackoffMin]
      <3>. DEFINE rec == [wk[i] EXCEPT !.pc = "loop", !.errs = 0, !.backoff = loopErrBackoffMin]
      <3>1. wk' = [wk EXCEPT ![i] = rec] /\ rec.pc = "loop"
        BY <1>2, <2>2, Zenon DEF Locals
      <3>. HIDE DEF rec
      <3>. QED
        BY <1>3, <2>1, <3>1, Zenon
    <2>3. CASE wk' = [wk EXCEPT ![i].errs = @ + 1,
                                ![i].pc = IF wk[i].errs + 1 >= loopErrReopenAfter
                                          THEN "reopen" ELSE "pause"]
      <3>. DEFINE rec == [wk[i] EXCEPT !.errs = @ + 1,
                            !.pc = IF wk[i].errs + 1 >= loopErrReopenAfter
                                   THEN "reopen" ELSE "pause"]
      <3>1. wk' = [wk EXCEPT ![i] = rec] /\ rec.pc \in {"reopen", "pause"}
        BY <1>2, <2>3, Zenon DEF Locals
      <3>. HIDE DEF rec
      <3>. QED
        BY <1>3, <2>1, <3>1, Zenon
    <2>. QED
      BY <1>5, <1>7, <2>1, <2>2, <2>3, Zenon DEF Read
  <1>8. CASE Pause(i)
    <2>1. UNCHANGED <<sockets, tally, state>>
      BY <1>8 DEF Pause, kernel
    <2>2. CASE wk' = [wk EXCEPT ![i].pc = "loop", ![i].backoff = Capped(2 * @)]
      <3>. DEFINE rec == [wk[i] EXCEPT !.pc = "loop", !.backoff = Capped(2 * @)]
      <3>1. wk' = [wk EXCEPT ![i] = rec] /\ rec.pc = "loop"
        BY <1>2, <2>2, Zenon DEF Locals
      <3>. HIDE DEF rec
      <3>. QED
        BY <1>3, <2>1, <3>1, Zenon
    <2>. QED
      BY <1>5, <1>8, <2>1, <2>2, Zenon DEF Pause
  <1>9. CASE Reopen(i)
    <2>1. sockets' = sockets
      BY <1>9 DEF Reopen
    <2>2. ASSUME NEW tp \in Failed, Closes(tp),
                 wk' = [wk EXCEPT ![i].pc = WhenReopenFails, ![i].errs = 0,
                                  ![i].backoff = loopErrBackoffMin]
          PROVE  TallyInv' /\ Moves
      <3>. DEFINE rec == [wk[i] EXCEPT !.pc = "loop", !.errs = 0, !.backoff = loopErrBackoffMin]
      <3>1. wk' = [wk EXCEPT ![i] = rec] /\ rec.pc = "loop"
        BY <1>2, <2>2, Zenon DEF Locals, WhenReopenFails
      <3>. HIDE DEF rec
      <3>. QED
        BY <1>3, <2>1, <2>2, <3>1, ClosesMoves, Zenon
    <2>3. ASSUME NEW n \in Fresh, Opens(n), wk' = [wk EXCEPT ![i].pc = "swap", ![i].next = n]
          PROVE  TallyInv' /\ Moves
      <3>1. n \in Socket /\ state[n] = "new" /\ tally[n] = 0 /\ tally' = tally
        BY <2>3 DEF Fresh, Opens, TallyInv
      <3>2. /\ wk'[i].pc = "swap" /\ wk'[i].next = n
            /\ \A j \in Worker \ {i} : wk'[j] = wk[j]
        BY <1>2, <2>3, Zenon DEF Locals
      <3>3. \A s \in Socket : /\ state'[s] = "new" => state[s] = "new"
                              /\ state'[s] = "open" => state[s] = "open" \/ s = n
        BY <2>3, <3>1 DEF Opens, Inv, Shape
      <3>4. TallyInv'
        BY <1>1, <3>1, <3>2, <3>3, WorkerTally, SMTT(30)
      <3>5. n \notin Elems(sockets)
        <4>1. \A j \in Worker : Holds(j, sockets[j]) /\ sockets[j] \in Socket
          BY <1>2, SocketsOfWorkers, SMTT(30) DEF Holds
        <4>2. \A j \in Worker : state[sockets[j]] = "open"
          BY <1>2, <4>1, SMTT(30) DEF Inv, Ownership, Holding
        <4>. QED
          BY <1>2, <3>1, <4>2, SMTT(30)
      <3>6. Visible' \subseteq Visible
        BY <1>2, <2>1, <3>3, <3>5 DEF Visible
      <3>7. \A s \in Incoming' : s \in Incoming \/ s = n
        BY <1>1, <3>2, Zenon DEF Incoming, At
      <3>. QED
        BY <3>1, <3>4, <3>6, <3>7 DEF Moves
    <2>. QED
      BY <1>9, <2>2, <2>3, Zenon DEF Reopen
  <1>10. CASE Swap(i)
    <2>. DEFINE rec == [wk[i] EXCEPT !.pc = "closeold"]
                n == wk[i].next
    <2>1. /\ wk' = [wk EXCEPT ![i] = rec] /\ sockets' = [sockets EXCEPT ![i] = n]
          /\ UNCHANGED <<tally, state>> /\ wk[i].pc = "swap"
      BY <1>10 DEF Swap, Goto, kernel, At
    <2>2. rec.pc = "closeold"
      BY <1>2, Zenon DEF Locals
    <2>3. n \in Incoming
      BY <2>1, Zenon DEF Incoming, At
    <2>. HIDE DEF rec, n
    <2>4. wk'[i] = rec /\ \A j \in Worker \ {i} : wk'[j] = wk[j]
      BY <1>2, <2>1, Zenon
    <2>5. TallyInv'
      BY <1>1, <2>1, <2>2, <2>4, WorkerTally
    <2>6. Elems(sockets') \subseteq Elems(sockets) \union {n}
      BY <1>2, <2>1 DEF Elems
    <2>7. Visible' \subseteq Visible \union {n}
      BY <2>1, <2>6, Zenon DEF Visible
    <2>8. Incoming' \subseteq Incoming
      BY <1>1, <2>2, <2>4, Zenon DEF Incoming, At
    <2>. QED
      BY <2>1, <2>3, <2>5, <2>7, <2>8 DEF Moves
  <1>11. CASE CloseOld(i)
    <2>. DEFINE rec == [wk[i] EXCEPT !.pc = "loop", !.sock = wk[i].next, !.next = None,
                                     !.errs = 0, !.backoff = loopErrBackoffMin]
    <2>1. wk' = [wk EXCEPT ![i] = rec] /\ Closes({wk[i].sock}) /\ sockets' = sockets
      BY <1>11, Zenon DEF CloseOld
    <2>2. rec.pc = "loop"
      BY <1>2, Zenon DEF Locals
    <2>. HIDE DEF rec
    <2>. QED
      BY <1>3, <2>1, <2>2, ClosesMoves, Zenon
  <1>12. CASE Exit(i)
    BY <1>5, <1>12, ZenonT(30) DEF Exit
  <1>. QED
    BY <1>4, <1>6, <1>7, <1>8, <1>9, <1>10, <1>11, <1>12, SMTT(30) DEF RunWorker

(* A step of runCapture, or the one that starts it, that keeps m.sockets.  *)
LEMMA RestMoves ==
  ASSUME Inv, TallyInv, NEW pc, NEW seq, rc' = [pc |-> pc, opened |-> seq],
         seq = <<>> \/ seq = rc.opened,
         pc # "open" => seq = <<>>, rc.pc \in {"store", "run"} => pc \in {"store", "run"},
         UNCHANGED <<sockets, wk, tally>>,
         \A s \in Socket : /\ state'[s] = "open" => state[s] = "open"
                           /\ state'[s] = "new" => state[s] = "new"
  PROVE  TallyInv' /\ Moves
  <1>1. rc'.pc = pc /\ rc'.opened = seq
    BY Zenon
  <1>2. AllAt("none")' <=> AllAt("none")
    BY Zenon DEF AllAt, At
  <1>3. TallyInv'
    <2>1. \A s \in Socket : state'[s] = "new" => tally'[s] = 0
      BY Zenon DEF TallyInv
    <2>2. rc'.pc # "open" => rc'.opened = <<>>
      BY <1>1, Zenon
    <2>3. rc'.pc \notin {"store", "run"} /\ AllAt("none")' => sockets' = <<>>
      BY <1>1, <1>2, Zenon DEF TallyInv
    <2>. QED
      BY <2>1, <2>2, <2>3, Zenon DEF TallyInv
  <1>4. Elems(rc'.opened) \subseteq Elems(rc.opened)
    BY <1>1, ElemsFacts
  <1>5. \A s \in Elems(sockets) : state'[s] = "open" => state[s] = "open"
    BY ElemsFacts DEF Inv, Shape
  <1>. QED
    BY <1>3, <1>4, <1>5, QuietMoves, ZenonT(30)

LEMMA runCaptureMoves ==
  ASSUME Inv, TallyInv, runCapture \/ Start
  PROVE  TallyInv' /\ Moves
  <1>1. /\ rc \in [pc : RcPCs, opened : Seq(Socket)] /\ sockets \in Seq(Socket)
        /\ state \in [Socket -> {"new", "open", "closed"}]
    BY DEF Inv, Shape
  <1>2. \A pc : [rc EXCEPT !.pc = pc] = [pc |-> pc, opened |-> rc.opened]
    BY <1>1
  <1>3. ASSUME NEW pc \in {"check", "returned", "run", "close", "gauge"},
               rc' = [rc EXCEPT !.pc = pc], rc.pc \notin {"open", "run"},
               rc.pc = "store" => pc = "run", UNCHANGED <<sockets, wk, tally>>,
               \A s \in Socket : /\ state'[s] = "open" => state[s] = "open"
                                 /\ state'[s] = "new" => state[s] = "new"
        PROVE  TallyInv' /\ Moves
    <2>1. rc.opened = <<>>
      BY <1>3 DEF TallyInv
    <2>2. rc' = [pc |-> pc, opened |-> rc.opened]
      BY <1>2, <1>3, Zenon
    <2>. QED
      BY <1>3, <2>1, <2>2, RestMoves, Zenon
  <1>4. CASE Start
    <2>1. rc.pc = "start"
      BY <1>4, SMTT(30) DEF Start, Inv, Control
    <2>. QED
      BY <1>3, <1>4, <2>1 DEF Start, kernel
  <1>5. CASE CheckStop
    BY <1>5, RestMoves, SMTT(30) DEF CheckStop, kernel
  <1>6. CASE OpenSocket
    <2>1. PICK n \in Fresh : Opens(n) /\ rc' = [rc EXCEPT !.opened = Append(@, n)]
      BY <1>6, Zenon DEF OpenSocket
    <2>2. rc.pc = "open" /\ UNCHANGED <<sockets, wk>>
      BY <1>6 DEF OpenSocket
    <2>3. AllAt("none") /\ sockets = <<>>
      BY <2>2 DEF Inv, Control, TallyInv
    <2>4. n \in Socket /\ state[n] = "new" /\ tally[n] = 0 /\ tally' = tally
      BY <2>1 DEF Fresh, Opens, TallyInv
    <2>5. \A s \in Socket : state'[s] = "new" => state[s] = "new"
      BY <1>1, <2>1, <2>4 DEF Opens
    <2>6. rc'.pc = "open" /\ rc'.opened = Append(rc.opened, n)
      BY <1>1, <2>1, <2>2
    <2>7. TallyInv'
      BY <2>2, <2>3, <2>4, <2>5, <2>6 DEF TallyInv
    <2>8. Visible' = {}
      BY <2>2, <2>3, ElemsFacts, Zenon DEF Visible
    <2>9. Elems(rc'.opened) \subseteq Elems(rc.opened) \union {n}
      BY <1>1, <2>6 DEF Elems
    <2>10. \A s \in Incoming' : s \in Incoming \/ s = n
      BY <2>2, <2>9, Zenon DEF Incoming, At
    <2>. QED
      BY <2>4, <2>7, <2>8, <2>10 DEF Moves
  <1>7. CASE OpenFails
    <2>1. PICK tp \in Failed : Closes(OpenedSoFar \union tp)
      BY <1>7, Zenon DEF OpenFails
    <2>. QED
      BY <1>7, <2>1, ClosesMoves, RestMoves DEF OpenFails
  <1>8. CASE Opened
    <2>1. /\ sockets' = rc.opened /\ rc'.pc = "store" /\ rc'.opened = <<>>
          /\ UNCHANGED <<wk, state, tally>>
      BY <1>8 DEF Opened, kernel
    <2>2. TallyInv'
      BY <2>1 DEF TallyInv
    <2>3. Visible' \subseteq Incoming
      BY <2>1 DEF Visible, Incoming
    <2>4. Incoming' \subseteq Incoming
      BY <2>1, ElemsFacts, Zenon DEF Incoming, At
    <2>. QED
      BY <2>1, <2>2, <2>3, <2>4, SMTT(30) DEF Moves
  <1>9. CASE Backoff
    BY <1>3, <1>9 DEF Backoff, kernel
  <1>10. CASE StoreManager
    BY <1>3, <1>10 DEF StoreManager, kernel
  <1>11. CASE Run
    <2>1. /\ rc.pc = "run" /\ rc'.pc = "join" /\ rc'.opened = rc.opened
          /\ wk' = [i \in Worker |-> [wk[i] EXCEPT !.pc = "start"]]
          /\ UNCHANGED <<sockets, state, tally>>
      BY <1>1, <1>11 DEF Run, kernel
    <2>2. \A i \in Worker : wk'[i].pc = "start"
      BY <2>1, ZenonT(30) DEF Inv, Shape, Locals
    <2>3. 1 \in Worker
      BY DEF Worker
    <2>4. ~AllAt("none")'
      BY <2>2, <2>3, Zenon DEF AllAt, At
    <2>5. TallyInv'
      BY <2>1, <2>4 DEF TallyInv
    <2>. QED
      BY <2>1, <2>2, <2>5, QuietMoves, SMTT(30)
  <1>12. CASE Join
    BY <1>3, <1>12 DEF Join, kernel
  <1>13. CASE Close
    BY <1>3, <1>13, ClosesMoves DEF Close
  <1>14. CASE SetScrape
    BY <1>3, <1>14 DEF SetScrape, kernel
  <1>. QED
    BY <1>4, <1>5, <1>6, <1>7, <1>8, <1>9, <1>10, <1>11, <1>12, <1>13, <1>14, SMTT(30)
    DEF runCapture

(* A drop on a visible socket adds to the tally, one on an incoming socket *)
(* to what is unseen, any other to neither.                                *)
LEMMA DropKernel ==
  ASSUME Inv, Apart, Drop
  PROVE  TallyOf!KernelDrop
  <1>1. PICK s \in Socket : state[s] = "open" /\ tally' = [tally EXCEPT ![s] = @ + 1]
    BY Zenon DEF Drop
  <1>2. UNCHANGED <<rc, sockets, wk, state>> /\ SumTallies(Socket) < MaxDrops
    BY DEF Drop
  <1>3. /\ \A t \in Socket : tally[t] \in Nat /\ tally'[s] = tally[s] + 1
        /\ \A t \in Socket \ {s} : tally'[t] = tally[t]
    BY <1>1 DEF Inv, Shape
  <1>4. ASSUME NEW A \in SUBSET Socket
        PROVE  SumOver(tally', A) = IF s \in A THEN SumOver(tally, A) + 1 ELSE SumOver(tally, A)
    <2>1. IsFiniteSet(A) /\ \A t \in A : tally[t] \in Nat
      BY <1>3, SocketFinite, FS_Subset
    <2>2. CASE s \in A
      <3>1. SumOver(tally', A) = SumOver(tally, A) + 1
        BY <1>3, <2>1, <2>2, SumGrows
      <3>. QED
        BY <2>2, <3>1
    <2>3. CASE s \notin A
      BY <1>3, <2>3, SumEqual
    <2>. QED
      BY <2>2, <2>3
  <1>5. Visible' = Visible /\ Incoming' = Incoming
    BY <1>2, Zenon DEF Visible, Incoming, At
  <1>6. /\ KernelDrops = SumOver(tally, Visible) /\ KernelDrops' = SumOver(tally', Visible)
        /\ SumTallies(Incoming) = SumOver(tally, Incoming)
        /\ SumTallies(Incoming)' = SumOver(tally', Incoming)
        /\ SumTallies(Socket) = SumOver(tally, Socket)
        /\ SumTallies(Socket)' = SumOver(tally', Socket)
    BY <1>2, <1>5, Zenon DEF KernelDrops, SumTallies, Visible
  <1>7. /\ SumTallies(Socket)' = SumTallies(Socket) + 1
        /\ KernelDrops' = IF s \in Visible THEN KernelDrops + 1 ELSE KernelDrops
        /\ SumTallies(Incoming)'
             = IF s \in Incoming THEN SumTallies(Incoming) + 1 ELSE SumTallies(Incoming)
    BY <1>4, <1>6, Zenon DEF Apart
  <1>8. ~(s \in Visible /\ s \in Incoming)
    BY DEF Apart
  <1>. QED
    BY <1>2, <1>7, <1>8, Zenon DEF TallyOf!KernelDrop, Incoming

LEMMA TallyStep ==
  Inv /\ TallyInv /\ [Next]_vars => TallyInv' /\ (Moves \/ Drop)
  <1>. SUFFICES ASSUME Inv, TallyInv, [Next]_vars PROVE TallyInv' /\ (Moves \/ Drop)
    OBVIOUS
  <1>1. CASE UNCHANGED <<rc, sockets, wk, state, tally>>
    <2>1. TallyInv'
      BY <1>1 DEF TallyInv, AllAt, At
    <2>. QED
      BY <1>1, <2>1, QuietMoves, SMTT(30)
  <1>2. CASE Drop
    <2>1. PICK s \in Socket : state[s] = "open" /\ tally' = [tally EXCEPT ![s] = @ + 1]
      BY <1>2, Zenon DEF Drop
    <2>2. \A t \in Socket : state[t] = "new" => tally'[t] = tally[t]
      BY <2>1 DEF Inv, Shape
    <2>3. UNCHANGED <<rc, sockets, wk, state>> /\ (AllAt("none")' <=> AllAt("none"))
      BY <1>2, Zenon DEF Drop, AllAt, At
    <2>. QED
      BY <1>2, <2>2, <2>3 DEF TallyInv
  <1>3. CASE Signal \/ CloseStop \/ RunForever \/ flushForever \/ UNCHANGED vars
    BY <1>1, <1>3 DEF Signal, CloseStop, RunForever, flushForever, kernel, vars
  <1>. QED
    BY <1>2, <1>3, runCaptureMoves, RunWorkerMoves DEF Next

(* manager.go:136-148: whatever sockets are reopened, fail to open and are *)
(* closed, by any number of workers, what KernelDrops returns develops as  *)
(* DropTally says, on which the collector's drop counter relies.           *)
THEOREM DropTallyImplemented == Spec => ImplementsDropTally
  <1>1. Init => TallyInv
    BY DEF Init, TallyInv
  <1>2. Spec => [](Inv /\ TallyInv)
    BY <1>1, InvAlways, TallyStep, PTL DEF Spec
  <1>3. Init => TallyOf!DropsInit
    <2>. SUFFICES ASSUME Init PROVE TallyOf!DropsInit
      OBVIOUS
    <2>1. \A s \in Socket : tally[s] = 0
      BY SMTT(30) DEF Init
    <2>2. Visible = {} /\ Incoming = {}
      BY ElemsFacts DEF Init, Visible, Incoming, At
    <2>3. \A s \in Visible : tally[s] = 0
      BY <2>2
    <2>4. \A s \in Incoming : tally[s] = 0
      BY <2>2
    <2>5. /\ SumOver(tally, Visible) = 0 /\ SumOver(tally, Incoming) = 0
          /\ SumOver(tally, Socket) = 0
      BY <2>1, <2>3, <2>4, SumZero
    <2>. QED
      BY <2>5, Zenon DEF TallyOf!DropsInit, KernelDrops, SumTallies, Visible, Incoming
  <1>4. Inv /\ TallyInv /\ Apart /\ Apart' /\ [Next]_vars
          => [TallyOf!KernelDrop \/ TallyOf!SocketsChange]_(TallyOf!drops)
    BY TallyStep, MovesChange, DropKernel
  <1>. QED
    BY <1>2, <1>3, <1>4, ApartFacts, PTL DEF Spec, ImplementsDropTally, TallyOf!DropsSpec
=============================================================================
