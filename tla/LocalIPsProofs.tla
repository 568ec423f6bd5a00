--------------------------- MODULE LocalIPsProofs ---------------------------
(***************************************************************************)
(* The direction filter and the cache of local addresses, for any lists,   *)
(* frames, workers and reload interval; and the BPF program of the socket, *)
(* for any frame.                                                          *)
(***************************************************************************)
EXTENDS LocalIPs, TLAPS

(* Workers hold whole lists, and so does the cache, but for the empty one  *)
(* of a first lookup that failed.                                          *)
Inv ==
  /\ wk \in [Worker -> [pc : {"idle", "stale", "lookup", "reload", "contains"},
                        frame : Frames \union {None}, next : Hosts \union {None}]]
  /\ \A w \in Worker : wk[w].pc # "idle" => wk[w].frame \in Frames /\ Parses(wk[w].frame)
  /\ set \in Hosts \union {{}} /\ host \in Hosts
  /\ clock \in Nat /\ lastLoad \in 0 .. clock
  /\ handled \subseteq {f \in Frames : Parses(f)}

LEMMA InvStep == Inv /\ [Next]_vars => Inv'
  <1>. SUFFICES ASSUME Inv, [Next]_vars PROVE Inv'
    OBVIOUS
  <1>. USE DEF Inv
  <1>1. ASSUME NEW w \in Worker, NEW f \in Frames \intersect Captured, ProcessFrame(w, f)
        PROVE  Inv'
    BY <1>1 DEF ProcessFrame, cache
  <1>2. ASSUME NEW w \in Worker, maybeReload(w)
        PROVE  Inv'
    BY <1>2 DEF maybeReload, In, cache, world
  <1>3. ASSUME NEW w \in Worker, Lookup(w)
        PROVE  Inv'
    <2>1. PICK next \in {host, None} : wk' = [wk EXCEPT ![w].pc = "reload", ![w].next = next]
      BY <1>3, Zenon DEF Lookup
    <2>2. wk[w].pc = "lookup" /\ UNCHANGED <<set, lastLoad, handled, host, clock>>
      BY <1>3 DEF Lookup, In, cache, world
    <2>. QED
      BY <2>1, <2>2, Zenon
  <1>4. ASSUME NEW w \in Worker, reload(w)
        PROVE  Inv'
    <2>1. set' \in Hosts \union {{}} /\ lastLoad' = clock /\ wk[w].pc = "reload"
      BY <1>4 DEF reload, In
    <2>2. wk' = [wk EXCEPT ![w].pc = "contains", ![w].next = None]
      BY <1>4 DEF reload
    <2>3. UNCHANGED <<handled, host, clock>>
      BY <1>4 DEF reload, world
    <2>4. /\ wk' \in [Worker -> [pc : {"idle", "stale", "lookup", "reload", "contains"},
                               frame : Frames \union {None}, next : Hosts \union {None}]]
          /\ \A v \in Worker : wk'[v].frame = wk[v].frame /\ (wk[v].pc = "idle" => wk'[v].pc = "idle")
      BY <2>1, <2>2, Zenon
    <2>5. \A v \in Worker : wk'[v].pc # "idle" => wk'[v].frame \in Frames /\ Parses(wk'[v].frame)
      BY <2>4, Zenon
    <2>. QED
      BY <2>1, <2>3, <2>4, <2>5
  <1>5. ASSUME NEW w \in Worker, Contains(w)
        PROVE  Inv'
    BY <1>5 DEF Contains, In, Idle, cache, world
  <1>6. CASE HostChanges
    BY <1>6 DEF HostChanges, cache
  <1>7. CASE Tick
    BY <1>7 DEF Tick, cache
  <1>8. CASE UNCHANGED vars
    BY <1>8 DEF vars, cache, world
  <1>. QED
    BY <1>1, <1>2, <1>3, <1>4, <1>5, <1>6, <1>7, <1>8, SMTT(30) DEF Next, Step

LEMMA Invariance == Spec => []Inv
  <1>1. Init => Inv
    BY DEF Init, Inv, Idle
  <1>. QED
    BY <1>1, InvStep, PTL DEF Spec

(* filter.go:36-50, localips.go: no frame that failed to parse is looked   *)
(* up, and the cache is never dated in the future.                         *)
THEOREM TypeCorrect == Spec => []TypeOK
  <1>1. Inv => TypeOK
    <2>. SUFFICES ASSUME Inv PROVE TypeOK
      OBVIOUS
    <2>1. set \in SUBSET Addr /\ lastLoad \in 0 .. clock /\ host \in Hosts
      BY LocalAssumption DEF LocalAssumption, Inv
    <2>2. ASSUME NEW w \in Worker
          PROVE  /\ wk[w].pc \in {"idle", "stale", "lookup", "reload", "contains"}
                 /\ wk[w].pc # "idle" => Parses(wk[w].frame)
                 /\ wk[w].next \in {None} \union Hosts
      BY DEF Inv
    <2>. QED
      BY <2>1, <2>2 DEF TypeOK
  <1>. QED
    BY <1>1, Invariance, PTL

(* localips.go:49-82: for any interval and interleaving of workers that    *)
(* reload, with lookups that fail, the cache moves from one whole list of  *)
(* the host to another and is never emptied.                               *)
THEOREM ListAlwaysKept == Spec => ListKept
  <1>1. Inv /\ [Next]_vars => [set' \in Hosts \union {set}]_cache
    <2>. SUFFICES ASSUME Inv, [Next]_vars PROVE set' \in Hosts \union {set} \/ UNCHANGED cache
      OBVIOUS
    <2>1. ASSUME NEW w \in Worker, reload(w)
          PROVE  set' \in Hosts \union {set}
      BY <2>1 DEF reload, Inv
    <2>. QED
      BY <2>1, Zenon DEF Next, Step, ProcessFrame, maybeReload, Lookup, Contains, HostChanges,
         Tick, cache, vars
  <1>. QED
    BY <1>1, Invariance, PTL DEF Spec, ListKept

(* What is accepted has an address of the host at our end.                 *)
LEMMA UpstreamRejected ==
  ASSUME Inv, NEW f \in Frames, Parses(f), OurEnd(ParseNTPFrame(f)) \in set
  PROVE  ~Upstream(f)
  <1>1. set \subseteq UNION Hosts
    BY DEF Inv
  <1>. QED
    BY <1>1 DEF OurEnd, ParseNTPFrame, DirectionOf, Upstream

(* filter.go:18-31: none of chronyd's own exchanges with upstream servers  *)
(* from a client port is ever handed to the collector, whatever addresses  *)
(* the host has, had or is about to have.                                  *)
THEOREM UpstreamNeverCounted == Spec => []UpstreamNotCounted
  <1>1. Init => UpstreamNotCounted
    BY DEF Init, UpstreamNotCounted
  <1>2. Inv /\ UpstreamNotCounted /\ [Next]_vars => UpstreamNotCounted'
    <2>. SUFFICES ASSUME Inv, UpstreamNotCounted, [Next]_vars, NEW f \in handled'
                  PROVE  ~Upstream(f)
      BY DEF UpstreamNotCounted, Upstream
    <2>1. CASE UNCHANGED handled
      BY <2>1 DEF UpstreamNotCounted
    <2>2. ASSUME NEW w \in Worker, Contains(w)
          PROVE  ~Upstream(f)
      <3>1. CASE f \in handled
        BY <3>1 DEF UpstreamNotCounted
      <3>2. CASE f = wk[w].frame /\ OurEnd(ParseNTPFrame(f)) \in set
        <4>1. f \in Frames /\ Parses(f)
          BY <2>2, <3>2 DEF Contains, In, Inv
        <4>. QED
          BY <3>2, <4>1, UpstreamRejected
      <3>. QED
        BY <2>2, <3>1, <3>2 DEF Contains
    <2>. QED
      BY <2>1, <2>2, Zenon DEF Next, Step, ProcessFrame, maybeReload, Lookup, reload,
         HostChanges, Tick, cache, world, vars
  <1>. QED
    BY <1>1, <1>2, Invariance, PTL DEF Spec

(* frame.go:46-131, filter.go:24-31: for every frame, length and address   *)
(* list, the reply to an accepted request is accepted and carries the xid  *)
(* and the client of the request, unless the client uses port 123 itself.  *)
THEOREM RepliesAlwaysAccepted == Spec => []RepliesAccepted
  <1>1. RepliesAccepted
    <2>. SUFFICES ASSUME NEW f \in Frames, NEW ts \in Timestamp,
                         Accepted(f, set), HasPayload(f),
                         f.dport = NTPPort, f.sport # NTPPort
                  PROVE  LET r == Reply(f, ts) IN
                         /\ Accepted(r, set)
                         /\ ParseNTPFrame(r).direction = "response"
                         /\ ParseNTPFrame(r).ip = ParseNTPFrame(f).ip
                         /\ ParseNTPFrame(r).xid = ParseNTPFrame(f).xid
      BY DEF RepliesAccepted
    <2>. DEFINE r == Reply(f, ts)
    <2>1. f.ethertype \in {EthertypeIPv4, EthertypeIPv6}
      BY DEF Accepted, Parses
    <2>2. /\ r.len = IPOff(f) + (IF f.ethertype = EthertypeIPv4 THEN 20 ELSE 40) + 8 + NTPPayloadMin
          /\ r.vlan = f.vlan /\ r.ethertype = f.ethertype /\ r.ihl = 5
          /\ r.proto = IPProtoUDP /\ r.sport = NTPPort
      BY DEF Reply
    <2>3. DirectionOf(f) = "request" /\ DirectionOf(r) = "response"
      BY DEF DirectionOf, Reply
    <2>4. Parses(r) /\ HasPayload(r)
      <3>. HIDE DEF r
      <3>. DEFINE off == IPOff(f)
      <3>1. off \in {14, 18} /\ IPOff(r) = off
        BY <2>2 DEF IPOff, EthHdrLen
      <3>. HIDE DEF off
      <3>2. CASE f.ethertype = EthertypeIPv4
        <4>1. r.len = off + 76 /\ UDPOff(r) = off + 20 /\ PayloadOff(r) = off + 28
          BY <2>2, <3>1, <3>2 DEF off, UDPOff, PayloadOff, NTPPayloadMin
        <4>. QED
          BY <2>2, <3>1, <3>2, <4>1, SMTT(30) DEF Parses, HasPayload, NTPPayloadMin
      <3>3. CASE f.ethertype = EthertypeIPv6
        <4>1. r.len = off + 96 /\ UDPOff(r) = off + 40 /\ PayloadOff(r) = off + 48
          BY <2>2, <3>1, <3>3, SMTT(30)
          DEF off, UDPOff, PayloadOff, NTPPayloadMin, EthertypeIPv4, EthertypeIPv6
        <4>. QED
          BY <2>2, <3>1, <3>3, <4>1, SMTT(30) DEF Parses, HasPayload, NTPPayloadMin
      <3>. QED
        BY <2>1, <3>2, <3>3
    <2>5. f.dst \in set
      BY <2>3, SMTT(30) DEF Accepted, OurEnd, ParseNTPFrame
    <2>6. ParseNTPFrame(r).direction = "response" /\ ParseNTPFrame(r).srcIP = f.dst
      BY <2>3 DEF ParseNTPFrame, Reply
    <2>7. Accepted(r, set)
      BY <2>4, <2>5, <2>6, SMTT(30) DEF Accepted, OurEnd
    <2>8. ParseNTPFrame(r).ip = ParseNTPFrame(f).ip
      BY <2>3, SMTT(30) DEF ParseNTPFrame, Reply
    <2>9. ParseNTPFrame(r).xid = ParseNTPFrame(f).xid
      BY <2>3, <2>4 DEF ParseNTPFrame, XidOf, Reply
    <2>. QED
      BY <2>6, <2>7, <2>8, <2>9, SMTT(30)
  <1>. QED
    BY <1>1, PTL
-----------------------------------------------------------------------------
(* The socket filter, for every frame: what its program lets through, by   *)
(* an assertion at each instruction that holds whenever the machine is     *)
(* about to execute it.                                                    *)

LEMMA Program ==
  /\ Len(BuildNTPBPF) = 20
  /\ BuildNTPBPF[1] = Load("ldh", 12)
  /\ BuildNTPBPF[2] = Jump("jeq", EthertypeIPv4, 1, 0)
  /\ BuildNTPBPF[3] = Jump("jeq", EthertypeIPv6, 9, 16)
  /\ BuildNTPBPF[4] = Load("ldb", 23)
  /\ BuildNTPBPF[5] = Jump("jeq", IPProtoUDP, 0, 14)
  /\ BuildNTPBPF[6] = Load("ldh", 20)
  /\ BuildNTPBPF[7] = Jump("jset", 8191, 12, 0)
  /\ BuildNTPBPF[8] = Load("ldxb", EthHdrLen)
  /\ BuildNTPBPF[9] = Load("ldhx", 14)
  /\ BuildNTPBPF[10] = Jump("jeq", NTPPort, 8, 0)
  /\ BuildNTPBPF[11] = Load("ldhx", 16)
  /\ BuildNTPBPF[12] = Jump("jeq", NTPPort, 6, 7)
  /\ BuildNTPBPF[13] = Load("ldb", 20)
  /\ BuildNTPBPF[14] = Jump("jeq", IPProtoUDP, 0, 5)
  /\ BuildNTPBPF[15] = Load("ldh", 54)
  /\ BuildNTPBPF[16] = Jump("jeq", NTPPort, 2, 0)
  /\ BuildNTPBPF[17] = Load("ldh", 56)
  /\ BuildNTPBPF[18] = Jump("jeq", NTPPort, 0, 1)
  /\ BuildNTPBPF[19] = Ret(65535)
  /\ BuildNTPBPF[20] = Ret(0)
  BY DEF BuildNTPBPF, EthernetPart, IPv4Part, IPv6Part

(* Trace(f) is what its recursive definition says: a function that is so   *)
(* up to k can be extended by one more step, and there are twenty.         *)
Follows(f, h, k) ==
  h = [n \in 0 .. k |-> IF n = 0 THEN State(1, 0, 0, -1)
                        ELSE Advance(f, h[n - 1])]

Follow(f, k) == \E h : Follows(f, h, k)

LEMMA FollowOneMore ==
  ASSUME NEW f, NEW k \in Nat, Follow(f, k)
  PROVE  Follow(f, k + 1)
  <1>1. PICK h : Follows(f, h, k)
    BY Zenon DEF Follow
  <1>. DEFINE g == [n \in 0 .. k + 1 |-> IF n <= k THEN h[n] ELSE Advance(f, h[k])]
  <1>2. /\ h[0] = State(1, 0, 0, -1)
        /\ \A n \in 1 .. k : h[n] = Advance(f, h[n - 1])
    BY <1>1 DEF Follows
  <1>3. ASSUME NEW n \in 0 .. k + 1
        PROVE  g[n] = IF n = 0 THEN State(1, 0, 0, -1)
                      ELSE Advance(f, g[n - 1])
    <2>1. CASE n = 0
      BY <1>2, <2>1
    <2>2. CASE n \in 1 .. k
      <3>1. g[n] = h[n] /\ g[n - 1] = h[n - 1]
        BY <2>2
      <3>. QED
        BY <1>2, <2>2, <3>1
    <2>3. CASE n = k + 1
      <3>1. g[n] = Advance(f, h[k]) /\ g[n - 1] = h[k] /\ n # 0
        BY <2>3
      <3>. QED
        BY <3>1, Zenon
    <2>. QED
      BY <2>1, <2>2, <2>3
  <1>4. Follows(f, g, k + 1)
    <2>. HIDE DEF g
    <2>1. g = [n \in 0 .. k + 1 |-> g[n]]
      BY DEF g
    <2>. QED
      BY <1>3, <2>1, Zenon DEF Follows
  <1>. QED
    BY <1>4, Zenon DEF Follow

LEMMA FollowFiveMore ==
  ASSUME NEW f, NEW k \in Nat, Follow(f, k)
  PROVE  Follow(f, k + 5)
  <1>1. Follow(f, k + 1)
    BY FollowOneMore
  <1>2. Follow(f, (k + 1) + 1)
    BY <1>1, FollowOneMore
  <1>3. Follow(f, ((k + 1) + 1) + 1)
    BY <1>2, FollowOneMore
  <1>4. Follow(f, (((k + 1) + 1) + 1) + 1)
    BY <1>3, FollowOneMore
  <1>5. Follow(f, ((((k + 1) + 1) + 1) + 1) + 1)
    BY <1>4, FollowOneMore
  <1>6. ((((k + 1) + 1) + 1) + 1) + 1 = k + 5
    OBVIOUS
  <1>. QED
    BY <1>5, <1>6, Zenon

LEMMA TraceSteps ==
  ASSUME NEW f
  PROVE  /\ Trace(f)[0] = State(1, 0, 0, -1)
         /\ \A k \in 0 .. 19 : Trace(f)[k + 1] = Advance(f, Trace(f)[k])
  <1>1. Follow(f, 0)
    <2>. DEFINE h == [n \in 0 .. 0 |-> State(1, 0, 0, -1)]
    <2>1. Follows(f, h, 0)
      BY DEF Follows
    <2>. QED
      BY <2>1 DEF Follow
  <1>2. Follow(f, 5)
    BY <1>1, FollowFiveMore
  <1>3. Follow(f, 10)
    BY <1>2, FollowFiveMore
  <1>4. Follow(f, 15)
    BY <1>3, FollowFiveMore
  <1>5. Follow(f, 20)
    BY <1>4, FollowFiveMore
  <1>6. Follow(f, Len(BuildNTPBPF)) => Follows(f, Trace(f), Len(BuildNTPBPF))
    BY ZenonT(30) DEF Trace, Follow, Follows
  <1>7. Follows(f, Trace(f), 20)
    BY <1>5, <1>6, Program
  <1>8. \A k \in 0 .. 19 : k + 1 \in 0 .. 20 /\ k + 1 # 0 /\ (k + 1) - 1 = k
    OBVIOUS
  <1>. HIDE DEF Trace
  <1>. QED
    BY <1>7, <1>8 DEF Follows
-----------------------------------------------------------------------------
LEMMA Running ==
  ASSUME NEW f, NEW pc, NEW a, NEW x, NEW i, BuildNTPBPF[pc] = i
  PROVE  Advance(f, State(pc, a, x, -1)) = Execute(f, State(pc, a, x, -1), i)
  <1>1. State(pc, a, x, -1).pc = pc /\ State(pc, a, x, -1).ret = -1
    BY Zenon DEF State
  <1>. QED
    BY <1>1, Zenon DEF Advance

(* What one instruction does.                                              *)
LEMMA LoadStep ==
  ASSUME NEW f, f.len \in Nat, NEW pc \in Nat, NEW a, NEW x,
         NEW op \in {"ldb", "ldh"}, NEW k \in Nat, BuildNTPBPF[pc] = Load(op, k)
  PROVE  Advance(f, State(pc, a, x, -1)) =
           IF k + Width(op) <= f.len THEN State(pc + 1, At(f, k), x, -1)
           ELSE State(pc, a, x, 0)
  <1>. DEFINE s == State(pc, a, x, -1)
              i == Load(op, k)
  <1>1. i.op = op /\ i.k = k /\ s.pc = pc /\ s.a = a /\ s.x = x
    BY Zenon DEF Load, State
  <1>2. Width(op) \in Nat
    BY DEF Width
  <1>3. Advance(f, s) = Execute(f, s, i)
    BY Running, Zenon
  <1>. HIDE DEF s, i
  <1>4. Execute(f, s, i) = IF k + Width(op) <= f.len THEN State(pc + 1, At(f, k), x, -1)
                           ELSE State(pc, a, x, 0)
    BY <1>1, <1>2, SMT DEF Execute
  <1>. QED
    BY <1>3, <1>4, Zenon DEF s

LEMMA IndexedLoadStep ==
  ASSUME NEW f, NEW pc \in Nat, NEW a, NEW x \in Nat, NEW k \in Nat, f.len \in Nat,
         BuildNTPBPF[pc] = Load("ldhx", k)
  PROVE  Advance(f, State(pc, a, x, -1)) =
           IF k + x + 2 <= f.len THEN State(pc + 1, At(f, k + x), x, -1)
           ELSE State(pc, a, x, 0)
  <1>. DEFINE s == State(pc, a, x, -1)
              i == Load("ldhx", k)
  <1>1. i.op = "ldhx" /\ i.k = k /\ s.pc = pc /\ s.a = a /\ s.x = x
    BY Zenon DEF Load, State
  <1>2. Advance(f, s) = Execute(f, s, i)
    BY Running, Zenon
  <1>. HIDE DEF s, i
  <1>3. Execute(f, s, i) =
          IF k + x + 2 <= f.len THEN State(pc + 1, At(f, k + x), x, -1)
          ELSE State(pc, a, x, 0)
    BY <1>1, SMT DEF Execute, Width
  <1>. QED
    BY <1>2, <1>3, Zenon DEF s

LEMMA HeaderLengthStep ==
  ASSUME NEW f, NEW pc \in Nat, NEW a, NEW x, NEW k \in Nat, f.len \in Nat,
         BuildNTPBPF[pc] = Load("ldxb", k)
  PROVE  Advance(f, State(pc, a, x, -1)) =
           IF k + 1 <= f.len THEN State(pc + 1, a, 4 * f.ihl, -1)
           ELSE State(pc, a, x, 0)
  <1>. DEFINE s == State(pc, a, x, -1)
              i == Load("ldxb", k)
  <1>1. i.op = "ldxb" /\ i.k = k /\ s.pc = pc /\ s.a = a /\ s.x = x
    BY Zenon DEF Load, State
  <1>2. Advance(f, s) = Execute(f, s, i)
    BY Running, Zenon
  <1>. HIDE DEF s, i
  <1>3. Execute(f, s, i) =
          IF k + 1 <= f.len THEN State(pc + 1, a, 4 * f.ihl, -1)
          ELSE State(pc, a, x, 0)
    BY <1>1, SMT DEF Execute, Width
  <1>. QED
    BY <1>2, <1>3, Zenon DEF s

LEMMA JumpStep ==
  ASSUME NEW f, NEW pc \in Nat, NEW a, NEW x, NEW k, NEW jt \in Nat, NEW jf \in Nat,
         BuildNTPBPF[pc] = Jump("jeq", k, jt, jf)
  PROVE  Advance(f, State(pc, a, x, -1)) =
           State(pc + 1 + (IF a = k THEN jt ELSE jf), a, x, -1)
  <1>. DEFINE s == State(pc, a, x, -1)
              i == Jump("jeq", k, jt, jf)
  <1>1. /\ i.op = "jeq" /\ i.k = k /\ i.jt = jt /\ i.jf = jf
        /\ s.pc = pc /\ s.a = a /\ s.x = x
    BY Zenon DEF Jump, State
  <1>2. Advance(f, s) = Execute(f, s, i)
    BY Running, Zenon
  <1>. HIDE DEF s, i
  <1>3. Execute(f, s, i) =
          State(pc + 1 + (IF a = k THEN jt ELSE jf), a, x, -1)
    BY <1>1, SMT DEF Execute
  <1>. QED
    BY <1>2, <1>3, Zenon DEF s

LEMMA MaskStep ==
  ASSUME NEW f, NEW pc \in Nat, NEW a, NEW x, NEW k, NEW jt \in Nat, NEW jf \in Nat,
         BuildNTPBPF[pc] = Jump("jset", k, jt, jf)
  PROVE  Advance(f, State(pc, a, x, -1)) =
           State(pc + 1 + (IF a % (k + 1) # 0 THEN jt ELSE jf), a, x, -1)
  <1>. DEFINE s == State(pc, a, x, -1)
              i == Jump("jset", k, jt, jf)
  <1>1. /\ i.op = "jset" /\ i.k = k /\ i.jt = jt /\ i.jf = jf
        /\ s.pc = pc /\ s.a = a /\ s.x = x
    BY Zenon DEF Jump, State
  <1>2. Advance(f, s) = Execute(f, s, i)
    BY Running, Zenon
  <1>. HIDE DEF s, i
  <1>3. Execute(f, s, i) =
          State(pc + 1 + (IF a % (k + 1) # 0 THEN jt ELSE jf), a, x, -1)
    BY <1>1, SMT DEF Execute
  <1>. QED
    BY <1>2, <1>3, Zenon DEF s

LEMMA ReturnStep ==
  ASSUME NEW f, NEW pc \in Nat, NEW a, NEW x, NEW k,
         BuildNTPBPF[pc] = Ret(k)
  PROVE  Advance(f, State(pc, a, x, -1)) =
           State(pc, a, x, k)
  <1>. DEFINE s == State(pc, a, x, -1)
              i == Ret(k)
  <1>1. i.op = "ret" /\ i.k = k /\ s.pc = pc /\ s.a = a /\ s.x = x
    BY Zenon DEF Ret, State
  <1>2. Advance(f, s) = Execute(f, s, i)
    BY Running, Zenon
  <1>. HIDE DEF s, i
  <1>3. Execute(f, s, i) =
          State(pc, a, x, k)
    BY <1>1, SMT DEF Execute
  <1>. QED
    BY <1>2, <1>3, Zenon DEF s
-----------------------------------------------------------------------------
V4(f) == ~f.vlan /\ f.ethertype = EthertypeIPv4
V6(f) == ~f.vlan /\ f.ethertype = EthertypeIPv6

(* No port stands where the program looks for another field: only an IPv4  *)
(* header of less than the least length could bring that about.            *)
Regular(f) == f.ethertype = EthertypeIPv4 => f.ihl >= 5

(* What the program lets through.                                          *)
Wanted(f) ==
  /\ f.proto = IPProtoUDP
  /\ \/ V4(f) /\ f.len >= 24 /\ f.frag % 8192 = 0
     \/ V6(f) /\ f.len >= 21
  /\ f.len >= UDPOff(f) + 2
  /\ f.sport = NTPPort \/ (f.len >= UDPOff(f) + 4 /\ f.dport = NTPPort)

(* What is known of the frame and of the registers before instruction pc.  *)
Assertion(f, pc, a, x) ==
  /\ pc \in 2 .. 3 => a = At(f, 12) /\ f.len >= 14
  /\ pc = 3 => a # EthertypeIPv4
  /\ pc \in 4 .. 12 => V4(f)
  /\ pc \in 5 .. 12 => f.len >= 24
  /\ pc \in {5, 14} => a = f.proto
  /\ pc \in 6 .. 12 \union 15 .. 18 => f.proto = IPProtoUDP
  /\ pc = 7 => a = f.frag
  /\ pc \in 8 .. 12 => f.frag % 8192 = 0
  /\ pc \in 9 .. 12 => x = 4 * f.ihl
  /\ pc \in 13 .. 18 => V6(f)
  /\ pc \in 14 .. 18 => f.len >= 21
  /\ pc \in 10 .. 12 \union 16 .. 18 => f.len >= UDPOff(f) + 2
  /\ pc \in {10, 16} => a = f.sport
  /\ pc \in {11, 12, 17, 18} => f.sport # NTPPort
  /\ pc \in {12, 18} => f.len >= UDPOff(f) + 4 /\ a = f.dport
  /\ pc = 19 => Wanted(f)
  /\ pc = 20 => ~Wanted(f)

(* The machine has gone on past instruction n, or has returned the verdict. *)
Sound(f, s, n) ==
  \/ \E pc \in n + 1 .. 20 : \E a, x : s = State(pc, a, x, -1) /\ Assertion(f, pc, a, x)
  \/ s.ret \in Nat /\ (s.ret > 0 <=> Wanted(f))

LEMMA GoesOn ==
  ASSUME NEW f, NEW n, NEW pc \in n + 1 .. 20, NEW a, NEW x, Assertion(f, pc, a, x)
  PROVE  Sound(f, State(pc, a, x, -1), n)
  BY Zenon DEF Sound

LEMMA Returns ==
  ASSUME NEW f, NEW n, NEW pc, NEW a, NEW x, NEW r \in Nat, r > 0 <=> Wanted(f)
  PROVE  Sound(f, State(pc, a, x, r), n)
  <1>1. State(pc, a, x, r).ret = r
    BY Zenon DEF State
  <1>. QED
    BY <1>1, Zenon DEF Sound

LEMMA FrameFields ==
  ASSUME NEW f \in Frame
  PROVE  f.len \in Nat /\ f.ihl \in 0 .. 15
  BY Zenon DEF Frame

LEMMA AtEthertype ==
  ASSUME NEW f, f.ihl \in 0 .. 15
  PROVE  At(f, 12) = IF f.vlan THEN EthertypeVLAN ELSE f.ethertype
  <1>1. UDPOff(f) \in Nat /\ UDPOff(f) > 12
    BY DEF UDPOff, IPOff, EthHdrLen
  <1>. QED
    BY <1>1 DEF At

LEMMA AtV4 ==
  ASSUME NEW f, f.ihl \in 0 .. 15, Regular(f), V4(f)
  PROVE  /\ At(f, 23) = f.proto /\ At(f, 20) = f.frag
         /\ UDPOff(f) = 14 + 4 * f.ihl
         /\ At(f, 14 + 4 * f.ihl) = f.sport /\ At(f, 16 + 4 * f.ihl) = f.dport
  <1>1. UDPOff(f) = 14 + 4 * f.ihl
    BY DEF V4, UDPOff, IPOff, EthHdrLen
  <1>2. f.ihl \in 5 .. 15
    BY DEF V4, Regular
  <1>3. At(f, 23) = f.proto
    BY <1>1, <1>2 DEF At, V4
  <1>4. At(f, 20) = f.frag
    BY <1>1, <1>2 DEF At, V4, EthertypeIPv4, EthertypeIPv6
  <1>5. At(f, 14 + 4 * f.ihl) = f.sport
    BY <1>1, <1>2 DEF At, V4
  <1>6. At(f, 16 + 4 * f.ihl) = f.dport
    BY <1>1, <1>2 DEF At, V4
  <1>. QED
    BY <1>1, <1>3, <1>4, <1>5, <1>6

LEMMA AtV6 ==
  ASSUME NEW f, V6(f)
  PROVE  /\ At(f, 20) = f.proto /\ UDPOff(f) = 54
         /\ At(f, 54) = f.sport /\ At(f, 56) = f.dport
  <1>1. UDPOff(f) = 54
    BY DEF V6, UDPOff, IPOff, EthHdrLen, EthertypeIPv4, EthertypeIPv6
  <1>. QED
    BY <1>1 DEF At, V6, EthertypeIPv4, EthertypeIPv6
(* An instruction keeps the assertions when the one after it follows.      *)
LEMMA LoadSound ==
  ASSUME NEW f, f.len \in Nat, NEW pc \in 1 .. 19, NEW a, NEW x,
         NEW op \in {"ldb", "ldh"}, NEW k \in Nat,
         BuildNTPBPF[pc] = Load(op, k),
         k + Width(op) <= f.len => Assertion(f, pc + 1, At(f, k), x),
         k + Width(op) > f.len => ~Wanted(f)
  PROVE  Sound(f, Advance(f, State(pc, a, x, -1)), pc)
  <1>. DEFINE t == Advance(f, State(pc, a, x, -1))
  <1>1. t = IF k + Width(op) <= f.len THEN State(pc + 1, At(f, k), x, -1)
            ELSE State(pc, a, x, 0)
    BY LoadStep, SMT
  <1>2. pc \in Nat /\ pc + 1 \in pc + 1 .. 20 /\ 0 \in Nat /\ ~(0 > 0)
    OBVIOUS
  <1>. HIDE DEF t
  <1>3. CASE k + Width(op) <= f.len
    <2>1. t = State(pc + 1, At(f, k), x, -1)
      BY <1>1, <1>3, Zenon
    <2>2. Sound(f, State(pc + 1, At(f, k), x, -1), pc)
      BY <1>2, <1>3, GoesOn, Zenon
    <2>. QED
      BY <2>1, <2>2, Zenon DEF t
  <1>4. CASE ~(k + Width(op) <= f.len)
    <2>1. k + Width(op) > f.len
      BY <1>4 DEF Width
    <2>2. t = State(pc, a, x, 0)
      BY <1>1, <1>4, Zenon
    <2>3. Sound(f, State(pc, a, x, 0), pc)
      BY <1>2, <2>1, Returns, Zenon
    <2>. QED
      BY <2>2, <2>3, Zenon DEF t
  <1>. QED
    BY <1>3, <1>4, Zenon

LEMMA IndexedLoadSound ==
  ASSUME NEW f, f.len \in Nat, NEW pc \in 1 .. 19, NEW a, NEW x \in Nat, NEW k \in Nat,
         BuildNTPBPF[pc] = Load("ldhx", k),
         k + x + 2 <= f.len => Assertion(f, pc + 1, At(f, k + x), x),
         k + x + 2 > f.len => ~Wanted(f)
  PROVE  Sound(f, Advance(f, State(pc, a, x, -1)), pc)
  <1>. DEFINE t == Advance(f, State(pc, a, x, -1))
  <1>1. t = IF k + x + 2 <= f.len THEN State(pc + 1, At(f, k + x), x, -1)
            ELSE State(pc, a, x, 0)
    BY IndexedLoadStep, SMT
  <1>2. pc \in Nat /\ pc + 1 \in pc + 1 .. 20 /\ 0 \in Nat /\ ~(0 > 0)
    OBVIOUS
  <1>. HIDE DEF t
  <1>3. CASE k + x + 2 <= f.len
    <2>1. t = State(pc + 1, At(f, k + x), x, -1)
      BY <1>1, <1>3, Zenon
    <2>2. Sound(f, State(pc + 1, At(f, k + x), x, -1), pc)
      BY <1>2, <1>3, GoesOn, Zenon
    <2>. QED
      BY <2>1, <2>2, Zenon DEF t
  <1>4. CASE ~(k + x + 2 <= f.len)
    <2>1. k + x + 2 > f.len
      BY <1>4
    <2>2. t = State(pc, a, x, 0)
      BY <1>1, <1>4, Zenon
    <2>3. Sound(f, State(pc, a, x, 0), pc)
      BY <1>2, <2>1, Returns, Zenon
    <2>. QED
      BY <2>2, <2>3, Zenon DEF t
  <1>. QED
    BY <1>3, <1>4, Zenon

LEMMA HeaderLengthSound ==
  ASSUME NEW f, f.len \in Nat, NEW pc \in 1 .. 19, NEW a, NEW x, NEW k \in Nat,
         BuildNTPBPF[pc] = Load("ldxb", k),
         k + 1 <= f.len => Assertion(f, pc + 1, a, 4 * f.ihl),
         k + 1 > f.len => ~Wanted(f)
  PROVE  Sound(f, Advance(f, State(pc, a, x, -1)), pc)
  <1>. DEFINE t == Advance(f, State(pc, a, x, -1))
  <1>1. t = IF k + 1 <= f.len THEN State(pc + 1, a, 4 * f.ihl, -1)
            ELSE State(pc, a, x, 0)
    BY HeaderLengthStep, SMT
  <1>2. pc \in Nat /\ pc + 1 \in pc + 1 .. 20 /\ 0 \in Nat /\ ~(0 > 0)
    OBVIOUS
  <1>. HIDE DEF t
  <1>3. CASE k + 1 <= f.len
    <2>1. t = State(pc + 1, a, 4 * f.ihl, -1)
      BY <1>1, <1>3, Zenon
    <2>2. Sound(f, State(pc + 1, a, 4 * f.ihl, -1), pc)
      BY <1>2, <1>3, GoesOn, Zenon
    <2>. QED
      BY <2>1, <2>2, Zenon DEF t
  <1>4. CASE ~(k + 1 <= f.len)
    <2>1. k + 1 > f.len
      BY <1>4
    <2>2. t = State(pc, a, x, 0)
      BY <1>1, <1>4, Zenon
    <2>3. Sound(f, State(pc, a, x, 0), pc)
      BY <1>2, <2>1, Returns, Zenon
    <2>. QED
      BY <2>2, <2>3, Zenon DEF t
  <1>. QED
    BY <1>3, <1>4, Zenon

LEMMA JumpSound ==
  ASSUME NEW f, NEW pc \in 1 .. 19, NEW a, NEW x,
         NEW k, NEW jt \in Nat, NEW jf \in Nat,
         pc + 1 + jt <= 20, pc + 1 + jf <= 20,
         BuildNTPBPF[pc] = Jump("jeq", k, jt, jf),
         a = k => Assertion(f, pc + 1 + jt, a, x),
         ~(a = k) => Assertion(f, pc + 1 + jf, a, x)
  PROVE  Sound(f, Advance(f, State(pc, a, x, -1)), pc)
  <1>. DEFINE q == pc + 1 + (IF a = k THEN jt ELSE jf)
              t == Advance(f, State(pc, a, x, -1))
  <1>1. pc \in Nat
    OBVIOUS
  <1>2. t = State(q, a, x, -1)
    BY <1>1, JumpStep, SMT
  <1>3. q \in pc + 1 .. 20
    OBVIOUS
  <1>4. Assertion(f, q, a, x)
    BY Zenon
  <1>. HIDE DEF t, q
  <1>5. Sound(f, State(q, a, x, -1), pc)
    BY <1>3, <1>4, GoesOn, Zenon
  <1>. QED
    BY <1>2, <1>5, Zenon DEF t

LEMMA MaskSound ==
  ASSUME NEW f, NEW pc \in 1 .. 19, NEW a, NEW x,
         NEW k, NEW jt \in Nat, NEW jf \in Nat,
         pc + 1 + jt <= 20, pc + 1 + jf <= 20,
         BuildNTPBPF[pc] = Jump("jset", k, jt, jf),
         a % (k + 1) # 0 => Assertion(f, pc + 1 + jt, a, x),
         ~(a % (k + 1) # 0) => Assertion(f, pc + 1 + jf, a, x)
  PROVE  Sound(f, Advance(f, State(pc, a, x, -1)), pc)
  <1>. DEFINE q == pc + 1 + (IF a % (k + 1) # 0 THEN jt ELSE jf)
              t == Advance(f, State(pc, a, x, -1))
  <1>1. pc \in Nat
    OBVIOUS
  <1>2. t = State(q, a, x, -1)
    BY <1>1, MaskStep, SMT
  <1>3. q \in pc + 1 .. 20
    OBVIOUS
  <1>4. Assertion(f, q, a, x)
    BY Zenon
  <1>. HIDE DEF t, q
  <1>5. Sound(f, State(q, a, x, -1), pc)
    BY <1>3, <1>4, GoesOn, Zenon
  <1>. QED
    BY <1>2, <1>5, Zenon DEF t

LEMMA ReturnSound ==
  ASSUME NEW f, NEW pc \in Nat, NEW a, NEW x, NEW k \in Nat,
         BuildNTPBPF[pc] = Ret(k), k > 0 <=> Wanted(f)
  PROVE  Sound(f, Advance(f, State(pc, a, x, -1)), pc)
  <1>1. Advance(f, State(pc, a, x, -1)) = State(pc, a, x, k)
    BY ReturnStep, SMT
  <1>2. Sound(f, State(pc, a, x, k), pc)
    BY Returns, Zenon
  <1>. QED
    BY <1>1, <1>2, Zenon

LEMMA StepSound ==
  ASSUME NEW f \in Frame, Regular(f), NEW pc \in 1 .. 20, NEW a, NEW x,
         Assertion(f, pc, a, x)
  PROVE  Sound(f, Advance(f, State(pc, a, x, -1)), pc)
  <1>a. f.len \in Nat /\ f.ihl \in 0 .. 15
    BY FrameFields, Zenon
  <1>b. V4(f) => ~V6(f)
    BY SMT DEF V4, V6, EthertypeIPv4, EthertypeIPv6
  <1>c. V4(f) => /\ At(f, 23) = f.proto /\ At(f, 20) = f.frag
                 /\ UDPOff(f) = 14 + 4 * f.ihl
                 /\ At(f, 14 + 4 * f.ihl) = f.sport /\ At(f, 16 + 4 * f.ihl) = f.dport
    BY <1>a, AtV4, Zenon
  <1>d. V6(f) => /\ At(f, 20) = f.proto /\ UDPOff(f) = 54
                 /\ At(f, 54) = f.sport /\ At(f, 56) = f.dport
    BY AtV6, Zenon
  <1>e. At(f, 12) = IF f.vlan THEN EthertypeVLAN ELSE f.ethertype
    BY <1>a, AtEthertype, Zenon
  <1>1. CASE pc = 1
    <2>1. BuildNTPBPF[pc] = Load("ldh", 12)
      BY <1>1, Program, SMT
    <2>2. 12 + Width("ldh") <= f.len => Assertion(f, pc + 1, At(f, 12), x)
      BY <1>a, <1>1 DEF Assertion, Width
    <2>3. 12 + Width("ldh") > f.len => ~Wanted(f)
      BY <1>a, <1>1 DEF Assertion, Wanted, Width
    <2>. QED
      BY <1>a, <1>1, <2>1, <2>2, <2>3, LoadSound, SMT
  <1>2. CASE pc = 2
    <2>1. BuildNTPBPF[pc] = Jump("jeq", EthertypeIPv4, 1, 0)
      BY <1>2, Program, SMT
    <2>2. a = EthertypeIPv4 => Assertion(f, pc + 1 + 1, a, x)
      BY <1>a, <1>2, <1>e DEF Assertion, V4, V6, EthertypeIPv4, EthertypeIPv6,
         EthertypeVLAN, Wanted
    <2>3. ~(a = EthertypeIPv4) => Assertion(f, pc + 1 + 0, a, x)
      BY <1>a, <1>2, <1>e DEF Assertion, V4, V6, EthertypeIPv4, EthertypeIPv6,
         EthertypeVLAN, Wanted
    <2>4. pc + 1 + 1 <= 20 /\ pc + 1 + 0 <= 20
      BY <1>a, <1>2, <1>e DEF Assertion, V4, V6, EthertypeIPv4, EthertypeIPv6,
         EthertypeVLAN, Wanted
    <2>5. 1 \in Nat /\ 0 \in Nat /\ pc \in 1 .. 19
      BY <1>2
    <2>. QED
      BY <2>1, <2>2, <2>3, <2>4, <2>5, JumpSound, Zenon
  <1>3. CASE pc = 3
    <2>1. BuildNTPBPF[pc] = Jump("jeq", EthertypeIPv6, 9, 16)
      BY <1>3, Program, SMT
    <2>2. a = EthertypeIPv6 => Assertion(f, pc + 1 + 9, a, x)
      BY <1>a, <1>3, <1>e DEF Assertion, V4, V6, EthertypeIPv4, EthertypeIPv6,
         EthertypeVLAN, Wanted
    <2>3. ~(a = EthertypeIPv6) => Assertion(f, pc + 1 + 16, a, x)
      BY <1>a, <1>3, <1>e DEF Assertion, V4, V6, EthertypeIPv4, EthertypeIPv6,
         EthertypeVLAN, Wanted
    <2>4. pc + 1 + 9 <= 20 /\ pc + 1 + 16 <= 20
      BY <1>a, <1>3, <1>e DEF Assertion, V4, V6, EthertypeIPv4, EthertypeIPv6,
         EthertypeVLAN, Wanted
    <2>5. 9 \in Nat /\ 16 \in Nat /\ pc \in 1 .. 19
      BY <1>3
    <2>. QED
      BY <2>1, <2>2, <2>3, <2>4, <2>5, JumpSound, Zenon
  <1>4. CASE pc = 4
    <2>1. BuildNTPBPF[pc] = Load("ldb", 23)
      BY <1>4, Program, SMT
    <2>2. 23 + Width("ldb") <= f.len => Assertion(f, pc + 1, At(f, 23), x)
      BY <1>a, <1>4, <1>b, <1>c DEF Assertion, Width
    <2>3. 23 + Width("ldb") > f.len => ~Wanted(f)
      BY <1>a, <1>4, <1>b, <1>c DEF Assertion, Wanted, Width
    <2>. QED
      BY <1>a, <1>4, <2>1, <2>2, <2>3, LoadSound, SMT
  <1>5. CASE pc = 5
    <2>1. BuildNTPBPF[pc] = Jump("jeq", IPProtoUDP, 0, 14)
      BY <1>5, Program, SMT
    <2>2. a = IPProtoUDP => Assertion(f, pc + 1 + 0, a, x)
      BY <1>a, <1>5, <1>b, <1>c DEF Assertion, Wanted
    <2>3. ~(a = IPProtoUDP) => Assertion(f, pc + 1 + 14, a, x)
      BY <1>a, <1>5, <1>b, <1>c DEF Assertion, Wanted
    <2>4. pc + 1 + 0 <= 20 /\ pc + 1 + 14 <= 20
      BY <1>a, <1>5, <1>b, <1>c DEF Assertion, Wanted
    <2>5. 0 \in Nat /\ 14 \in Nat /\ pc \in 1 .. 19
      BY <1>5
    <2>. QED
      BY <2>1, <2>2, <2>3, <2>4, <2>5, JumpSound, Zenon
  <1>6. CASE pc = 6
    <2>1. BuildNTPBPF[pc] = Load("ldh", 20)
      BY <1>6, Program, SMT
    <2>2. 20 + Width("ldh") <= f.len => Assertion(f, pc + 1, At(f, 20), x)
      BY <1>a, <1>6, <1>b, <1>c DEF Assertion, Width
    <2>3. 20 + Width("ldh") > f.len => ~Wanted(f)
      BY <1>a, <1>6, <1>b, <1>c DEF Assertion, Wanted, Width
    <2>. QED
      BY <1>a, <1>6, <2>1, <2>2, <2>3, LoadSound, SMT
  <1>7. CASE pc = 7
    <2>1. BuildNTPBPF[pc] = Jump("jset", 8191, 12, 0)
      BY <1>7, Program, SMT
    <2>2. a % (8191 + 1) # 0 => Assertion(f, pc + 1 + 12, a, x)
      BY <1>a, <1>7, <1>b, <1>c DEF Assertion, Wanted
    <2>3. ~(a % (8191 + 1) # 0) => Assertion(f, pc + 1 + 0, a, x)
      BY <1>a, <1>7, <1>b, <1>c DEF Assertion, Wanted
    <2>4. pc + 1 + 12 <= 20 /\ pc + 1 + 0 <= 20
      BY <1>a, <1>7, <1>b, <1>c DEF Assertion, Wanted
    <2>5. 12 \in Nat /\ 0 \in Nat /\ pc \in 1 .. 19
      BY <1>7
    <2>. DEFINE k == 8191
    <2>6. /\ BuildNTPBPF[pc] = Jump("jset", k, 12, 0)
          /\ a % (k + 1) # 0 => Assertion(f, pc + 1 + 12, a, x)
          /\ ~(a % (k + 1) # 0) => Assertion(f, pc + 1 + 0, a, x)
      BY <2>1, <2>2, <2>3, SMT
    <2>. HIDE DEF k
    <2>. QED
      BY <2>4, <2>5, <2>6, MaskSound, Zenon
  <1>8. CASE pc = 8
    <2>1. BuildNTPBPF[pc] = Load("ldxb", EthHdrLen)
      BY <1>8, Program, SMT
    <2>2. EthHdrLen + 1 <= f.len => Assertion(f, pc + 1, a, 4 * f.ihl)
      BY <1>a, <1>8, <1>b, <1>c DEF Assertion, EthHdrLen
    <2>3. EthHdrLen + 1 > f.len => ~Wanted(f)
      BY <1>a, <1>8, <1>b, <1>c DEF Assertion, Wanted, EthHdrLen
    <2>4. EthHdrLen \in Nat
      BY <1>a, <1>8, <1>b, <1>c DEF Assertion, EthHdrLen
    <2>. QED
      BY <1>a, <1>8, <2>1, <2>2, <2>3, <2>4, HeaderLengthSound, SMT
  <1>9. CASE pc = 9
    <2>1. BuildNTPBPF[pc] = Load("ldhx", 14)
      BY <1>9, Program, SMT
    <2>2. 14 + x + 2 <= f.len => Assertion(f, pc + 1, At(f, 14 + x), x)
      BY <1>a, <1>9, <1>b, <1>c DEF Assertion
    <2>3. 14 + x + 2 > f.len => ~Wanted(f)
      BY <1>a, <1>9, <1>b, <1>c DEF Assertion, Wanted
    <2>4. x \in Nat
      BY <1>a, <1>9, <1>b, <1>c DEF Assertion
    <2>. QED
      BY <1>a, <1>9, <2>1, <2>2, <2>3, <2>4, IndexedLoadSound, SMT
  <1>10. CASE pc = 10
    <2>1. BuildNTPBPF[pc] = Jump("jeq", NTPPort, 8, 0)
      BY <1>10, Program, SMT
    <2>2. a = NTPPort => Assertion(f, pc + 1 + 8, a, x)
      BY <1>a, <1>10, <1>b, <1>c DEF Assertion, Wanted
    <2>3. ~(a = NTPPort) => Assertion(f, pc + 1 + 0, a, x)
      BY <1>a, <1>10, <1>b, <1>c DEF Assertion, Wanted
    <2>4. pc + 1 + 8 <= 20 /\ pc + 1 + 0 <= 20
      BY <1>a, <1>10, <1>b, <1>c DEF Assertion, Wanted
    <2>5. 8 \in Nat /\ 0 \in Nat /\ pc \in 1 .. 19
      BY <1>10
    <2>. QED
      BY <2>1, <2>2, <2>3, <2>4, <2>5, JumpSound, Zenon
  <1>11. CASE pc = 11
    <2>1. BuildNTPBPF[pc] = Load("ldhx", 16)
      BY <1>11, Program, SMT
    <2>2. 16 + x + 2 <= f.len => Assertion(f, pc + 1, At(f, 16 + x), x)
      BY <1>a, <1>11, <1>b, <1>c DEF Assertion
    <2>3. 16 + x + 2 > f.len => ~Wanted(f)
      BY <1>a, <1>11, <1>b, <1>c DEF Assertion, Wanted
    <2>4. x \in Nat
      BY <1>a, <1>11, <1>b, <1>c DEF Assertion
    <2>. QED
      BY <1>a, <1>11, <2>1, <2>2, <2>3, <2>4, IndexedLoadSound, SMT
  <1>12. CASE pc = 12
    <2>1. BuildNTPBPF[pc] = Jump("jeq", NTPPort, 6, 7)
      BY <1>12, Program, SMT
    <2>2. a = NTPPort => Assertion(f, pc + 1 + 6, a, x)
      BY <1>a, <1>12, <1>b, <1>c DEF Assertion, Wanted
    <2>3. ~(a = NTPPort) => Assertion(f, pc + 1 + 7, a, x)
      BY <1>a, <1>12, <1>b, <1>c DEF Assertion, Wanted
    <2>4. pc + 1 + 6 <= 20 /\ pc + 1 + 7 <= 20
      BY <1>a, <1>12, <1>b, <1>c DEF Assertion, Wanted
    <2>5. 6 \in Nat /\ 7 \in Nat /\ pc \in 1 .. 19
      BY <1>12
    <2>. QED
      BY <2>1, <2>2, <2>3, <2>4, <2>5, JumpSound, Zenon
  <1>13. CASE pc = 13
    <2>1. BuildNTPBPF[pc] = Load("ldb", 20)
      BY <1>13, Program, SMT
    <2>2. 20 + Width("ldb") <= f.len => Assertion(f, pc + 1, At(f, 20), x)
      BY <1>a, <1>13, <1>b, <1>d DEF Assertion, Width
    <2>3. 20 + Width("ldb") > f.len => ~Wanted(f)
      BY <1>a, <1>13, <1>b, <1>d DEF Assertion, Wanted, Width
    <2>. QED
      BY <1>a, <1>13, <2>1, <2>2, <2>3, LoadSound, SMT
  <1>14. CASE pc = 14
    <2>1. BuildNTPBPF[pc] = Jump("jeq", IPProtoUDP, 0, 5)
      BY <1>14, Program, SMT
    <2>2. a = IPProtoUDP => Assertion(f, pc + 1 + 0, a, x)
      BY <1>a, <1>14, <1>b, <1>d DEF Assertion, Wanted
    <2>3. ~(a = IPProtoUDP) => Assertion(f, pc + 1 + 5, a, x)
      BY <1>a, <1>14, <1>b, <1>d DEF Assertion, Wanted
    <2>4. pc + 1 + 0 <= 20 /\ pc + 1 + 5 <= 20
      BY <1>a, <1>14, <1>b, <1>d DEF Assertion, Wanted
    <2>5. 0 \in Nat /\ 5 \in Nat /\ pc \in 1 .. 19
      BY <1>14
    <2>. QED
      BY <2>1, <2>2, <2>3, <2>4, <2>5, JumpSound, Zenon
  <1>15. CASE pc = 15
    <2>1. BuildNTPBPF[pc] = Load("ldh", 54)
      BY <1>15, Program, SMT
    <2>2. 54 + Width("ldh") <= f.len => Assertion(f, pc + 1, At(f, 54), x)
      BY <1>a, <1>15, <1>b, <1>d DEF Assertion, Width
    <2>3. 54 + Width("ldh") > f.len => ~Wanted(f)
      BY <1>a, <1>15, <1>b, <1>d DEF Assertion, Wanted, Width
    <2>. QED
      BY <1>a, <1>15, <2>1, <2>2, <2>3, LoadSound, SMT
  <1>16. CASE pc = 16
    <2>1. BuildNTPBPF[pc] = Jump("jeq", NTPPort, 2, 0)
      BY <1>16, Program, SMT
    <2>2. a = NTPPort => Assertion(f, pc + 1 + 2, a, x)
      BY <1>a, <1>16, <1>b, <1>d DEF Assertion, Wanted
    <2>3. ~(a = NTPPort) => Assertion(f, pc + 1 + 0, a, x)
      BY <1>a, <1>16, <1>b, <1>d DEF Assertion, Wanted
    <2>4. pc + 1 + 2 <= 20 /\ pc + 1 + 0 <= 20
      BY <1>a, <1>16, <1>b, <1>d DEF Assertion, Wanted
    <2>5. 2 \in Nat /\ 0 \in Nat /\ pc \in 1 .. 19
      BY <1>16
    <2>. QED
      BY <2>1, <2>2, <2>3, <2>4, <2>5, JumpSound, Zenon
  <1>17. CASE pc = 17
    <2>1. BuildNTPBPF[pc] = Load("ldh", 56)
      BY <1>17, Program, SMT
    <2>2. 56 + Width("ldh") <= f.len => Assertion(f, pc + 1, At(f, 56), x)
      BY <1>a, <1>17, <1>b, <1>d DEF Assertion, Width
    <2>3. 56 + Width("ldh") > f.len => ~Wanted(f)
      BY <1>a, <1>17, <1>b, <1>d DEF Assertion, Wanted, Width
    <2>. QED
      BY <1>a, <1>17, <2>1, <2>2, <2>3, LoadSound, SMT
  <1>18. CASE pc = 18
    <2>1. BuildNTPBPF[pc] = Jump("jeq", NTPPort, 0, 1)
      BY <1>18, Program, SMT
    <2>2. a = NTPPort => Assertion(f, pc + 1 + 0, a, x)
      BY <1>a, <1>18, <1>b, <1>d DEF Assertion, Wanted
    <2>3. ~(a = NTPPort) => Assertion(f, pc + 1 + 1, a, x)
      BY <1>a, <1>18, <1>b, <1>d DEF Assertion, Wanted
    <2>4. pc + 1 + 0 <= 20 /\ pc + 1 + 1 <= 20
      BY <1>a, <1>18, <1>b, <1>d DEF Assertion, Wanted
    <2>5. 0 \in Nat /\ 1 \in Nat /\ pc \in 1 .. 19
      BY <1>18
    <2>. QED
      BY <2>1, <2>2, <2>3, <2>4, <2>5, JumpSound, Zenon
  <1>19. CASE pc = 19
    <2>1. BuildNTPBPF[pc] = Ret(65535)
      BY <1>19, Program, SMT
    <2>2. 65535 > 0 <=> Wanted(f)
      BY <1>a, <1>19 DEF Assertion
    <2>. QED
      BY <1>a, <1>19, <2>1, <2>2, ReturnSound, SMT
  <1>20. CASE pc = 20
    <2>1. BuildNTPBPF[pc] = Ret(0)
      BY <1>20, Program, SMT
    <2>2. 0 > 0 <=> Wanted(f)
      BY <1>a, <1>20 DEF Assertion
    <2>. QED
      BY <1>a, <1>20, <2>1, <2>2, ReturnSound, SMT
  <1>. QED
    BY <1>1, <1>2, <1>3, <1>4, <1>5, <1>6, <1>7, <1>8, <1>9, <1>10, <1>11, <1>12,
       <1>13, <1>14, <1>15, <1>16, <1>17, <1>18, <1>19, <1>20, SMT

LEMMA TraceSound ==
  ASSUME NEW f \in Frame, Regular(f)
  PROVE  Sound(f, Trace(f)[20], 20)
  <1>. DEFINE P(k) == Sound(f, Trace(f)[k], k)
  <1>1. P(0)
    <2>1. Assertion(f, 1, 0, 0) /\ 1 \in 0 + 1 .. 20
      BY SMT DEF Assertion
    <2>2. Sound(f, State(1, 0, 0, -1), 0)
      BY <2>1, GoesOn, Zenon
    <2>. QED
      BY <2>2, TraceSteps, Zenon
  <1>2. ASSUME NEW k \in 0 .. 19, P(k)
        PROVE  P(k + 1)
    <2>. DEFINE s == Trace(f)[k]
    <2>1. Trace(f)[k + 1] = Advance(f, s)
      BY TraceSteps, Zenon
    <2>2. ASSUME NEW pc \in k + 1 .. 20, NEW a, NEW x,
                 s = State(pc, a, x, -1), Assertion(f, pc, a, x)
          PROVE  P(k + 1)
      <3>1. pc \in 1 .. 20 /\ \A q \in pc + 1 .. 20 : q \in k + 1 + 1 .. 20
        BY SMT
      <3>2. Sound(f, Advance(f, State(pc, a, x, -1)), pc)
        BY <2>2, <3>1, StepSound, Zenon
      <3>3. Sound(f, Advance(f, State(pc, a, x, -1)), k + 1)
        BY <3>1, <3>2, Zenon DEF Sound
      <3>. QED
        BY <2>1, <2>2, <3>3, Zenon
    <2>3. CASE s.ret \in Nat /\ (s.ret > 0 <=> Wanted(f))
      <3>1. s.ret # -1
        BY <2>3, SMT
      <3>2. Advance(f, s) = s
        BY <3>1, Zenon DEF Advance
      <3>3. Sound(f, s, k + 1)
        BY <2>3, Zenon DEF Sound
      <3>. QED
        BY <2>1, <3>2, <3>3, Zenon
    <2>. QED
      BY <1>2, <2>2, <2>3, Zenon DEF Sound
  <1>. HIDE DEF P
  <1>3. P(5)
    BY <1>1, <1>2, SMT
  <1>4. P(10)
    BY <1>2, <1>3, SMT
  <1>5. P(15)
    BY <1>2, <1>4, SMT
  <1>6. P(20)
    BY <1>2, <1>5, SMT
  <1>. QED
    BY <1>6, Zenon DEF P

(* The program of BuildNTPBPF accepts exactly the frames of Wanted: UDP on *)
(* IPv4 or IPv6 without a VLAN tag, not a fragment, as long as what it     *)
(* reads, from or to the NTP port. For every frame whose IPv4 header has   *)
(* at least its least length, whatever the options.                        *)
THEOREM FilterDecides ==
  ASSUME NEW f \in Frame, Regular(f)
  PROVE  Passes(f) <=> Wanted(f)
  <1>1. Sound(f, Trace(f)[20], 20)
    BY TraceSound, Zenon
  <1>2. ~ \E pc \in 20 + 1 .. 20 : TRUE
    BY SMT
  <1>3. Trace(f)[20].ret > 0 <=> Wanted(f)
    BY <1>1, <1>2, Zenon DEF Sound
  <1>4. Len(BuildNTPBPF) = 20
    BY Program, SMT
  <1>. QED
    BY <1>3, <1>4, Zenon DEF Passes, Verdict

LEMMA NoneLost ==
  ASSUME NEW f \in Frame, Parses(f), ~f.vlan, ~Fragment(f)
  PROVE  Passes(f)
  <1>1. f.len \in Nat /\ f.ihl \in 0 .. 15
    BY FrameFields, Zenon
  <1>2. Regular(f)
    BY <1>1 DEF Regular, Parses, EthertypeIPv4, EthertypeIPv6
  <1>3. f.proto = IPProtoUDP /\ (f.sport = NTPPort \/ f.dport = NTPPort)
    BY SMT DEF Parses
  <1>4. CASE f.ethertype = EthertypeIPv4
    <2>1. UDPOff(f) = 14 + 4 * f.ihl
      BY <1>4, SMT DEF UDPOff, IPOff, EthHdrLen
    <2>2. f.len >= 24 /\ f.len >= UDPOff(f) + 4
      BY <1>1, <1>2, <1>4, <2>1 DEF Parses, PayloadOff, Regular
    <2>3. V4(f) /\ f.frag % 8192 = 0
      BY <1>4, SMT DEF V4, Fragment
    <2>4. f.len >= UDPOff(f) + 2
      BY <1>1, <2>1, <2>2, SMT
    <2>5. Wanted(f)
      BY <1>3, <2>2, <2>3, <2>4 DEF Wanted
    <2>. QED
      BY <1>2, <2>5, FilterDecides, Zenon
  <1>5. CASE f.ethertype = EthertypeIPv6
    <2>1. UDPOff(f) = 54
      BY <1>5, SMT DEF UDPOff, IPOff, EthHdrLen, EthertypeIPv4, EthertypeIPv6
    <2>2. f.len >= 62
      BY <1>1, <2>1, SMT DEF Parses, PayloadOff
    <2>3. V6(f)
      BY <1>5, Zenon DEF V6
    <2>4. Wanted(f)
      BY <1>1, <1>3, <2>1, <2>2, <2>3 DEF Wanted
    <2>. QED
      BY <1>2, <2>4, FilterDecides, Zenon
  <1>. QED
    BY <1>4, <1>5, Zenon DEF Parses

LEMMA NoneMisread ==
  ASSUME NEW f \in Frame, Passes(f), f.ethertype = EthertypeIPv4 => 4 * f.ihl >= 20,
         f.len \notin UDPOff(f) + 2 .. PayloadOff(f) - 1
  PROVE  Parses(f)
  <1>1. f.len \in Nat /\ f.ihl \in 0 .. 15
    BY FrameFields, Zenon
  <1>2. Regular(f)
    BY <1>1 DEF Regular
  <1>3. Wanted(f)
    BY <1>2, FilterDecides, Zenon
  <1>4. f.proto = IPProtoUDP /\ (f.sport = NTPPort \/ f.dport = NTPPort)
    BY <1>3, SMT DEF Wanted
  <1>5. UDPOff(f) \in Nat
    BY <1>1 DEF UDPOff, IPOff, EthHdrLen
  <1>6. f.len >= UDPOff(f) + 8
    BY <1>1, <1>3, <1>5, SMT DEF PayloadOff, Wanted
  <1>7. V4(f) \/ V6(f)
    BY <1>3, SMT DEF Wanted
  <1>8. CASE V4(f)
    <2>1. IPOff(f) = 14 /\ UDPOff(f) = 14 + 4 * f.ihl
      BY <1>8, SMT DEF V4, UDPOff, IPOff, EthHdrLen
    <2>2. /\ f.ethertype = EthertypeIPv4 /\ 4 * f.ihl >= 20
          /\ f.len >= IPOff(f) /\ f.len >= IPOff(f) + 20
          /\ f.len >= UDPOff(f) /\ f.len >= PayloadOff(f)
      BY <1>1, <1>6, <1>8, <2>1, SMT DEF V4, PayloadOff
    <2>. QED
      BY <1>4, <2>2, SMT DEF Parses
  <1>9. CASE V6(f)
    <2>1. IPOff(f) = 14 /\ UDPOff(f) = 54
      BY <1>9, SMT DEF V6, UDPOff, IPOff, EthHdrLen, EthertypeIPv4, EthertypeIPv6
    <2>2. /\ f.ethertype = EthertypeIPv6
          /\ f.len >= IPOff(f) /\ f.len >= UDPOff(f) /\ f.len >= PayloadOff(f)
      BY <1>1, <1>6, <1>9, <2>1, SMT DEF V6, PayloadOff
    <2>. QED
      BY <1>4, <2>2, SMT DEF Parses
  <1>. QED
    BY <1>7, <1>8, <1>9, Zenon

(* The socket filter and the parser agree, whatever frames are on the wire: *)
(* a frame ShouldAccept would accept reaches it unless it has a VLAN tag or *)
(* is a fragment, and what the filter lets through parses, but for a frame  *)
(* cut in its UDP header or with a malformed IPv4 header length.            *)
THEOREM FilterAlwaysAgrees == Spec => []FilterAgrees
  <1>1. Lost = {}
    <2>1. ASSUME NEW f \in Lost
          PROVE  FALSE
      <3>1. f \in Frame /\ Parses(f) /\ ~f.vlan /\ ~Fragment(f) /\ ~Passes(f)
        BY LocalAssumption, Zenon DEF Lost, Captured
      <3>. QED
        BY <3>1, NoneLost, Zenon
    <2>. QED
      BY <2>1, Zenon
  <1>2. Misread = {}
    <2>1. ASSUME NEW f \in Misread
          PROVE  FALSE
      <3>1. /\ f \in Frame /\ Passes(f) /\ ~Parses(f)
            /\ f.ethertype = EthertypeIPv4 => 4 * f.ihl >= 20
            /\ f.len \notin UDPOff(f) + 2 .. PayloadOff(f) - 1
        BY LocalAssumption, Zenon DEF Misread, Captured
      <3>. QED
        BY <3>1, NoneMisread, Zenon
    <2>. QED
      BY <2>1, Zenon
  <1>3. FilterAgrees
    BY <1>1, <1>2, Zenon DEF FilterAgrees
  <1>. QED
    BY <1>3, PTL
=============================================================================
