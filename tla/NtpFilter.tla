----------------------------- MODULE NtpFilter -----------------------------
(***************************************************************************)
(* The classic-BPF program of BuildNTPBPF (ntpframe/frame.go), and the     *)
(* kernel's interpretation of it on a frame.                               *)
(*                                                                         *)
(* An operator that nothing uses is a faulty variant of the definition     *)
(* after it: the mutation of the code that a property has to notice.       *)
(***************************************************************************)
EXTENDS NtpFrame, Sequences

(* The instructions, with the jumps relative to the next one as in Jt, Jf. *)
Load(op, k) == [op |-> op, jt |-> 0, jf |-> 0, k |-> k]
Jump(op, k, jt, jf) == [op |-> op, jt |-> jt, jf |-> jf, k |-> k]
Ret(k) == [op |-> "ret", jt |-> 0, jf |-> 0, k |-> k]

EthernetPart ==
  <<Load("ldh", 12), Jump("jeq", EthertypeIPv4, 1, 0), Jump("jeq", EthertypeIPv6, 9, 16)>>

IPv4PartWithoutOptions ==
  <<Load("ldb", 23), Jump("jeq", IPProtoUDP, 0, 14),
    Load("ldh", 20), Jump("jset", 8191, 12, 0), Load("ldxb", EthHdrLen),
    Load("ldh", 34), Jump("jeq", NTPPort, 8, 0),
    Load("ldh", 36), Jump("jeq", NTPPort, 6, 7)>>

IPv4Part ==
  <<Load("ldb", 23), Jump("jeq", IPProtoUDP, 0, 14),
    Load("ldh", 20), Jump("jset", 8191, 12, 0), Load("ldxb", EthHdrLen),
    Load("ldhx", 14), Jump("jeq", NTPPort, 8, 0),
    Load("ldhx", 16), Jump("jeq", NTPPort, 6, 7)>>

IPv6Part ==
  <<Load("ldb", 20), Jump("jeq", IPProtoUDP, 0, 5),
    Load("ldh", 54), Jump("jeq", NTPPort, 2, 0),
    Load("ldh", 56), Jump("jeq", NTPPort, 0, 1)>>

BuildNTPBPF == EthernetPart \o IPv4Part \o IPv6Part \o <<Ret(65535), Ret(0)>>
-----------------------------------------------------------------------------
(* The field of the frame at a byte offset that the program may load from. *)
At(f, off) ==
  LET v4 == ~f.vlan /\ f.ethertype = EthertypeIPv4
      v6 == ~f.vlan /\ f.ethertype = EthertypeIPv6
  IN CASE off = 12 -> IF f.vlan THEN EthertypeVLAN ELSE f.ethertype
       [] v4 /\ off = 23 -> f.proto
       [] v4 /\ off = 20 -> f.frag
       [] v6 /\ off = 20 -> f.proto
       [] off = UDPOff(f) -> f.sport
       [] off = UDPOff(f) + 2 -> f.dport
       [] OTHER -> 0

Width(op) == IF op \in {"ldh", "ldhx"} THEN 2 ELSE 1

(* The machine: the next instruction, the accumulator a, the index x, and  *)
(* the verdict, -1 while it runs.                                          *)
State(pc, a, x, ret) == [pc |-> pc, a |-> a, x |-> x, ret |-> ret]

(* One instruction. A load beyond the frame ends the program with a reject. *)
Execute(f, s, i) ==
  LET off == i.k + (IF i.op = "ldhx" THEN s.x ELSE 0)
      Goto(j) == State(s.pc + 1 + j, s.a, s.x, -1)
  IN CASE i.op \in {"ldb", "ldh", "ldhx", "ldxb"} /\ off + Width(i.op) > f.len ->
            State(s.pc, s.a, s.x, 0)
       [] i.op \in {"ldb", "ldh", "ldhx"} /\ off + Width(i.op) <= f.len ->
            State(s.pc + 1, At(f, off), s.x, -1)
       [] i.op = "ldxb" /\ off + 1 <= f.len -> State(s.pc + 1, s.a, 4 * f.ihl, -1)
       [] i.op = "jeq" -> Goto(IF s.a = i.k THEN i.jt ELSE i.jf)
       [] i.op = "jset" -> Goto(IF s.a % (i.k + 1) # 0 THEN i.jt ELSE i.jf)
       [] i.op = "ret" -> State(s.pc, s.a, s.x, i.k)

Advance(f, s) == IF s.ret = -1 THEN Execute(f, s, BuildNTPBPF[s.pc]) ELSE s

(* The states of the machine on f. All jumps are forward, so that it has   *)
(* returned after as many steps as the program has instructions.           *)
Trace(f) ==
  LET after[k \in 0 .. Len(BuildNTPBPF)] ==
        IF k = 0 THEN State(1, 0, 0, -1)
        ELSE Advance(f, after[k - 1])
  IN after

Verdict(f) == Trace(f)[Len(BuildNTPBPF)].ret

(* The socket's ring gets the frame.                                       *)
Passes(f) == Verdict(f) > 0
=============================================================================
