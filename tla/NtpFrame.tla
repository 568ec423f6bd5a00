------------------------------ MODULE NtpFrame ------------------------------
(***************************************************************************)
(* ParseNTPFrame (ntpframe/frame.go) and ShouldAccept (capture/filter.go)  *)
(* as operators.                                                           *)
(*                                                                         *)
(* An Ethernet frame is a record of its length and of the fields that the  *)
(* parser and the socket filter read; where they stand is in the code's    *)
(* byte offsets. Of the NTP payload there are the version bits and the two *)
(* timestamps an xid is taken from.                                        *)
(*                                                                         *)
(* An operator that nothing uses is a faulty variant of the definition     *)
(* after it: the mutation of the code that a property has to notice.       *)
(***************************************************************************)
EXTENDS Integers

CONSTANTS
  Addr,        (* IP addresses                                              *)
  Port,        (* UDP ports                                                 *)
  Timestamp,   (* NTP timestamps                                            *)
  Nil          (* a nil xid                                                 *)

EthHdrLen == 14
EthertypeIPv4 == 2048
EthertypeIPv6 == 34525
EthertypeVLAN == 33024
IPProtoUDP == 17
NTPPort == 123
NTPPayloadMin == 48

ASSUME FrameAssumption == NTPPort \in Port /\ Nil \notin Timestamp

Byte == 0 .. 255
Halfword == 0 .. 65535

(* ihl and frag (flags and fragment offset) are IPv4's. The ports are the  *)
(* halfwords that follow as many bytes of IP header as it claims to have.  *)
Frame == [len : Nat, vlan : BOOLEAN, ethertype : Halfword, ihl : 0 .. 15,
          frag : Halfword, proto : Byte, src : Addr, dst : Addr,
          sport : Port, dport : Port,
          vn : 0 .. 7, originTS : Timestamp, transmitTS : Timestamp]

ntpVersion(vn) == IF vn \in 1 .. 4 THEN vn ELSE "other"

(* off, at the IP header, at the UDP header, at the payload                *)
IPOff(f) == EthHdrLen + (IF f.vlan THEN 4 ELSE 0)
UDPOff(f) == IPOff(f) + (IF f.ethertype = EthertypeIPv4 THEN 4 * f.ihl ELSE 40)
PayloadOff(f) == UDPOff(f) + 8

(* The length checks and the early returns of ParseNTPFrame.               *)
Parses(f) ==
  /\ f.len >= IPOff(f)
  /\ \/ f.ethertype = EthertypeIPv4 /\ f.len >= IPOff(f) + 20 /\ 4 * f.ihl >= 20
     \/ f.ethertype = EthertypeIPv6
  /\ f.len >= UDPOff(f)
  /\ f.proto = IPProtoUDP
  /\ f.len >= PayloadOff(f)
  /\ NTPPort \in {f.sport, f.dport}

HasPayload(f) == f.len - PayloadOff(f) >= NTPPayloadMin

DirectionOf(f) == IF f.dport = NTPPort THEN "request" ELSE "response"

(* payload[40:48] of a request, payload[24:32] of a response               *)
XidOf(f) == IF DirectionOf(f) = "request" THEN f.transmitTS ELSE f.originTS

(* What a frame that parses is parsed to.                                  *)
ParseNTPFrame(f) ==
  [direction |-> DirectionOf(f),
   ip        |-> IF DirectionOf(f) = "request" THEN f.src ELSE f.dst,
   srcIP     |-> f.src, dstIP |-> f.dst,
   family    |-> IF f.ethertype = EthertypeIPv4 THEN "ipv4" ELSE "ipv6",
   version   |-> IF HasPayload(f) THEN ntpVersion(f.vn) ELSE "",
   xid       |-> IF HasPayload(f) THEN XidOf(f) ELSE Nil]

OurEndAlwaysDst(p) == p.dstIP

(* The address ShouldAccept looks up among the local ones.                 *)
OurEnd(p) == IF p.direction = "request" THEN p.dstIP ELSE p.srcIP
-----------------------------------------------------------------------------
(* The reply chronyd sends: no IP options, ends swapped, the request's     *)
(* transmit timestamp as its origin timestamp.                             *)
Reply(f, ts) ==
  [len |-> IPOff(f) + (IF f.ethertype = EthertypeIPv4 THEN 20 ELSE 40) + 8 + NTPPayloadMin,
   vlan |-> f.vlan, ethertype |-> f.ethertype, ihl |-> 5, frag |-> 0, proto |-> IPProtoUDP,
   src |-> f.dst, dst |-> f.src, sport |-> f.dport, dport |-> f.sport,
   vn |-> f.vn, originTS |-> f.transmitTS, transmitTS |-> ts]

Accepted(f, local) == Parses(f) /\ OurEnd(ParseNTPFrame(f)) \in local
=============================================================================
