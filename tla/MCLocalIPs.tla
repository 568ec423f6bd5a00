----------------------------- MODULE MCLocalIPs -----------------------------
(* Small instances of LocalIPs for TLC.                                    *)
EXTENDS LocalIPs, TLC

CONSTANTS we, wd, client, server, t1, t2, w1, w2

WorkerSymmetry == Permutations({w1, w2})

(* The host gets a second address, or is renumbered.                       *)
HostLists == {{we}, {we, wd}, {wd}}

FrameFrom(src, sport, dst, dport, len) ==
  [len |-> len, vlan |-> FALSE, ethertype |-> EthertypeIPv4, ihl |-> 5, frag |-> 16384,
   proto |-> IPProtoUDP, src |-> src, dst |-> dst, sport |-> sport, dport |-> dport,
   vn |-> 4, originTS |-> t1, transmitTS |-> t2]

(* A client's request and the reply; chronyd's poll and the answer; a      *)
(* request without a whole NTP payload, and one cut in the UDP header.     *)
Exchanges ==
  {FrameFrom(client, 1024, we, 123, 90), FrameFrom(we, 123, client, 1024, 90),
   FrameFrom(we, 1024, server, 123, 90), FrameFrom(server, 123, we, 1024, 90),
   FrameFrom(client, 1024, we, 123, 42), FrameFrom(client, 1024, we, 123, 38)}

(* Lengths about the end of every header, to either side of it.            *)
Lengths == {13, 14, 17, 18, 24, 25, 33, 34, 35, 36, 37, 38, 39, 40, 41, 42, 46,
            53, 54, 55, 56, 57, 58, 61, 62, 65, 66, 90}

(* With other protocols, IP options, a header length too small, fragments, *)
(* a VLAN tag, other ports, and every way of being cut.                    *)
OnTheWire == Exchanges \union
  UNION {{[f EXCEPT !.len = n, !.ihl = ihl, !.frag = frag, !.vlan = tagged, !.proto = proto]
            : n \in Lengths, ihl \in {3, 5, 6}, frag \in {0, 8192, 185},
              tagged \in BOOLEAN, proto \in {6, 17}}
         : f \in {[FrameFrom(client, p[1], we, p[2], 0) EXCEPT !.ethertype = e]
                    : p \in {<<1024, 123>>, <<123, 1024>>, <<1024, 1024>>},
                      e \in {EthertypeIPv4, EthertypeIPv6, 2054}}}
=============================================================================
