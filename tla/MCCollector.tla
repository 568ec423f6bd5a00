----------------------------- MODULE MCCollector -----------------------------
(* Small instances of Collector for TLC.                                   *)
EXTENDS CollectorProperties

CONSTANTS a, x, y, eu, us, o, as1, as2, as3

OneShard  == [ip \in IP |-> 0]
LastShard == [ip \in IP |-> NumShards - 1]

Ranks == [n \in ASN |-> CASE n = as1 -> 1 [] n = as2 -> 2 [] OTHER -> 3]

GeoWith(country, asn) == [country |-> country, asn |-> [asn |-> asn, asOrg |-> o]]

GeoThree  == [ip \in IP |-> {GeoWith(eu, n) : n \in ASN}]
GeoFixed  == [ip \in IP |-> {GeoWith(eu, NoASN)}]

FrameOf(d, ip, xid) ==
  [direction |-> d, ip |-> ip, family |-> "ipv4",
   version |-> IF d = "request" THEN "4" ELSE "", xid |-> xid]

(* Requests that are only counted: no xid.                                 *)
CountedRequests == {FrameOf("request", a, Nil)}

(* Requests and their answers.                                             *)
PairedFrames == {FrameOf(d, ip, xi) : d \in Direction, ip \in IP, xi \in XID}
=============================================================================
