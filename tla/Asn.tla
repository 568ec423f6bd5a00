--------------------------------- MODULE Asn ---------------------------------
(***************************************************************************)
(* The pure functions of exporter/internal/aggregate/asn.go: ranking,      *)
(* pruning and folding of autonomous systems (ASNs).                       *)
(*                                                                         *)
(* A map[int64]int64 of totals is a function of ASN to Nat; 0 is an absent *)
(* key (the code only ever adds positive counts to it).                    *)
(***************************************************************************)
EXTENDS Integers, FiniteSets

CONSTANTS
  ASN,          (* autonomous system numbers                                *)
  NoASN,        (* hasASN = false                                           *)
  Org,          (* organisation names                                       *)
  DecimalRank   (* [ASN -> Nat]: the place of strconv.FormatInt(asn, 10) in *)
                (* the order of strings                                     *)

ASSUME AsnAssumption ==
  /\ NoASN \notin ASN /\ IsFiniteSet(ASN) /\ IsFiniteSet(Org)
  /\ DecimalRank \in [ASN -> Nat]
  /\ \A a, b \in ASN : DecimalRank[a] = DecimalRank[b] => a = b

AsnKey == [asn : ASN \union {NoASN}, asOrg : Org]

KeysOf(a) == {k \in AsnKey : k.asn = a}

(* The labels foldASN can return.                                          *)
UnknownLabel == <<"unknown", "unknown">>
OtherLabel   == <<"other", "other">>
AsnLabel     == {UnknownLabel, OtherLabel} \union (ASN \X Org)

Present(totals) == {a \in ASN : totals[a] > 0}

(* The less function topNASNs sorts with.                                  *)
RanksAhead(totals, a, b) ==
  \/ totals[a] > totals[b]
  \/ totals[a] = totals[b] /\ DecimalRank[a] < DecimalRank[b]

topNASNs(totals, n) ==
  {a \in Present(totals) :
     Cardinality({b \in Present(totals) : RanksAhead(totals, b, a)}) < n}

(* sort.Slice is not stable and the items come in map order, so equal      *)
(* counts at the boundary are kept or lost arbitrarily: the set of results.*)
Kept(totals, max) ==
  {S \in SUBSET Present(totals) :
     /\ \/ S = Present(totals) /\ Cardinality(S) <= max
        \/ Cardinality(S) = max
     /\ \A a \in S, b \in Present(totals) \ S : totals[a] >= totals[b]}

pruneToLargest(totals, max) ==
  {[a \in ASN |-> IF a \in S THEN totals[a] ELSE 0] : S \in Kept(totals, max)}

foldASN(key, top) ==
  CASE key.asn = NoASN -> UnknownLabel
    [] key.asn \in top -> <<key.asn, key.asOrg>>
    [] OTHER           -> OtherLabel
=============================================================================
