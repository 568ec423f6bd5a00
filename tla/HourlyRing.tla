----------------------------- MODULE HourlyRing -----------------------------
(***************************************************************************)
(* The ring of hourly sketches of the collector (aggregate.go, hourly,     *)
(* hour and hourSet) as operators on values. A sketch is the set of keys   *)
(* added to it: how far its estimate is from the cardinality of that set   *)
(* is a matter of package hll.                                             *)
(*                                                                         *)
(* An operator that nothing uses is a faulty variant of the definition     *)
(* after it: the mutation of the code that a property has to notice.       *)
(***************************************************************************)
EXTENDS Integers

CONSTANTS
  IP,            (* client addresses                                        *)
  HoursPerDay,   (* length of the ring: 24 in the code                      *)
  Unset          (* value of hour while hourSet is false                    *)

ASSUME RingAssumption ==
  /\ HoursPerDay \in Nat \ {0}
  /\ Unset \notin Int

Hours == 0 .. HoursPerDay - 1

EmptyRing == [h \in Hours |-> {}]

EnteredButLast(h0, h1) ==
  {(h0 + i) % HoursPerDay : i \in 1 .. ((h1 - h0) % HoursPerDay) - 1}

(* The buckets the loop of currentBucketLocked replaces when the hour goes *)
(* from h0 to h1: h0 + 1, h0 + 2, ... modulo the day, up to h1.            *)
Entered(h0, h1) ==
  {(h0 + i) % HoursPerDay : i \in 1 .. (h1 - h0) % HoursPerDay}

RolledForwardOnly(ring, h0, h1) ==
  IF h0 = Unset \/ h0 >= h1
  THEN ring
  ELSE [h \in Hours |-> IF h \in Entered(h0, h1) THEN {} ELSE ring[h]]

(* currentBucketLocked: the ring once the wall clock shows hour h1.        *)
Rolled(ring, h0, h1) ==
  IF h0 = Unset \/ h0 = h1
  THEN ring
  ELSE [h \in Hours |-> IF h \in Entered(h0, h1) THEN {} ELSE ring[h]]

(* currentBucketLocked(c.wall()).Add(ip)                                   *)
Added(ring, h0, h1, ip) ==
  [Rolled(ring, h0, h1) EXCEPT ![h1] = @ \union {ip}]

(* Flush's merge of the 24 cloned sketches.                                *)
MergedKeys(ring) == UNION {ring[h] : h \in Hours}
=============================================================================
