---------------------------- MODULE SketchWindow ----------------------------
(***************************************************************************)
(* The ring of hourly sketches with the registers the code keeps           *)
(* (aggregate.go with hll.go), beside the sets of keys HourlyWindow keeps  *)
(* for them: every section on hourlyMu does the same to both. Flush clones *)
(* the ring in its section and merges the clones after it, hour by hour,   *)
(* while workers go on adding clients.                                     *)
(***************************************************************************)
EXTENDS HourlyWindow, Hll

ASSUME KeysHashed == IP \subseteq DOMAIN Hash

VARIABLES
  sketch,     (* c.hourly: the registers of every bucket                    *)
  snapshot,   (* Flush's clones                                             *)
  cloned,     (* history: the keys of the buckets when they were cloned     *)
  merged, at  (* Flush's merged sketch and the next clone to merge:         *)
              (* HoursPerDay after the last, Idle between two flushes       *)

Idle == -1

mergeVars == <<snapshot, cloned, merged, at>>
sketchVars == <<vars, sketch, mergeVars>>

NewRing == [h \in Hours |-> NewSketch]

SketchInit ==
  /\ Init
  /\ sketch = NewRing /\ snapshot = NewRing
  /\ cloned = EmptyRing /\ merged = NewSketch /\ at = Idle

(* currentBucketLocked: every bucket entered gets a new sketch.            *)
RolledSketches ==
  IF hour = Unset \/ hour = WallHour
  THEN sketch
  ELSE [h \in Hours |->
          IF h \in Entered(hour, WallHour) THEN NewSketch ELSE sketch[h]]

(* currentBucketLocked(c.wall()).Add(ip)                                   *)
AddClient(ip) ==
  /\ Add(ip)
  /\ sketch' = [RolledSketches EXCEPT ![WallHour] = AddKey(@, ip)]
  /\ UNCHANGED mergeVars

(* Flush's section on hourlyMu.                                            *)
CloneRing ==
  /\ at = Idle
  /\ Clone
  /\ sketch' = RolledSketches /\ snapshot' = sketch' /\ cloned' = hourly'
  /\ merged' = NewSketch /\ at' = 0

MergeNextLive ==
  /\ at \in Hours
  /\ merged' = MergeSketch(merged, sketch[at]) /\ at' = at + 1
  /\ UNCHANGED <<vars, sketch, snapshot, cloned>>

(* merged.Merge(s) for the next clone.                                     *)
MergeNext ==
  /\ at \in Hours
  /\ merged' = MergeSketch(merged, snapshot[at]) /\ at' = at + 1
  /\ UNCHANGED <<vars, sketch, snapshot, cloned>>

(* NtpClientsUniqueDaily.Set(merged.Count()); the clones are garbage.      *)
Publish ==
  /\ at = HoursPerDay
  /\ snapshot' = NewRing /\ cloned' = EmptyRing /\ merged' = NewSketch
  /\ at' = Idle
  /\ UNCHANGED <<vars, sketch>>

TimePasses == (Pass \/ SetClock) /\ UNCHANGED <<sketch, mergeVars>>

SketchNext ==
  (\E ip \in IP : AddClient(ip)) \/ CloneRing \/ MergeNext
  \/ Publish \/ TimePasses

SketchSpec == SketchInit /\ [][SketchNext]_sketchVars
-----------------------------------------------------------------------------
(* hll.go:50-82, aggregate.go:148-165. Whatever the order in which clients *)
(* come, come again and buckets are replaced, a bucket's registers are     *)
(* those of the keys added since it was last replaced.                     *)
SketchesRepresent == \A h \in Hours : Represents(sketch[h], hourly[h])

(* aggregate.go:374-391. The registers Count is computed from are those of *)
(* the clients in the ring at one instant, the one Flush held hourlyMu:    *)
(* clients added while the clones are merged are in none of them.          *)
MergeRepresents == at = HoursPerDay => Represents(merged, MergedKeys(cloned))
=============================================================================
