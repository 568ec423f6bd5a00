---------------------------- MODULE HourlyWindow ----------------------------
(***************************************************************************)
(* ntp_clients_unique_daily over days: the ring of hourly sketches         *)
(* (aggregate.go, currentBucketLocked) driven by HandleFrame and Flush as  *)
(* hours go by and the wall clock is set. Both use the ring in one section *)
(* on hourlyMu, so an action is the whole section.                         *)
(***************************************************************************)
EXTENDS HourlyRing

CONSTANTS
  MaxGap,            (* hours between two uses of the ring; Flush uses it   *)
                     (* every CLIENTS_POLL_INTERVAL (15 s)                  *)
  MaxTime,           (* bound on the hours that pass                        *)
  Steps, MaxSteps    (* hours by which, and how often, the clock is set     *)

ASSUME WindowAssumption ==
  /\ MaxGap \in Nat /\ MaxGap < HoursPerDay
  /\ MaxTime \in Nat /\ Steps \subseteq Int /\ MaxSteps \in Nat

VARIABLES
  hourly, hour,
  time,          (* hours that have really passed                           *)
  step, steps,   (* the wall clock is ahead by step; it was set steps times *)
  setAt,         (* history: when it was last set                           *)
  usedAt,        (* when the ring was last used                             *)
  log            (* history: who was seen when in the last HoursPerDay      *)
                 (* hours, a subset of IP \X Nat                            *)

vars == <<hourly, hour, time, step, steps, setAt, usedAt, log>>

WallHour == (time + step) % HoursPerDay

Init ==
  /\ hourly = EmptyRing /\ hour = Unset
  /\ time = 0 /\ step = 0 /\ steps = 0 /\ setAt = 0 /\ usedAt = 0 /\ log = {}

(* HandleFrame's section: the client's address enters the current bucket.  *)
Add(ip) ==
  /\ hourly' = Added(hourly, hour, WallHour, ip)
  /\ hour' = WallHour /\ usedAt' = time
  /\ log' = log \union {<<ip, time>>}
  /\ UNCHANGED <<time, step, steps, setAt>>

(* Flush's section: the ring as it is cloned.                              *)
Clone ==
  /\ hourly' = Rolled(hourly, hour, WallHour)
  /\ hour' = WallHour /\ usedAt' = time
  /\ UNCHANGED <<time, step, steps, setAt, log>>

Pass ==
  /\ time < MaxTime /\ time + 1 - usedAt <= MaxGap
  /\ time' = time + 1
  /\ log' = {e \in log : e[2] > time' - HoursPerDay}
  /\ UNCHANGED <<hourly, hour, step, steps, setAt, usedAt>>

(* The wall clock is set.                                                  *)
SetClock ==
  /\ steps < MaxSteps /\ steps' = steps + 1 /\ setAt' = time
  /\ \E d \in Steps : step' = step + d
  /\ UNCHANGED <<hourly, hour, time, usedAt, log>>

Next == (\E ip \in IP : Add(ip)) \/ Clone \/ Pass \/ SetClock

Spec == Init /\ [][Next]_vars
-----------------------------------------------------------------------------
(* The clients seen less than n hours ago.                                 *)
SeenWithin(n) == {ip \in IP : \E t \in time - n + 1 .. time : <<ip, t>> \in log}

(* What a merge would publish now.                                         *)
MergedNow == MergedKeys(Rolled(hourly, hour, WallHour))

(* aggregate.go:148-165, 378-390. As long as the ring is used at least     *)
(* once a day and the clock is not set, a merge yields exactly the clients *)
(* seen in this hour and the HoursPerDay - 1 before it: no bucket is kept  *)
(* past its day, none is cleared before, whatever hours had no traffic.    *)
WindowExact == steps = 0 => MergedNow = SeenWithin(HoursPerDay)

(* aggregate.go:148-165. A clock that was set, forward or back, disturbs   *)
(* the window for a day from the ring's next use: then it is exact again.  *)
WindowHeals ==
  time - setAt >= HoursPerDay + MaxGap => MergedNow = SeenWithin(HoursPerDay)
=============================================================================
