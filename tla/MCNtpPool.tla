----------------------------- MODULE MCNtpPool -----------------------------
(* Monitors 1 and 3 have the same name, 2 has an empty one and 4 is not    *)
(* among the monitors of the answer.                                       *)
EXTENDS NtpPool

Num(n) == [kind |-> "num", v |-> n]
Str(n) == [kind |-> "str", v |-> n]
Unset == [kind |-> "unset", v |-> 0]

Entry(id, ts, score, offset, rtt) ==
  [id |-> id, ts |-> ts, score |-> score, offset |-> offset, rtt |-> rtt]

ThreeMonitors ==
  <<[id |-> 1, name |-> "fra"], [id |-> Missing, name |-> "lax"],
    [id |-> 3, name |-> "fra"], [id |-> 2, name |-> ""]>>

SomeEntries ==
  {Entry(1, Num(1), 10, 7, 30),
   Entry(1, Num(2), Missing, 8, Missing),
   Entry(1, Str(3), 12, 7, 30),
   Entry(3, Unset, 12, Missing, Missing),
   Entry(4, Num(1), 10, Missing, Missing),
   Entry(Missing, Num(3), 13, Missing, Missing)}

SomeAnswers ==
  {<<>>,
   <<Entry(Missing, Num(1), 10, Missing, Missing),
     Entry(Missing, Str(2), 11, Missing, Missing)>>}
=============================================================================
