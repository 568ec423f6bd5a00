-------------------------------- MODULE Hll --------------------------------
(***************************************************************************)
(* The registers of a HyperLogLog sketch (hll.go) as operators on values.  *)
(* A key is known by its hash, the first HashBits bits of its SHA-1. The   *)
(* estimate Count computes from the registers in floating point is left    *)
(* out; it is a function of the registers alone.                           *)
(*                                                                         *)
(* An operator that nothing uses is a faulty variant of the definition     *)
(* after it: the mutation of the code that a property has to notice.       *)
(***************************************************************************)
EXTENDS Integers, FiniteSets

CONSTANTS
  HashBits,   (* width of the hash: 64 in the code                          *)
  P,          (* precision: 14 in the code                                  *)
  Hash        (* a function: the hash of each key                           *)

ASSUME HllAssumption ==
  /\ HashBits \in Nat /\ P \in 1 .. HashBits - 1
  /\ \A k \in DOMAIN Hash : Hash[k] \in 0 .. 2 ^ HashBits - 1

Bits == HashBits - P
Index == 0 .. 2 ^ P - 1

NewSketch == [i \in Index |-> 0]

(* bits.Len64: the number of powers of two that w reaches.                 *)
Len64(w) == Cardinality({n \in 0 .. HashBits - 1 : w >= 2 ^ n})

(* v >> bits and v & (1 << bits - 1)                                       *)
IndexOf(k) == Hash[k] \div 2 ^ Bits
LowBits(k) == Hash[k] % 2 ^ Bits

(* One more than the leading zeros of the low bits.                        *)
Rho(k) ==
  IF LowBits(k) = 0 THEN Bits + 1 ELSE Bits - Len64(LowBits(k)) + 1

AddKeyLast(r, k) == [r EXCEPT ![IndexOf(k)] = Rho(k)]

(* HyperLogLog.Add                                                         *)
AddKey(r, k) ==
  [r EXCEPT ![IndexOf(k)] = IF Rho(k) > @ THEN Rho(k) ELSE @]

(* HyperLogLog.Merge                                                       *)
MergeSketch(r, s) == [i \in Index |-> IF s[i] > r[i] THEN s[i] ELSE r[i]]
-----------------------------------------------------------------------------
(* What a sketch of the keys in S is: no key of S exceeds its register,    *)
(* and a register that is set was set by a key of S.                       *)
Represents(r, S) ==
  /\ \A k \in S : IndexOf(k) \in Index => Rho(k) <= r[IndexOf(k)]
  /\ \A i \in Index :
       r[i] = 0 \/ \E k \in S : IndexOf(k) = i /\ Rho(k) = r[i]
=============================================================================
