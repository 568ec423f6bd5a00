----------------------------- MODULE FiniteSums -----------------------------
(***************************************************************************)
(* The sum of the natural numbers f[k] for k in a finite set S, as the     *)
(* size of a set that has f[k] elements for each k. A fold would give the  *)
(* same number; that of a set can be reasoned about without induction.     *)
(***************************************************************************)
EXTENDS Integers, FiniteSets

Units(f, S) == UNION {{k} \X (1 .. f[k]) : k \in S}

SumOver(f, S) == Cardinality(Units(f, S))
=============================================================================
