--------------------------- MODULE MCSketchWindow ---------------------------
(* Small instances of SketchWindow for TLC.                                *)
EXTENDS SketchWindow, TLC

CONSTANTS a, b

(* Four-bit hashes at precision 1: a and b share a register, b has more    *)
(* leading zeros and comes out higher.                                     *)
SharedRegister == a :> 6 @@ b :> 1

(* The clock is set back an hour or forward two.                           *)
AnyStep == {-1, 2}
=============================================================================
