--------------------------- MODULE MCAudioBuffer ---------------------------
(* Instances of AudioBuffer for TLC. *)
EXTENDS AudioBuffer

CONSTANTS p1, c1, f1

(* Three chunks that straddle the wrap of a 3-bit timestamp. *)
WrapStamps == {7, 0, 1}
=============================================================================
