--------------------------- MODULE MCResendWindow ---------------------------
(* ResendWindow on six packets whose numbers wrap, and a window of three.  *)
EXTENDS ResendWindow

CONSTANT MaxSentAfterOverlap

(* Once a reset has met the receive task the properties promise nothing    *)
(* until the next reset: such a run is followed to that many packets only. *)
Bounded == overlapped => sent <= MaxSentAfterOverlap
=============================================================================
