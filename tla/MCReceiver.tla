----------------------------- MODULE MCReceiver -----------------------------
(* Instances of Receiver for TLC. *)
EXTENDS Receiver

(* Two tracks further apart than the gate window, on the two sides of the  *)
(* wrap of a 6-bit timestamp.                                              *)
TrackStarts == {62, 12}
=============================================================================
