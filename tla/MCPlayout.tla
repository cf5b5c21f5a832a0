------------------------------ MODULE MCPlayout ------------------------------
(* Instances of Playout for TLC. *)
EXTENDS Playout

(* Two tracks, on the two sides of the wrap of a 6-bit timestamp. *)
TrackStarts == {62, 8}

(* Steps of the clock offset, both ways, larger than the threshold. *)
OffsetSteps == {-3, 3}
=============================================================================
