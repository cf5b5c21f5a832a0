----------------------------- MODULE FrameQueue -----------------------------
(***************************************************************************)
(* What audio_buffer.c promises its two sides: a bounded set of frames     *)
(* from which the player always gets an oldest one.  A frame is lost only  *)
(* by a flush or, when the buffer is full, as the oldest frame making room *)
(* for a new one; the frame the player is reading is nobody else's.        *)
(* AudioBuffer is shown to implement this specification.                   *)
(***************************************************************************)
EXTENDS RtpTime, FiniteSets

CONSTANTS Capacity, Slots

VARIABLES
  queue,    (* frames waiting: records [slot, ts]           *)
  playing   (* the frame the player holds, at most one      *)

vars == <<queue, playing>>

Frames == [slot : Slots, ts : AllTimestamps]

SlotsOf(F) == {f.slot : f \in F}

IsOldest(f, F) == f \in F /\ \A g \in F : TsCmp(f.ts, g.ts) <= 0

Init == queue = {} /\ playing = {}

(* A frame enters; at capacity an oldest one leaves in the same step. *)
Put(f) ==
  \E evicted \in SUBSET queue :
    /\ IF Cardinality(queue) < Capacity
       THEN evicted = {}
       ELSE \E o \in queue : IsOldest(o, queue) /\ evicted = {o}
    /\ f.slot \notin SlotsOf((queue \ evicted) \cup playing)
    /\ queue' = (queue \ evicted) \cup {f}
    /\ UNCHANGED playing

Take ==
  /\ playing = {}
  /\ \E f \in queue : IsOldest(f, queue) /\ queue' = queue \ {f} /\ playing' = {f}

Release == playing # {} /\ playing' = {} /\ UNCHANGED queue

Clear == queue' = {} /\ UNCHANGED playing

Next == (\E f \in Frames : Put(f)) \/ Take \/ Release \/ Clear

Spec == Init /\ [][Next]_vars
=============================================================================
