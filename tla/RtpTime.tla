------------------------------ MODULE RtpTime ------------------------------
(***************************************************************************)
(* RTP timestamps of main/audio.  A timestamp is an unsigned counter that  *)
(* wraps at TsMod (2^32 in the code, a small power of two in the runs).    *)
(* Every comparison in the audio path is a signed difference, so it only   *)
(* orders timestamps that lie within half the range of each other.         *)
(***************************************************************************)
EXTENDS Integers

CONSTANT TsMod

ASSUME TsModAssumption == TsMod \in Nat /\ TsMod >= 2

AllTimestamps == 0 .. TsMod - 1

(* a + n in the width of a timestamp. *)
TsAdd(a, n) == (a + n) % TsMod

(* (int32_t)(a - b): negative when a is before b. *)
TsCmp(a, b) ==
  LET d == (a - b) % TsMod
  IN  IF d >= TsMod \div 2 THEN d - TsMod ELSE d

(* On the timestamps of S the signed difference is a total preorder.  This *)
(* is what "the frames of a stream lie within half the range" buys.        *)
Comparable(S) ==
  /\ S \subseteq AllTimestamps
  /\ \A a, b \in S : TsCmp(a, b) <= 0 \/ TsCmp(b, a) <= 0
  /\ \A a, b \in S : TsCmp(a, b) < 0 => TsCmp(b, a) > 0
  /\ \A a, b \in S : TsCmp(a, b) >= 0 => TsCmp(b, a) <= 0
  /\ \A a, b, c \in S : TsCmp(a, b) <= 0 /\ TsCmp(b, c) <= 0 => TsCmp(a, c) <= 0
=============================================================================
