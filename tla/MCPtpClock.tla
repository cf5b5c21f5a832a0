----------------------------- MODULE MCPtpClock -----------------------------
(* Instances of PtpClock for TLC: two masters whose clocks are far apart,  *)
(* and messages on time, a little late, and later than the threshold.      *)
EXTENDS PtpClock, TLC

CONSTANTS homepod, phone

TwoMasters == {homepod, phone}
Apart == (homepod :> 10 @@ phone :> 22)
OneMaster == {homepod}
AtTen == (homepod :> 10)
Still == (homepod :> 0)
SomeDelays == {0, 3, 6}
OnTime == {0, 3}
OneNumber == {0}
Numbers == {0, 1}
Back == (homepod :> -7 @@ phone :> 0)

(* Two requests, or one and a step of a clock.  After a reset that met the *)
(* task nothing is claimed, and the run does not follow it.                *)
Bounded == ~crossed /\ jumps + request.done <= 2
=============================================================================
