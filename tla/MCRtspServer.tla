---------------------------- MODULE MCRtspServer ----------------------------
(* Instances of RtspServer for TLC: a phone with a remote and two senders  *)
(* of AirPlay 2, so that each kind of session takes over from each kind.   *)
EXTENDS RtspServer, TLC

CONSTANTS phone, mac, pad

ThreeClients == {phone, mac, pad}
Phones == {phone}
=============================================================================
