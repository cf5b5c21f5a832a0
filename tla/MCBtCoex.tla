------------------------------ MODULE MCBtCoex ------------------------------
(* Instances of BtCoex for TLC: two AirPlay clients, a phone and a network *)
(* that may be lost.                                                       *)
EXTENDS BtCoex, TLC

CONSTANTS client1, client2

BothClients == {client1, client2}

(* The network is lost, or the radio fails, but not both; when the network *)
(* is lost one client attaches; and the fourth event comes with neither.   *)
Bounded ==
  /\ count.outage + count.failure <= 1
  /\ count.outage > 0 => count.event <= 1
  /\ count.event > 3 => count.failure + count.link = 0
=============================================================================
