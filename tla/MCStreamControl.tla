--------------------------- MODULE MCStreamControl ---------------------------
(* Instances of StreamControl for TLC: two clients, one of which takes     *)
(* over from the other.                                                    *)
EXTENDS StreamControl, TLC

CONSTANTS client1, client2, d1

Clients == {client1, client2}
Heap == {d1}

(* Three requests if they come one after the other, else two. *)
Bounded == overlap => requests <= 2
=============================================================================
