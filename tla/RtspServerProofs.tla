-------------------------- MODULE RtspServerProofs --------------------------
(***************************************************************************)
(* Theorems about RtspServer, for any set of clients, whichever protocol   *)
(* each speaks.                                                            *)
(***************************************************************************)
EXTENDS RtspServer, TLAPS

-----------------------------------------------------------------------------
(* The inductive invariant *)

(* The places of a task with a connection before it has stopped the        *)
(* receiver, the NTP client, cleared the DACP session and said goodbye.    *)
Serving == {"serve", "stopPtp", "open", "stopAudio"} \cup Ops
BeforeNtp == Serving \cup {"stopNtp"}
BeforeForget == BeforeNtp \cup {"create", "stopped", "paused", "grace", "forget"}
BeforeGoodbye == BeforeForget \cup {"goodbye"}

(* How far the server is decides which slots may be in use: the new one is *)
(* free until its task is created, and the client before is told to stop.  *)
TakeoverInv ==
  /\ server.pc \in {"accept", "wait"} =>
       \A s \in Slots : Busy(s) /\ ~slots[s].stop => s = current
  /\ server.pc \in {"signal", "start"} => ~Busy(NewSlot)
  /\ server.pc = "start" /\ Busy(current) => slots[current].stop
  /\ \A s \in Slots : Busy(s) /\ slots[s].old /\ ~slots[s].stop => server.pc = "signal"

(* What runs for a client is stopped by its task later.                    *)
OwnersInv ==
  /\ shared.audio # None =>
       \E s \in Slots : Me(s) = shared.audio /\ slots[s].pc \in Serving
  /\ shared.ntp # None =>
       \E s \in Slots : Me(s) = shared.ntp /\ slots[s].pc \in BeforeNtp

(* A task that passes through the places P on its way; a replaced one that *)
(* has a grace period will not.                                            *)
Pausing(s) == slots[s].pc \in {"paused", "grace"}
WillPass(s, P) == slots[s].pc \in P /\ ~(Pausing(s) /\ slots[s].old)

(* Some task is still to clear the DACP session and to say goodbye, the    *)
(* one about to be created included, unless a task could not be created.   *)
Pending(P) ==
  failed \/ server.pc \in {"signal", "start"} \/ \E s \in Slots : WillPass(s, P)

GoodbyeInv ==
  /\ shared.dacp # None => Pending(BeforeForget)
  /\ shown = "disconnected" \/ (late /\ shown = "paused") \/ Pending(BeforeGoodbye)

IInv == TypeOK /\ TakeoverInv /\ OwnersInv /\ GoodbyeInv

-----------------------------------------------------------------------------
(* What the steps of a client task do to its slot *)

(* The steps that leave a task where everything is still to be stopped.    *)
Serve(s) == Create(s) \/ Dispatch(s) \/ Handle(s) \/ LeaveOnStop(s) \/ Leave(s)

Slot == [client : Owner, pc : Places, stop : BOOLEAN, old : BOOLEAN,
         v1 : BOOLEAN, event : BOOLEAN]

(* The task moves to l; its client and the two signals stay.               *)
Moves(s, l) ==
  /\ slots' \in [Slots -> Slot]
  /\ \A t \in Slots \ {s} : slots'[t] = slots[t]
  /\ slots'[s].client = slots[s].client
  /\ slots'[s].pc = l
  /\ slots'[s].stop = slots[s].stop
  /\ slots'[s].old = slots[s].old

LEMMA GotoMoves ==
  ASSUME slots \in [Slots -> Slot], NEW s \in Slots, NEW l \in Places, Goto(s, l)
  PROVE  Moves(s, l)
<1>1. slots[s] \in Slot
  OBVIOUS
<1>2. [slots[s] EXCEPT !.pc = l] \in Slot
  BY <1>1 DEF Slot
<1>3. slots' = [slots EXCEPT ![s] = [slots[s] EXCEPT !.pc = l]]
  BY DEF Goto
<1>. QED BY <1>1, <1>2, <1>3 DEF Moves, Slot

LEMMA GotoV1Moves ==
  ASSUME slots \in [Slots -> Slot], NEW s \in Slots, NEW l \in Places,
         slots' = [slots EXCEPT ![s].pc = l, ![s].v1 = TRUE]
  PROVE  Moves(s, l)
<1>1. slots[s] \in Slot
  OBVIOUS
<1>2. [slots[s] EXCEPT !.pc = l, !.v1 = TRUE] \in Slot
  BY <1>1 DEF Slot
<1>3. slots' = [slots EXCEPT ![s] = [slots[s] EXCEPT !.pc = l, !.v1 = TRUE]]
  BY <1>1 DEF Slot
<1>. QED BY <1>1, <1>2, <1>3 DEF Moves, Slot

LEMMA GotoEventMoves ==
  ASSUME slots \in [Slots -> Slot], NEW s \in Slots, NEW l \in Places, NEW e \in BOOLEAN,
         slots' = [slots EXCEPT ![s].pc = l, ![s].event = e]
  PROVE  Moves(s, l)
<1>1. slots[s] \in Slot
  OBVIOUS
<1>2. [slots[s] EXCEPT !.pc = l, !.event = e] \in Slot
  BY <1>1 DEF Slot
<1>3. slots' = [slots EXCEPT ![s] = [slots[s] EXCEPT !.pc = l, !.event = e]]
  BY <1>1 DEF Slot
<1>. QED BY <1>1, <1>2, <1>3 DEF Moves, Slot

(* Only the two signals to the task of t change.                           *)
SignalsOnly(t) ==
  /\ slots' \in [Slots -> Slot]
  /\ \A s \in Slots : slots'[s].client = slots[s].client /\ slots'[s].pc = slots[s].pc
  /\ \A s \in Slots \ {t} : slots'[s] = slots[s]

LEMMA StopSignals ==
  ASSUME slots \in [Slots -> Slot], NEW t \in Slots, NEW b \in BOOLEAN,
         slots' = [slots EXCEPT ![t].stop = b]
  PROVE  SignalsOnly(t) /\ slots'[t].stop = b /\ slots'[t].old = slots[t].old
<1>1. slots[t] \in Slot /\ [slots[t] EXCEPT !.stop = b] \in Slot
  BY DEF Slot
<1>2. slots' = [slots EXCEPT ![t] = [slots[t] EXCEPT !.stop = b]]
  OBVIOUS
<1>. QED BY <1>1, <1>2 DEF SignalsOnly, Slot

LEMMA OldSignals ==
  ASSUME slots \in [Slots -> Slot], NEW t \in Slots, NEW b \in BOOLEAN,
         slots' = [slots EXCEPT ![t].old = b]
  PROVE  SignalsOnly(t) /\ slots'[t].stop = slots[t].stop
<1>1. slots[t] \in Slot /\ [slots[t] EXCEPT !.old = b] \in Slot
  BY DEF Slot
<1>2. slots' = [slots EXCEPT ![t] = [slots[t] EXCEPT !.old = b]]
  OBVIOUS
<1>. QED BY <1>1, <1>2 DEF SignalsOnly, Slot

(* A step that serves keeps the task among the serving ones; what it       *)
(* starts it starts for its own client.                                    *)
ServeEffect(s) ==
  /\ UNCHANGED <<waiting, server, current, failed, late>>
  /\ slots[s].pc \in Serving \cup {"create"}
  /\ \E l \in Serving : Moves(s, l)
  /\ shared' \in [audio : Owner, ntp : Owner, dacp : Owner]
  /\ shared'.audio \in {shared.audio, Me(s), None}
  /\ shared'.ntp \in {shared.ntp, Me(s), None}
  /\ ptp' \in BOOLEAN
  /\ event' \in [task : Owner, listen : Owner, stop : BOOLEAN]
  /\ shown' \in {"playing", "paused", "disconnected"}

LEMMA ServeShape ==
  ASSUME TypeOK, NEW s \in Slots, Serve(s)
  PROVE  ServeEffect(s)
<1>1. slots \in [Slots -> Slot] /\ Me(s) \in Owner /\ None \in Owner
  BY DEF TypeOK, Slot, Me, Owner
<1>2. Serving \subseteq Places /\ Ops \subseteq Serving
  BY DEF Serving, Places
<1>3. {"serve", "stopPtp", "open", "stopAudio", "announce", "setup1", "setup2",
       "start", "playing", "pause", "teardown"} \subseteq Serving
  BY DEF Serving, Ops
<1>4. /\ shared \in [audio : Owner, ntp : Owner, dacp : Owner]
      /\ ptp \in BOOLEAN
      /\ event \in [task : Owner, listen : Owner, stop : BOOLEAN]
      /\ shown \in {"playing", "paused", "disconnected"}
  BY DEF TypeOK
<1>. USE <1>1, <1>2, <1>3, <1>4 DEF ServeEffect, At, Server, Services
<1>5. CASE Create(s)
  BY <1>5, GotoMoves DEF Create
<1>6. CASE LeaveOnStop(s)
  BY <1>6, GotoMoves DEF LeaveOnStop
<1>7. CASE Leave(s)
  BY <1>7, GotoMoves DEF Leave
<1>8. CASE Dispatch(s)
  BY <1>8, GotoMoves DEF Dispatch
<1>9. CASE Announce(s)
  BY <1>9, GotoV1Moves DEF Announce
<1>10. CASE StopPtp(s)
  BY <1>10, GotoMoves DEF StopPtp
<1>11. CASE SetupV1(s)
  <2>1. \E l \in {"stopPtp", "serve"} :
          slots' = [slots EXCEPT ![s].pc = l, ![s].v1 = TRUE]
    BY <1>11 DEF SetupV1
  <2>2. \E l \in Serving : Moves(s, l)
    BY <2>1, GotoV1Moves
  <2>3. \E c \in {Me(s), None} : shared' = [shared EXCEPT !.ntp = c]
    BY <1>11 DEF SetupV1
  <2>. QED BY <1>11, <2>2, <2>3 DEF SetupV1
<1>12. CASE SetupV2(s)
  <2>1. \E l \in {"start", "open"} : Goto(s, l)
    BY <1>12 DEF SetupV2
  <2>2. \E l \in Serving : Moves(s, l)
    BY <2>1, GotoMoves
  <2>. QED BY <1>12, <2>2 DEF SetupV2
<1>13. CASE OpenEvent(s)
  <2>1. \E l \in {"serve", "start"} :
          slots' = [slots EXCEPT ![s].pc = l, ![s].event = TRUE]
    BY <1>13 DEF OpenEvent
  <2>2. \E l \in Serving : Moves(s, l)
    BY <2>1, GotoEventMoves
  <2>. QED BY <1>13, <2>2 DEF OpenEvent, NoEvent
<1>14. CASE OpenEventFails(s)
  BY <1>14, GotoMoves DEF OpenEventFails
<1>15. CASE StartAudio(s)
  <2>1. \E l \in {"playing", "serve"} : Goto(s, l)
    BY <1>15 DEF StartAudio
  <2>2. \E l \in Serving : Moves(s, l)
    BY <2>1, GotoMoves
  <2>. QED BY <1>15, <2>2 DEF StartAudio
<1>16. CASE EmitPlaying(s)
  BY <1>16, GotoMoves DEF EmitPlaying
<1>17. CASE Pause(s)
  BY <1>17, GotoMoves DEF Pause
<1>18. CASE Teardown(s)
  <2>1. \E l \in Serving : Moves(s, l)
    BY <1>18, GotoMoves DEF Teardown
  <2>. QED BY <1>18, <2>1 DEF Teardown
<1>. QED
  BY <1>5, <1>6, <1>7, <1>8, <1>9, <1>10, <1>11, <1>12, <1>13, <1>14, <1>15, <1>16,
     <1>17, <1>18 DEF Serve, Handle

-----------------------------------------------------------------------------
(* The invariant is inductive *)

LEMMA InitIInv == Init => IInv
<1>. SUFFICES ASSUME Init PROVE IInv
  OBVIOUS
<1>1. TypeOK
  BY DEF Init, TypeOK, Slots, Owner, FreeSlot, SlotOf, NoEvent, Places, At
<1>2. TakeoverInv
  BY DEF Init, TakeoverInv, Slots, FreeSlot, SlotOf, Busy
<1>3. OwnersInv /\ GoodbyeInv
  BY DEF Init, OwnersInv, GoodbyeInv
<1>. QED BY <1>1, <1>2, <1>3 DEF IInv

(* Moving inside its slot, or freeing it, a task takes nothing over.       *)
LEMMA MoveKeepsTakeover ==
  ASSUME TakeoverInv, current \in Slots, UNCHANGED <<server, current>>,
         NEW s \in Slots, Busy(s), NEW l, Moves(s, l)
  PROVE  TakeoverInv'
<1>1. \A t \in Slots : /\ slots'[t].stop = slots[t].stop
                       /\ slots'[t].old = slots[t].old
                       /\ slots'[t].pc # "none" => Busy(t)
  BY DEF Moves, Busy
<1>2. NewSlot \in Slots /\ NewSlot' = NewSlot
  BY DEF NewSlot, Slots
<1>3. \A t \in Slots : Busy(t)' => Busy(t)
  BY <1>1 DEF Busy
<1>4. server.pc \in {"signal", "start"} => ~Busy(NewSlot)'
  BY <1>2, <1>3 DEF TakeoverInv
<1>5. server.pc = "start" /\ Busy(current)' => slots'[current].stop
  BY <1>1, <1>3 DEF TakeoverInv
<1>. QED BY <1>1, <1>2, <1>3, <1>4, <1>5 DEF TakeoverInv, Busy

LEMMA FreeKeepsTakeover ==
  ASSUME TakeoverInv, slots \in [Slots -> Slot], current \in Slots,
         UNCHANGED <<server, current>>,
         NEW s \in Slots, slots' = [slots EXCEPT ![s] = FreeSlot]
  PROVE  TakeoverInv'
<1>1. slots'[s].pc = "none" /\ \A t \in Slots \ {s} : slots'[t] = slots[t]
  BY DEF FreeSlot, SlotOf
<1>. QED BY <1>1 DEF TakeoverInv, Busy, NewSlot, Slots

(* While a task serves, it is itself the one that will clean up.           *)
LEMMA ServeKeepsIInv ==
  ASSUME IInv, NEW s \in Slots, Serve(s)
  PROVE  IInv'
<1>. TypeOK /\ ServeEffect(s)
  BY ServeShape DEF IInv
<1>1. PICK l \in Serving : Moves(s, l)
  BY DEF ServeEffect
<1>2. Busy(s)
  BY DEF ServeEffect, Busy, Serving, Ops
<1>3. /\ l \notin {"paused", "grace"} /\ l \in BeforeNtp /\ l \in BeforeForget /\ l \in BeforeGoodbye
      /\ slots'[s].pc = l
  BY <1>1 DEF Serving, Ops, BeforeNtp, BeforeForget, BeforeGoodbye, Moves
<1>4. TypeOK'
  BY <1>1, <1>3 DEF TypeOK, ServeEffect, Moves, Slot, At, Me
<1>5. TakeoverInv'
  BY <1>1, <1>2, MoveKeepsTakeover DEF IInv, TypeOK, ServeEffect
<1>6. OwnersInv'
  <2>1. \A t \in Slots : /\ Me(t)' = Me(t)
                         /\ slots[t].pc \in Serving => slots'[t].pc \in Serving
                         /\ slots[t].pc \in BeforeNtp => slots'[t].pc \in BeforeNtp
    BY <1>1, <1>3 DEF Moves, Me
  <2>2. slots'[s].client = Me(s) /\ slots'[s].pc \in Serving /\ slots'[s].pc \in BeforeNtp
    BY <1>1, <1>3 DEF Moves, Me
  <2>3. shared'.audio # None =>
          \E t \in Slots : slots'[t].client = shared'.audio /\ slots'[t].pc \in Serving
    <3>1. CASE shared'.audio = shared.audio
      BY <2>1, <3>1 DEF IInv, OwnersInv, Me
    <3>2. CASE shared'.audio = Me(s)
      BY <2>2, <3>2
    <3>. QED BY <3>1, <3>2 DEF ServeEffect
  <2>4. shared'.ntp # None =>
          \E t \in Slots : slots'[t].client = shared'.ntp /\ slots'[t].pc \in BeforeNtp
    <3>1. CASE shared'.ntp = shared.ntp
      BY <2>1, <3>1 DEF IInv, OwnersInv, Me
    <3>2. CASE shared'.ntp = Me(s)
      BY <2>2, <3>2
    <3>. QED BY <3>1, <3>2 DEF ServeEffect
  <2>. QED BY <2>3, <2>4 DEF OwnersInv, Me
<1>7. WillPass(s, BeforeForget)' /\ WillPass(s, BeforeGoodbye)'
  BY <1>3 DEF WillPass, Pausing, At
<1>. QED BY <1>4, <1>5, <1>6, <1>7 DEF IInv, GoodbyeInv, Pending

(* Cleaning up, a task passes its places in order: a witness of the        *)
(* invariant that is not this task stays one.                              *)
Others(s, P) == \E t \in Slots \ {s} : WillPass(t, P)
PendingElsewhere(s, P) == failed \/ server.pc \in {"signal", "start"} \/ Others(s, P)

LEMMA OthersStay ==
  ASSUME NEW s \in Slots, \A t \in Slots \ {s} : slots'[t] = slots[t],
         UNCHANGED server, failed => failed', NEW P, PendingElsewhere(s, P)
  PROVE  Pending(P)'
  BY DEF PendingElsewhere, Others, WillPass, Pausing, Pending, At

LEMMA OwnersStay ==
  ASSUME OwnersInv, NEW s \in Slots, \A t \in Slots \ {s} : slots'[t] = slots[t],
         shared'.audio # None => shared'.audio = shared.audio /\ slots[s].pc \notin Serving,
         shared'.ntp # None => shared'.ntp = shared.ntp /\ slots[s].pc \notin BeforeNtp
  PROVE  OwnersInv'
  BY DEF OwnersInv, Me

LEMMA MoveKeepsType ==
  ASSUME TypeOK, NEW s \in Slots, NEW l \in Places, Moves(s, l),
         l \in {"paused", "grace"} => Me(s) \in Remote,
         UNCHANGED <<waiting, server, current, failed>>, late' \in BOOLEAN,
         shared' \in [audio : Owner, ntp : Owner, dacp : Owner],
         ptp' \in BOOLEAN,
         event' \in [task : Owner, listen : Owner, stop : BOOLEAN],
         shown' \in {"playing", "paused", "disconnected"}
  PROVE  TypeOK'
  BY DEF TypeOK, Moves, Slot, At, Me

(* The clean-up, step by step. *)
LEMMA CleanUpKeepsIInv ==
  ASSUME IInv, NEW s \in Slots, CleanUp(s) \/ GraceExpired(s) \/ CreateFails(s)
  PROVE  IInv'
<1>. USE DEF IInv
<1>1. /\ slots \in [Slots -> Slot] /\ current \in Slots
      /\ shared \in [audio : Owner, ntp : Owner, dacp : Owner] /\ None \in Owner
  BY DEF TypeOK, Slot, Owner
<1>2. \A l \in {"stopNtp", "stopped", "paused", "grace", "forget", "goodbye", "clocks",
                "stopEvent", "close", "free"} : l \in Places
  BY DEF Places
<1>3. /\ \A l \in {"create", "stopNtp", "stopped", "paused", "grace", "forget", "goodbye",
                    "clocks", "stopEvent", "close", "free"} : l \notin Serving
      /\ \A l \in {"create", "stopped", "paused", "grace", "forget", "goodbye", "clocks",
                    "stopEvent", "close", "free"} : l \notin BeforeNtp
      /\ \A l \in {"goodbye", "clocks", "stopEvent", "close", "free"} : l \notin BeforeForget
      /\ \A l \in {"clocks", "stopEvent", "close", "free"} : l \notin BeforeGoodbye
      /\ \A l \in {"stopNtp", "stopped", "paused", "grace", "forget"} : l \in BeforeForget /\ l \in BeforeGoodbye
      /\ "goodbye" \in BeforeGoodbye /\ "stopNtp" \in BeforeNtp
  BY DEF Serving, Ops, BeforeNtp, BeforeForget, BeforeGoodbye
(* What is pending is pending elsewhere, unless this task is to do it.     *)
<1>4. \A P : Pending(P) => PendingElsewhere(s, P) \/ WillPass(s, P)
  BY DEF Pending, PendingElsewhere, Others
<1>5. /\ ptp \in BOOLEAN /\ late \in BOOLEAN
      /\ event \in [task : Owner, listen : Owner, stop : BOOLEAN]
      /\ shown \in {"playing", "paused", "disconnected"}
  BY DEF TypeOK
<1>6. CASE StopAudio(s)
  <2>1. /\ slots[s].pc = "stopAudio" /\ Moves(s, "stopNtp")
        /\ shared' = [shared EXCEPT !.audio = None]
        /\ UNCHANGED <<Server, ptp, event, shown>>
    BY <1>1, <1>2, <1>6, GotoMoves DEF StopAudio, At
  <2>2. TypeOK'
    BY <1>1, <1>2, <1>5, <2>1, MoveKeepsType DEF Server
  <2>3. TakeoverInv'
    BY <1>1, <2>1, MoveKeepsTakeover DEF Server, Busy
  <2>4. OwnersInv'
    <3>1. /\ shared'.audio = None /\ shared'.ntp = shared.ntp
          /\ \A t \in Slots : slots'[t].client = slots[t].client
          /\ \A t \in Slots : slots[t].pc \in BeforeNtp => slots'[t].pc \in BeforeNtp
      BY <1>1, <1>3, <2>1 DEF Moves, Me
    <3>. QED BY <3>1 DEF OwnersInv, Me
  <2>5. WillPass(s, BeforeForget)' /\ WillPass(s, BeforeGoodbye)'
    BY <1>3, <2>1 DEF WillPass, Pausing, Moves
  <2>. QED BY <2>2, <2>3, <2>4, <2>5 DEF GoodbyeInv, Pending
<1>7. CASE StopNtp(s)
  <2>1. /\ slots[s].pc = "stopNtp" /\ Moves(s, "stopped")
        /\ shared' = [shared EXCEPT !.ntp = None]
        /\ UNCHANGED <<Server, ptp, event, shown>>
    BY <1>1, <1>2, <1>7, GotoMoves DEF StopNtp, At
  <2>2. TypeOK'
    BY <1>1, <1>2, <1>5, <2>1, MoveKeepsType DEF Server
  <2>3. TakeoverInv'
    BY <1>1, <2>1, MoveKeepsTakeover DEF Server, Busy
  <2>4. OwnersInv'
    <3>1. shared'.ntp = None /\ shared'.audio = shared.audio
      BY <1>1, <2>1
    <3>. QED BY <1>3, <2>1, <3>1, OwnersStay DEF Moves
  <2>5. WillPass(s, BeforeForget)' /\ WillPass(s, BeforeGoodbye)'
    BY <1>3, <2>1 DEF WillPass, Pausing, Moves
  <2>. QED BY <2>2, <2>3, <2>4, <2>5 DEF GoodbyeInv, Pending
(* A replaced client that was not told to stop yet is about to be: then    *)
(* the task of the new one is still to be created.                         *)
<1>8. CASE GiveGrace(s)
  <2>1. PICK l \in {"paused", "forget"} :
          /\ slots[s].pc = "stopped" /\ Moves(s, l)
          /\ l = "paused" => HasRemote(s) /\ ~slots[s].stop
          /\ UNCHANGED <<Server, Services>>
    BY <1>1, <1>2, <1>8, GotoMoves DEF GiveGrace, At
  <2>2. TypeOK'
    BY <1>1, <1>2, <1>5, <2>1, MoveKeepsType DEF Server, Services, HasRemote
  <2>3. TakeoverInv'
    BY <1>1, <2>1, MoveKeepsTakeover DEF Server, Busy
  <2>4. OwnersInv'
    BY <1>3, <2>1, OwnersStay DEF Moves, Services
  <2>5. \A P \in {BeforeForget, BeforeGoodbye} : Pending(P)'
    <3>1. CASE l = "paused" /\ slots[s].old
      BY <2>1, <3>1 DEF TakeoverInv, Busy, Pending, Server
    <3>2. CASE ~(l = "paused" /\ slots[s].old)
      <4>. WillPass(s, BeforeForget)' /\ WillPass(s, BeforeGoodbye)'
        BY <1>3, <2>1, <3>2 DEF WillPass, Pausing, Moves
      <4>. QED BY DEF Pending
    <3>. QED BY <3>1, <3>2
  <2>. QED BY <2>2, <2>3, <2>4, <2>5 DEF GoodbyeInv
(* A client shown as paused says goodbye later, unless it is replaced:     *)
(* then its successor will, or it was told to stop and the pause is late.  *)
<1>9. CASE EmitPaused(s)
  <2>1. /\ slots[s].pc = "paused" /\ Moves(s, "grace")
        /\ shown' = "paused" /\ late' = slots[s].stop
        /\ UNCHANGED <<waiting, server, current, failed, shared, ptp, event>>
    BY <1>1, <1>2, <1>9, GotoMoves DEF EmitPaused, At
  <2>2. TypeOK'
    <3>1. Me(s) \in Remote /\ late' \in BOOLEAN
      BY <1>1, <2>1 DEF TypeOK, At, Slot
    <3>. QED BY <1>1, <1>2, <1>5, <2>1, <3>1, MoveKeepsType
  <2>3. TakeoverInv'
    BY <1>1, <2>1, MoveKeepsTakeover DEF Busy
  <2>4. OwnersInv'
    BY <1>3, <2>1, OwnersStay DEF Moves
  <2>5. ~slots[s].old => WillPass(s, BeforeForget)' /\ WillPass(s, BeforeGoodbye)'
    BY <1>3, <2>1 DEF WillPass, Pausing, Moves
  <2>6. Pending(BeforeForget) => Pending(BeforeForget)'
    <3>1. CASE slots[s].old
      <4>1. ~WillPass(s, BeforeForget)
        BY <2>1, <3>1 DEF WillPass, Pausing
      <4>. QED BY <1>4, <2>1, <4>1, OthersStay DEF Moves
    <3>. QED BY <2>5, <3>1 DEF Pending
  <2>7. slots[s].stop \/ Pending(BeforeGoodbye)'
    <3>1. CASE slots[s].old /\ ~slots[s].stop
      BY <2>1, <3>1 DEF TakeoverInv, Busy, Pending
    <3>. QED BY <2>5, <3>1 DEF Pending
  <2>. QED BY <2>1, <2>2, <2>3, <2>4, <2>6, <2>7 DEF GoodbyeInv
<1>10. CASE GraceStopped(s) \/ GraceExpired(s)
  <2>1. PICK l \in {"clocks", "forget"} :
          /\ slots[s].pc = "grace" /\ Moves(s, l)
          /\ l = "clocks" => slots[s].old
          /\ UNCHANGED <<Server, Services>>
    BY <1>1, <1>2, <1>10, GotoMoves DEF GraceStopped, GraceExpired, AfterGrace, At
  <2>2. TypeOK'
    BY <1>1, <1>2, <1>5, <2>1, MoveKeepsType DEF Server, Services
  <2>3. TakeoverInv'
    BY <1>1, <2>1, MoveKeepsTakeover DEF Server, Busy
  <2>4. OwnersInv'
    BY <1>3, <2>1, OwnersStay DEF Moves, Services
  <2>5. \A P \in {BeforeForget, BeforeGoodbye} : Pending(P) => Pending(P)'
    <3>1. CASE l = "clocks"
      <4>1. ~WillPass(s, BeforeForget) /\ ~WillPass(s, BeforeGoodbye)
        BY <2>1, <3>1 DEF WillPass, Pausing, At
      <4>. QED BY <1>4, <2>1, <4>1, OthersStay DEF Moves, Server
    <3>2. CASE l = "forget"
      <4>. WillPass(s, BeforeForget)' /\ WillPass(s, BeforeGoodbye)'
        BY <1>3, <2>1, <3>2 DEF WillPass, Pausing, Moves
      <4>. QED BY DEF Pending
    <3>. QED BY <3>1, <3>2
  <2>. QED BY <2>1, <2>2, <2>3, <2>4, <2>5 DEF GoodbyeInv, Server, Services
<1>11. CASE Forget(s)
  <2>1. /\ slots[s].pc = "forget" /\ Moves(s, "goodbye")
        /\ shared' = [shared EXCEPT !.dacp = None]
        /\ UNCHANGED <<Server, ptp, event, shown>>
    BY <1>1, <1>2, <1>11, GotoMoves DEF Forget, At
  <2>2. TypeOK'
    BY <1>1, <1>2, <1>5, <2>1, MoveKeepsType DEF Server
  <2>3. TakeoverInv'
    BY <1>1, <2>1, MoveKeepsTakeover DEF Server, Busy
  <2>4. OwnersInv' /\ shared'.dacp = None
    <3>1. /\ shared'.ntp = shared.ntp /\ shared'.audio = shared.audio
          /\ shared'.dacp = None
      BY <1>1, <2>1
    <3>. QED BY <1>3, <2>1, <3>1, OwnersStay DEF Moves
  <2>5. WillPass(s, BeforeGoodbye)'
    BY <1>3, <2>1 DEF WillPass, Pausing, Moves
  <2>. QED BY <2>2, <2>3, <2>4, <2>5 DEF GoodbyeInv, Pending
<1>12. CASE Goodbye(s)
  <2>1. /\ slots[s].pc = "goodbye" /\ Moves(s, "clocks")
        /\ shown' = "disconnected" /\ late' = FALSE
        /\ UNCHANGED <<waiting, server, current, failed, shared, ptp, event>>
    BY <1>1, <1>2, <1>12, GotoMoves DEF Goodbye, At
  <2>2. TypeOK'
    BY <1>1, <1>2, <1>5, <2>1, MoveKeepsType
  <2>3. TakeoverInv'
    BY <1>1, <2>1, MoveKeepsTakeover DEF Busy
  <2>4. OwnersInv'
    BY <1>3, <2>1, OwnersStay DEF Moves
  <2>5. ~WillPass(s, BeforeForget)
    BY <1>3, <2>1 DEF WillPass
  <2>6. Pending(BeforeForget) => Pending(BeforeForget)'
    BY <1>4, <2>1, <2>5, OthersStay DEF Moves
  <2>. QED BY <2>1, <2>2, <2>3, <2>4, <2>6 DEF GoodbyeInv
<1>13. CASE RestartClocks(s) \/ StopEvent(s) \/ Close(s)
  <2>1. PICK l \in {"stopEvent", "close", "free"} :
          /\ slots[s].pc \in {"clocks", "stopEvent", "close"} /\ Moves(s, l)
          /\ UNCHANGED <<Server, shared, shown>>
          /\ ptp' \in BOOLEAN
          /\ event' \in [task : Owner, listen : Owner, stop : BOOLEAN]
    <3>1. CASE RestartClocks(s)
      BY <1>1, <1>2, <1>5, <3>1, GotoMoves DEF RestartClocks, At
    <3>2. CASE StopEvent(s)
      BY <1>1, <1>2, <1>5, <3>2, GotoMoves DEF StopEvent, At
    <3>3. CASE Close(s)
      BY <1>1, <1>2, <1>5, <3>3, GotoEventMoves DEF Close, At, Services
    <3>. QED BY <1>13, <3>1, <3>2, <3>3
  <2>2. TypeOK'
    BY <1>1, <1>2, <1>5, <2>1, MoveKeepsType DEF Server
  <2>3. TakeoverInv'
    BY <1>1, <2>1, MoveKeepsTakeover DEF Server, Busy
  <2>4. OwnersInv'
    BY <1>3, <2>1, OwnersStay DEF Moves
  <2>5. ~WillPass(s, BeforeForget) /\ ~WillPass(s, BeforeGoodbye)
    BY <1>3, <2>1 DEF WillPass
  <2>6. \A P \in {BeforeForget, BeforeGoodbye} : Pending(P) => Pending(P)'
    BY <1>4, <2>1, <2>5, OthersStay DEF Moves, Server
  <2>. QED BY <2>1, <2>2, <2>3, <2>4, <2>6 DEF GoodbyeInv, Server
<1>14. CASE End(s) \/ CreateFails(s)
  <2>1. /\ slots[s].pc \in {"create", "free"}
        /\ slots' = [slots EXCEPT ![s] = FreeSlot]
        /\ UNCHANGED <<waiting, server, current, late, Services>>
        /\ failed' \in BOOLEAN /\ (failed => failed')
        /\ slots[s].pc = "create" => failed'
    BY <1>14 DEF End, CreateFails, At, Server, TypeOK
  <2>2. \A t \in Slots \ {s} : slots'[t] = slots[t]
    BY <1>1, <2>1
  <2>3. FreeSlot \in Slot /\ FreeSlot.pc = "none"
    BY DEF FreeSlot, SlotOf, Slot, Owner, Places
  <2>4. TypeOK'
    BY <1>1, <2>1, <2>2, <2>3 DEF TypeOK, Slot, At, Me, Services
  <2>5. TakeoverInv'
    BY <1>1, <2>1, FreeKeepsTakeover
  <2>6. OwnersInv'
    BY <1>3, <2>1, <2>2, OwnersStay DEF Services
  <2>7. \A P \in {BeforeForget, BeforeGoodbye} : Pending(P) => Pending(P)'
    <3>1. CASE failed'
      BY <3>1 DEF Pending
    <3>2. CASE ~failed'
      <4>1. ~WillPass(s, BeforeForget) /\ ~WillPass(s, BeforeGoodbye)
        BY <1>3, <2>1, <3>2 DEF WillPass
      <4>. QED BY <1>4, <2>1, <2>2, <4>1, OthersStay
    <3>. QED BY <3>1, <3>2
  <2>. QED BY <2>1, <2>4, <2>5, <2>6, <2>7 DEF GoodbyeInv, Services
<1>. QED
  BY <1>6, <1>7, <1>8, <1>9, <1>10, <1>11, <1>12, <1>13, <1>14 DEF CleanUp

(* The server gives the new slot to the new client only when it is free,   *)
(* after the client before was told to stop.                               *)
LEMMA ServerKeepsIInv ==
  ASSUME IInv, Accept \/ ServerStep
  PROVE  IInv'
<1>. USE DEF IInv
<1>1. /\ slots \in [Slots -> Slot] /\ current \in Slots /\ NewSlot \in Slots
      /\ NewSlot # current /\ Slots = {current, NewSlot}
      /\ None \in Owner /\ waiting \subseteq Clients /\ server.client \in Owner
  BY DEF TypeOK, Slot, Owner, NewSlot, Slots
<1>2. CASE Accept
  <2>1. /\ server.pc = "accept" /\ server'.pc = "wait" /\ server'.client \in Clients
        /\ server' = [pc |-> "wait", client |-> server'.client]
        /\ waiting' \subseteq Clients
        /\ UNCHANGED <<current, failed, late, Services>>
    BY <1>1, <1>2 DEF Accept
  <2>2. PICK b \in BOOLEAN : /\ slots' = [slots EXCEPT ![NewSlot].stop = b]
                             /\ slots[NewSlot].stop \/ Busy(NewSlot) => b
    BY <1>2 DEF Accept
  <2>3. SignalsOnly(NewSlot) /\ slots'[NewSlot].stop = b /\ slots'[NewSlot].old = slots[NewSlot].old
    BY <1>1, <2>2, StopSignals
  <2>4. TypeOK'
    BY <2>1, <2>3 DEF TypeOK, SignalsOnly, Slot, At, Me, Services, Owner
  <2>5. TakeoverInv'
    BY <1>1, <2>1, <2>2, <2>3 DEF TakeoverInv, SignalsOnly, Busy, NewSlot
  <2>6. OwnersInv'
    BY <2>1, <2>3 DEF OwnersInv, SignalsOnly, Me, Services
  <2>7. \A s \in Slots : slots'[s].old = slots[s].old
    BY <2>3 DEF SignalsOnly
  <2>8. GoodbyeInv'
    BY <2>1, <2>3, <2>7 DEF GoodbyeInv, Pending, WillPass, Pausing, At, SignalsOnly, Services
  <2>. QED BY <2>4, <2>5, <2>6, <2>8
<1>3. CASE Refuse
  <2>1. /\ server.pc = "wait" /\ server' = [pc |-> "accept", client |-> None]
        /\ UNCHANGED <<waiting, current, slots, failed, late, Services>>
    BY <1>3 DEF Refuse
  <2>2. TypeOK'
    BY <1>1, <2>1 DEF TypeOK, At, Me, Services
  <2>3. TakeoverInv'
    BY <2>1 DEF TakeoverInv, Busy, NewSlot
  <2>4. OwnersInv' /\ GoodbyeInv'
    BY <2>1 DEF OwnersInv, GoodbyeInv, Pending, WillPass, Pausing, At, Me, Services
  <2>. QED BY <2>2, <2>3, <2>4
<1>4. CASE MarkOld
  <2>1. PICK b \in BOOLEAN : slots' = [slots EXCEPT ![current].old = b]
    BY <1>4 DEF MarkOld
  <2>2. SignalsOnly(current) /\ slots'[current].stop = slots[current].stop
    BY <1>1, <2>1, OldSignals
  <2>3. /\ server.pc = "wait" /\ ~Busy(NewSlot)
        /\ server'.pc = IF Busy(current) THEN "signal" ELSE "start"
        /\ server' \in [pc : {"signal", "start"}, client : Owner]
        /\ UNCHANGED <<waiting, current, failed, late, Services>>
    BY <1>1, <1>4 DEF MarkOld, TypeOK
  <2>4. TypeOK'
    BY <2>2, <2>3 DEF TypeOK, SignalsOnly, Slot, At, Me, Services
  <2>5. TakeoverInv'
    BY <1>1, <2>2, <2>3 DEF TakeoverInv, SignalsOnly, Busy, NewSlot
  <2>6. OwnersInv'
    BY <2>2, <2>3 DEF OwnersInv, SignalsOnly, Me, Services
  <2>. QED BY <2>3, <2>4, <2>5, <2>6 DEF GoodbyeInv, Pending
<1>5. CASE SignalOld
  <2>1. slots' = [slots EXCEPT ![current].stop = TRUE]
    BY <1>5 DEF SignalOld
  <2>2. SignalsOnly(current) /\ slots'[current].stop /\ slots'[current].old = slots[current].old
    BY <1>1, <2>1, StopSignals
  <2>3. /\ server.pc = "signal" /\ server'.pc = "start"
        /\ server' \in [pc : {"start"}, client : Owner]
        /\ UNCHANGED <<waiting, current, failed, late, Services>>
    BY <1>1, <1>5 DEF SignalOld, TypeOK
  <2>4. TypeOK'
    BY <2>2, <2>3 DEF TypeOK, SignalsOnly, Slot, At, Me, Services
  <2>5. TakeoverInv'
    BY <1>1, <2>2, <2>3 DEF TakeoverInv, SignalsOnly, Busy, NewSlot
  <2>6. OwnersInv'
    BY <2>2, <2>3 DEF OwnersInv, SignalsOnly, Me, Services
  <2>. QED BY <2>3, <2>4, <2>5, <2>6 DEF GoodbyeInv, Pending
<1>6. CASE Start
  <2>1. /\ server.pc = "start" /\ server' = [pc |-> "accept", client |-> None]
        /\ current' = NewSlot
        /\ UNCHANGED <<waiting, failed, late, Services>>
    BY <1>6 DEF Start
  <2>2. PICK r \in Slot : /\ slots' = [slots EXCEPT ![NewSlot] = r]
                          /\ r.pc = "create" /\ ~r.stop /\ ~r.old
    <3>1. server.client \in Owner
      BY <1>1 DEF TypeOK
    <3>2. SlotOf(server.client, "create") \in Slot
      BY <3>1 DEF SlotOf, Slot, Places
    <3>3. /\ SlotOf(server.client, "create").pc = "create"
          /\ ~SlotOf(server.client, "create").stop
          /\ ~SlotOf(server.client, "create").old
      BY DEF SlotOf
    <3>. QED BY <3>2, <3>3, <1>6 DEF Start
  <2>3. /\ slots' \in [Slots -> Slot] /\ slots'[NewSlot] = r
        /\ slots'[current] = slots[current]
    BY <1>1, <2>2
  <2>4. ~Busy(NewSlot) /\ (Busy(current) => slots[current].stop)
    BY <2>1 DEF TakeoverInv
  <2>5. TypeOK'
    BY <1>1, <2>1, <2>2, <2>3 DEF TypeOK, Slot, At, Me, Services
  <2>6. TakeoverInv'
    BY <1>1, <2>1, <2>2, <2>3, <2>4 DEF TakeoverInv, Busy
  <2>7. slots[NewSlot].pc \notin Serving /\ slots[NewSlot].pc \notin BeforeNtp
    BY <2>4 DEF Busy, BeforeNtp, Serving, Ops
  <2>8. OwnersInv'
    BY <1>1, <2>1, <2>3, <2>7, OwnersStay DEF Services
  <2>9. "create" \in BeforeForget /\ "create" \in BeforeGoodbye
    BY DEF BeforeForget, BeforeGoodbye
  <2>10. GoodbyeInv'
    BY <1>1, <2>2, <2>3, <2>9 DEF GoodbyeInv, Pending, WillPass, Pausing, At
  <2>. QED BY <2>5, <2>6, <2>8, <2>10
<1>7. CASE StartFails
  <2>1. /\ server.pc = "start" /\ server' = [pc |-> "accept", client |-> None] /\ failed'
        /\ failed' \in BOOLEAN
        /\ UNCHANGED <<waiting, current, slots, late, Services>>
    BY <1>7 DEF StartFails
  <2>2. TypeOK'
    BY <1>1, <2>1 DEF TypeOK, At, Me, Services
  <2>3. TakeoverInv'
    BY <1>1, <2>1 DEF TakeoverInv, Busy, NewSlot
  <2>4. OwnersInv'
    BY <2>1 DEF OwnersInv, Me, Services
  <2>. QED BY <2>1, <2>2, <2>3, <2>4 DEF GoodbyeInv, Pending
<1>. QED BY <1>2, <1>3, <1>4, <1>5, <1>6, <1>7 DEF ServerStep

LEMMA EventKeepsIInv ==
  ASSUME IInv, EventStep
  PROVE  IInv'
<1>1. /\ UNCHANGED <<Server, slots, shared, ptp, shown>>
      /\ event' \in [task : Owner, listen : Owner, stop : BOOLEAN]
  BY DEF IInv, TypeOK, EventStep, EventListens, EventEnds, Owner
<1>2. TypeOK'
  BY <1>1 DEF IInv, TypeOK, At, Me, Server
<1>3. TakeoverInv'
  BY <1>1 DEF IInv, TakeoverInv, Busy, NewSlot, Server
<1>4. OwnersInv' /\ GoodbyeInv'
  BY <1>1 DEF IInv, OwnersInv, GoodbyeInv, Pending, WillPass, Pausing, At, Me, Server
<1>. QED BY <1>2, <1>3, <1>4 DEF IInv

LEMMA NextKeepsIInv == IInv /\ [Next]_vars => IInv'
<1>. SUFFICES ASSUME IInv, [Next]_vars PROVE IInv'
  OBVIOUS
<1>1. CASE Accept \/ ServerStep
  BY <1>1, ServerKeepsIInv
<1>2. CASE EventStep
  BY <1>2, EventKeepsIInv
<1>3. ASSUME NEW s \in Slots, ClientStep(s) \/ Dispatch(s) \/ Leave(s) \/ GraceExpired(s)
      PROVE  IInv'
  BY <1>3, ServeKeepsIInv, CleanUpKeepsIInv DEF ClientStep, Serve
<1>4. CASE UNCHANGED vars
  BY <1>4 DEF vars, IInv, TypeOK, TakeoverInv, OwnersInv, GoodbyeInv, Pending, WillPass,
     Pausing, At, Me, Busy, NewSlot
<1>. QED BY <1>1, <1>2, <1>3, <1>4 DEF Next

THEOREM Invariance == Spec => []IInv
<1>. QED BY InitIInv, NextKeepsIInv, PTL DEF Spec

-----------------------------------------------------------------------------
(* Theorems *)

(* Type correctness: in particular only a client with a remote is ever     *)
(* given the grace period.                                                 *)
THEOREM TypeCorrect == Spec => []TypeOK
<1>1. IInv => TypeOK
  BY DEF IInv
<1>. QED BY <1>1, Invariance, PTL

(* Two senders never both hold a session, whatever the order in which      *)
(* signal_old_client_stop, the tasks of both slots and their ends fall.    *)
THEOREM SessionsExclude == Spec => []OneSession
<1>1. IInv => OneSession
  BY DEF IInv, TakeoverInv, OneSession
<1>. QED BY <1>1, Invariance, PTL

(* No stream and no NTP client is left behind by any sequence of takeovers,*)
(* and the last task to end leaves no remote and nothing shown but, at     *)
(* most, a pause that came too late.                                       *)
THEOREM CleanUpIsComplete == Spec => []NothingOutlivesSession
<1>1. IInv => NothingOutlivesSession
  <2>. SUFFICES ASSUME IInv PROVE NothingOutlivesSession
    OBVIOUS
  <2>1. "none" \notin BeforeNtp /\ "none" \notin BeforeForget /\ "none" \notin BeforeGoodbye
        /\ Serving \subseteq BeforeNtp
    BY DEF BeforeGoodbye, BeforeForget, BeforeNtp, Serving, Ops
  <2>2. \A c \in {shared.audio, shared.ntp} : c # None => Alive(c)
    BY <2>1 DEF IInv, OwnersInv, Alive, Busy
  <2>3. ASSUME server.pc = "accept", ~failed, \A s \in Slots : ~Busy(s)
        PROVE  ~Pending(BeforeForget) /\ ~Pending(BeforeGoodbye)
    BY <2>1, <2>3 DEF Pending, WillPass, Busy
  <2>. QED BY <2>2, <2>3 DEF IInv, GoodbyeInv, NothingOutlivesSession
<1>. QED BY <1>1, Invariance, PTL
=============================================================================
