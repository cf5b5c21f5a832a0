----------------------------- MODULE RtspServer -----------------------------
(***************************************************************************)
(* Taking over a session: main/rtsp/rtsp_server.c has two client slots.  A *)
(* new connection gets the free one and the client before is told to stop; *)
(* its task cleans up while the task of the new one already sets up its    *)
(* session with the handlers of main/rtsp/rtsp_handlers.c.  Audio, NTP,    *)
(* PTP, the DACP session and the event port task exist once and are shared *)
(* by both tasks without a lock.                                           *)
(*                                                                         *)
(* Requests that touch none of these are left out.  A service shared by    *)
(* the tasks is represented by the client it works for.                    *)
(***************************************************************************)
EXTENDS Naturals, FiniteSets

CONSTANTS
  Clients,   (* connections the server will see                            *)
  V1,        (* those that speak AirPlay 1                                 *)
  Remote,    (* those of V1 that give a DACP-ID and an Active-Remote token *)
  None

ASSUME RtspServerAssumption ==
  /\ Remote \subseteq V1 /\ V1 \subseteq Clients /\ None \notin Clients

VARIABLES
  waiting,   (* connections not yet accepted                               *)
  server,    (* [pc, client]: server_task and the connection it deals with *)
  current,   (* current_slot                                               *)
  slots,     (* clients[]: pc is the place of the task, "none" without one *)
  shared,    (* the client that audio, NTP and DACP are of                *)
  ptp,       (* the PTP task runs                                          *)
  event,     (* [task, listen, stop]: the event port task                  *)
  shown,     (* the last of PLAYING, PAUSED and DISCONNECTED               *)
  failed,    (* history: a client task could not be created                *)
  late       (* history: the last pause shown at the end of a connection   *)
             (* came when its client had been told to stop                 *)

vars == <<waiting, server, current, slots, shared, ptp, event, shown, failed, late>>

Slots == {0, 1}
Owner == Clients \cup {None}
SlotOf(c, place) == [client |-> c, pc |-> place, stop |-> FALSE, old |-> FALSE,
                     v1 |-> FALSE, event |-> FALSE]
FreeSlot == SlotOf(None, "none")
NoEvent == [task |-> None, listen |-> None, stop |-> FALSE]

Init ==
  /\ waiting = Clients
  /\ server = [pc |-> "accept", client |-> None]
  /\ current = 0
  /\ slots = [s \in Slots |-> FreeSlot]
  /\ shared = [audio |-> None, ntp |-> None, dacp |-> None]
  /\ ptp = TRUE
  /\ event = NoEvent
  /\ shown = "disconnected"
  /\ failed = FALSE /\ late = FALSE

-----------------------------------------------------------------------------
(* server_task *)

Services == <<shared, ptp, event, shown>>
NewSlot == 1 - current
Busy(s) == slots[s].pc # "none"

(* A connection is accepted; a task still in the slot it is to get is told *)
(* to stop.                                                                *)
Accept ==
  /\ server.pc = "accept"
  /\ \E c \in waiting :
       /\ waiting' = waiting \ {c}
       /\ server' = [pc |-> "wait", client |-> c]
  /\ slots' = [slots EXCEPT ![NewSlot].stop = @ \/ Busy(NewSlot)]
  /\ UNCHANGED <<current, failed, late, Services>>

(* For three seconds the server waits for that task to end, then it turns  *)
(* the connection away.                                                    *)
Refuse ==
  /\ server.pc = "wait" /\ Busy(NewSlot)
  /\ server' = [pc |-> "accept", client |-> None]
  /\ UNCHANGED <<waiting, current, slots, failed, late, Services>>

(* signal_old_client_stop marks the client before as old ...               *)
MarkOld ==
  /\ server.pc = "wait" /\ ~Busy(NewSlot)
  /\ slots' = [slots EXCEPT ![current].old = @ \/ Busy(current)]
  /\ server' = [server EXCEPT !.pc = IF Busy(current) THEN "signal" ELSE "start"]
  /\ UNCHANGED <<waiting, current, failed, late, Services>>

(* Mutant: the client before is only marked. *)
SignalOldNot ==
  /\ server.pc = "signal"
  /\ server' = [server EXCEPT !.pc = "start"]
  /\ UNCHANGED <<waiting, current, slots, failed, late, Services>>

(* ... and then tells it to stop; it may have ended in between.            *)
SignalOld ==
  /\ server.pc = "signal"
  /\ slots' = [slots EXCEPT ![current].stop = TRUE]
  /\ server' = [server EXCEPT !.pc = "start"]
  /\ UNCHANGED <<waiting, current, failed, late, Services>>

(* The new client's task is created, *)
Start ==
  /\ server.pc = "start"
  /\ slots' = [slots EXCEPT ![NewSlot] = SlotOf(server.client, "create")]
  /\ current' = NewSlot
  /\ server' = [pc |-> "accept", client |-> None]
  /\ UNCHANGED <<waiting, failed, late, Services>>

(* or cannot be. *)
StartFails ==
  /\ server.pc = "start"
  /\ server' = [pc |-> "accept", client |-> None]
  /\ failed' = TRUE
  /\ UNCHANGED <<waiting, current, slots, late, Services>>

-----------------------------------------------------------------------------
(* client_task: requests *)

Server == <<waiting, server, current, failed, late>>
At(s, l) == slots[s].pc = l
Goto(s, l) == slots' = [slots EXCEPT ![s].pc = l]
Me(s) == slots[s].client

(* The connection state is allocated; without memory the task ends. *)
Create(s) ==
  /\ At(s, "create")
  /\ Goto(s, "serve")
  /\ UNCHANGED <<Server, Services>>

CreateFails(s) ==
  /\ At(s, "create")
  /\ slots' = [slots EXCEPT ![s] = FreeSlot]
  /\ failed' = TRUE
  /\ UNCHANGED <<waiting, server, current, late, Services>>

(* What a client asks for once it has set up what comes before.            *)
Ops == {"announce", "setup1", "setup2", "start", "playing", "pause", "teardown"}
Understood(s, op) ==
  CASE op \in {"announce", "setup1"} -> Me(s) \in V1
    [] op = "setup2" -> Me(s) \notin V1
    [] op = "start" -> slots[s].v1
    [] op = "pause" -> slots[s].event
    [] OTHER -> slots[s].v1 \/ slots[s].event

(* rtsp_dispatch: a request that came before the task was told to stop is  *)
(* handled to its end.                                                     *)
Dispatch(s) ==
  /\ At(s, "serve") /\ ~slots[s].stop
  /\ \E op \in Ops : Understood(s, op) /\ Goto(s, op)
  /\ shared' = IF Me(s) \in Remote THEN [shared EXCEPT !.dacp = Me(s)] ELSE shared
  /\ UNCHANGED <<Server, ptp, event, shown>>

(* handle_announce makes the connection one of AirPlay 1.                  *)
Announce(s) ==
  /\ At(s, "announce")
  /\ slots' = [slots EXCEPT ![s].pc = "serve", ![s].v1 = TRUE]
  /\ UNCHANGED <<Server, Services>>

(* handle_setup, AirPlay 1: the NTP client is started anew, which can fail *)
(* the request, ...                                                        *)
SetupV1(s) ==
  /\ At(s, "setup1")
  /\ \/ /\ shared' = [shared EXCEPT !.ntp = Me(s)]
        /\ slots' = [slots EXCEPT ![s].pc = "stopPtp", ![s].v1 = TRUE]
     \/ /\ shared' = [shared EXCEPT !.ntp = None]
        /\ slots' = [slots EXCEPT ![s].pc = "serve", ![s].v1 = TRUE]
  /\ UNCHANGED <<Server, ptp, event, shown>>

(* ... and PTP is stopped.                                                 *)
StopPtp(s) ==
  /\ At(s, "stopPtp")
  /\ ptp' = FALSE
  /\ Goto(s, "serve")
  /\ UNCHANGED <<Server, shared, event, shown>>

(* handle_setup, AirPlay 2: the first one opens the event port.  An event  *)
(* port task that is there is stopped and waited for;                      *)
SetupV2(s) ==
  /\ At(s, "setup2")
  /\ IF slots[s].event THEN Goto(s, "start") ELSE Goto(s, "open")
  /\ event' = IF slots[s].event \/ event.task = None THEN event
              ELSE [event EXCEPT !.stop = TRUE]
  /\ UNCHANGED <<Server, shared, ptp, shown>>

(* with it the request is answered, or starts streams as a later one does; *)
OpenEvent(s) ==
  /\ At(s, "open") /\ event.task = None
  /\ event' = [NoEvent EXCEPT !.task = Me(s)]
  /\ \E l \in {"serve", "start"} :
       slots' = [slots EXCEPT ![s].pc = l, ![s].event = TRUE]
  /\ UNCHANGED <<Server, shared, ptp, shown>>

(* one that does not end within a second fails the request.                *)
OpenEventFails(s) ==
  /\ At(s, "open") /\ event.task # None
  /\ Goto(s, "serve")
  /\ UNCHANGED <<Server, Services>>

(* A stream SETUP and the first RECORD start the receiver, whoever used it *)
(* before, or fail with the receiver stopped; a RECORD after a pause does  *)
(* not (dispatched as "playing").                                          *)
StartAudio(s) ==
  /\ At(s, "start")
  /\ \/ /\ shared' = [shared EXCEPT !.audio = Me(s)]
        /\ Goto(s, "playing")
     \/ /\ shared' = [shared EXCEPT !.audio = None]
        /\ Goto(s, "serve")
  /\ UNCHANGED <<Server, ptp, event, shown>>

EmitPlaying(s) ==
  /\ At(s, "playing")
  /\ shown' = "playing"
  /\ Goto(s, "serve")
  /\ UNCHANGED <<Server, shared, ptp, event>>

(* SETRATEANCHORTIME with rate 0; the other rates are "playing".           *)
Pause(s) ==
  /\ At(s, "pause")
  /\ shown' = "paused"
  /\ Goto(s, "serve")
  /\ UNCHANGED <<Server, shared, ptp, event>>

(* TEARDOWN of the streams, or of the session. *)
Teardown(s) ==
  /\ At(s, "teardown")
  /\ \/ /\ shown' = "paused"
        /\ shared' = [shared EXCEPT !.audio = None]
     \/ /\ shared' = [audio |-> None, ntp |-> None,
                      dacp |-> IF slots[s].v1 THEN shared.dacp ELSE None]
        /\ UNCHANGED shown
  /\ Goto(s, "serve")
  /\ UNCHANGED <<Server, ptp, event>>

(* The task is told to stop, *)
LeaveOnStop(s) ==
  /\ At(s, "serve") /\ slots[s].stop
  /\ Goto(s, "stopAudio")
  /\ UNCHANGED <<Server, Services>>

(* or the connection is lost or closed. *)
Leave(s) ==
  /\ At(s, "serve") /\ ~slots[s].stop
  /\ Goto(s, "stopAudio")
  /\ UNCHANGED <<Server, Services>>

-----------------------------------------------------------------------------
(* client_task: clean-up *)

(* Mutant: the task of a replaced client leaves the audio alone. *)
StopAudioUnlessOld(s) ==
  /\ At(s, "stopAudio")
  /\ shared' = IF slots[s].old THEN shared ELSE [shared EXCEPT !.audio = None]
  /\ Goto(s, "stopNtp")
  /\ UNCHANGED <<Server, ptp, event, shown>>

StopAudio(s) ==
  /\ At(s, "stopAudio")
  /\ shared' = [shared EXCEPT !.audio = None]
  /\ Goto(s, "stopNtp")
  /\ UNCHANGED <<Server, ptp, event, shown>>

(* Mutant: every client is taken to have a remote. *)
HasRemoteAny(s) == TRUE

(* has_dacp_remote *)
HasRemote(s) == slots[s].v1 /\ Me(s) \in Remote

StopNtp(s) ==
  /\ At(s, "stopNtp")
  /\ shared' = [shared EXCEPT !.ntp = None]
  /\ Goto(s, "stopped")
  /\ UNCHANGED <<Server, ptp, event, shown>>

(* A client with a remote that was not told to stop is perhaps only paused *)
(* and gets a grace period; ...                                            *)
GiveGrace(s) ==
  /\ At(s, "stopped")
  /\ Goto(s, IF HasRemote(s) /\ ~slots[s].stop THEN "paused" ELSE "forget")
  /\ UNCHANGED <<Server, Services>>

(* ... it is shown as paused, also when it was replaced in between.        *)
EmitPaused(s) ==
  /\ At(s, "paused")
  /\ shown' = "paused"
  /\ late' = slots[s].stop
  /\ Goto(s, "grace")
  /\ UNCHANGED <<waiting, server, current, failed, shared, ptp, event>>

AfterGrace(s) == Goto(s, IF slots[s].old THEN "clocks" ELSE "forget")

(* Mutant: the grace period goes on while another client is connected. *)
GraceIgnored(s) ==
  /\ At(s, "grace") /\ slots[s].stop /\ ~Busy(1 - s)
  /\ AfterGrace(s)
  /\ UNCHANGED <<Server, Services>>

(* The grace period ends when the task is told to stop ...                 *)
GraceStopped(s) ==
  /\ At(s, "grace") /\ slots[s].stop
  /\ AfterGrace(s)
  /\ UNCHANGED <<Server, Services>>

(* ... or when a probe no longer finds the phone's DACP service.           *)
GraceExpired(s) ==
  /\ At(s, "grace") /\ ~slots[s].stop
  /\ AfterGrace(s)
  /\ UNCHANGED <<Server, Services>>

(* dacp_clear_session and the DISCONNECTED event *)
Forget(s) ==
  /\ At(s, "forget")
  /\ shared' = [shared EXCEPT !.dacp = None]
  /\ Goto(s, "goodbye")
  /\ UNCHANGED <<Server, ptp, event, shown>>

Goodbye(s) ==
  /\ At(s, "goodbye")
  /\ shown' = "disconnected"
  /\ late' = FALSE
  /\ Goto(s, "clocks")
  /\ UNCHANGED <<waiting, server, current, failed, shared, ptp, event>>

(* Unless it was replaced the task restarts PTP and stops the event port   *)
(* task; a replaced one only stops an event port task of its own.          *)
RestartClocks(s) ==
  /\ At(s, "clocks")
  /\ IF slots[s].old
     THEN /\ Goto(s, IF slots[s].event /\ event.listen = Me(s) THEN "stopEvent" ELSE "close")
          /\ UNCHANGED ptp
     ELSE /\ Goto(s, "stopEvent")
          /\ ptp' = TRUE
  /\ UNCHANGED <<Server, shared, event, shown>>

(* rtsp_stop_event_port_task, and the wait of at most a second. *)
StopEvent(s) ==
  /\ At(s, "stopEvent")
  /\ event' = IF event.task = None THEN event ELSE [event EXCEPT !.stop = TRUE]
  /\ Goto(s, "close")
  /\ UNCHANGED <<Server, shared, ptp, shown>>

(* rtsp_conn_cleanup closes the event socket ...                           *)
Close(s) ==
  /\ At(s, "close")
  /\ slots' = [slots EXCEPT ![s].pc = "free", ![s].event = FALSE]
  /\ UNCHANGED <<Server, Services>>

(* ... and the slot is free.                                               *)
End(s) ==
  /\ At(s, "free")
  /\ slots' = [slots EXCEPT ![s] = FreeSlot]
  /\ UNCHANGED <<Server, Services>>

-----------------------------------------------------------------------------
(* event_port_task *)

EventListens ==
  /\ event.task # None /\ event.listen = None
  /\ event' = [event EXCEPT !.listen = event.task]
  /\ UNCHANGED <<Server, slots, shared, ptp, shown>>

SocketOpen == \E s \in Slots : Me(s) = event.task /\ slots[s].event

(* It ends when it is stopped or its socket is closed. *)
EventEnds ==
  /\ event.listen # None /\ (event.stop \/ ~SocketOpen)
  /\ event' = [event EXCEPT !.task = None, !.listen = None]
  /\ UNCHANGED <<Server, slots, shared, ptp, shown>>

-----------------------------------------------------------------------------

ServerStep == Refuse \/ MarkOld \/ SignalOld \/ Start \/ StartFails
Handle(s) ==
  \/ Announce(s) \/ SetupV1(s) \/ StopPtp(s) \/ SetupV2(s) \/ OpenEvent(s)
  \/ OpenEventFails(s) \/ StartAudio(s) \/ EmitPlaying(s) \/ Pause(s)
  \/ Teardown(s)
CleanUp(s) ==
  \/ StopAudio(s) \/ StopNtp(s) \/ GiveGrace(s) \/ EmitPaused(s) \/ GraceStopped(s)
  \/ Forget(s) \/ Goodbye(s) \/ RestartClocks(s) \/ StopEvent(s) \/ Close(s) \/ End(s)

(* What a client task does on its own, without its peer. *)
ClientStep(s) == Create(s) \/ CreateFails(s) \/ Handle(s) \/ LeaveOnStop(s) \/ CleanUp(s)
EventStep == EventListens \/ EventEnds

Next ==
  \/ Accept \/ ServerStep \/ EventStep
  \/ \E s \in Slots : ClientStep(s) \/ Dispatch(s) \/ Leave(s) \/ GraceExpired(s)

Spec == Init /\ [][Next]_vars

(* The client tasks run: ClientStep is what a task does without its sender *)
(* or its phone, so nobody has to send a request or leave, and a phone may *)
(* advertise its service for ever.  The other tasks need not run.          *)
FairSpec == Spec /\ \A s \in Slots : WF_vars(ClientStep(s))

-----------------------------------------------------------------------------
(* Properties *)

Places == {"none", "create", "serve", "stopPtp", "open", "stopAudio", "stopNtp",
           "stopped", "paused", "grace", "forget", "goodbye", "clocks", "stopEvent",
           "close", "free"} \cup Ops

(* The variables have their types; only a client with a remote is paused.  *)
TypeOK ==
  /\ waiting \subseteq Clients
  /\ server \in [pc : {"accept", "wait", "signal", "start"}, client : Owner]
  /\ current \in Slots
  /\ slots \in [Slots -> [client : Owner, pc : Places, stop : BOOLEAN, old : BOOLEAN,
                          v1 : BOOLEAN, event : BOOLEAN]]
  /\ \A s \in Slots : At(s, "paused") \/ At(s, "grace") => Me(s) \in Remote
  /\ shared \in [audio : Owner, ntp : Owner, dacp : Owner]
  /\ ptp \in BOOLEAN
  /\ event \in [task : Owner, listen : Owner, stop : BOOLEAN]
  /\ shown \in {"playing", "paused", "disconnected"}
  /\ failed \in BOOLEAN /\ late \in BOOLEAN

(* When the server waits for connections, the only client that was not     *)
(* told to stop is the one of the current slot: two senders never both     *)
(* hold a session, a client in its grace period included.                  *)
OneSession ==
  server.pc = "accept" =>
    \A s \in Slots : Busy(s) /\ ~slots[s].stop => s = current

(* No stream and no NTP client outlives the task of the session it was     *)
(* started for, whichever task is the last to clean up; and when both are  *)
(* done no remote is left and nothing is shown but, at most, the pause of  *)
(* a client that was replaced while its task was about to show it.         *)
Alive(c) == \E s \in Slots : Busy(s) /\ Me(s) = c
NothingOutlivesSession ==
  /\ \A c \in {shared.audio, shared.ntp} : c # None => Alive(c)
  /\ server.pc = "accept" /\ ~failed /\ (\A s \in Slots : ~Busy(s)) =>
        shared.dacp = None /\ (shown = "disconnected" \/ (late /\ shown = "paused"))

(* A client that was told to stop ends, wherever it is: in a request, in   *)
(* the clean-up or in a grace period that would go on for ever.            *)
(* One takes over at a time, so there is a moment when no such client is   *)
(* left.                                                                   *)
StoppedClientEnds ==
  (\E s \in Slots : Busy(s) /\ slots[s].stop) ~> (\A s \in Slots : slots[s].stop => ~Busy(s))

(* rtsp_server.c: "the new session's SETUP already manages PTP": an        *)
(* AirPlay 2 session that plays, alone and set up, has a PTP clock.        *)
PtpForNewSession ==
  \A s \in Slots :
    At(s, "serve") /\ slots[s].event /\ shared.audio = Me(s) /\ ~Busy(1 - s) => ptp
=============================================================================
