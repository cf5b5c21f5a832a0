------------------------------- MODULE BtCoex -------------------------------
(***************************************************************************)
(* Bluetooth beside AirPlay: the coexistence task of main/bt_coex.c, which *)
(* suspends the Bluetooth radio while AirPlay plays; the application task  *)
(* of audio/a2dp_sink.c, which alone touches the Bluetooth stack and tells *)
(* of connections; the callbacks and the network monitor of main/main.c,   *)
(* which stop and start the AirPlay services; and the RTSP tasks, whose    *)
(* events drive the radio.                                                 *)
(*                                                                         *)
(* The flags they share (s_connected, s_bt_suspended, s_bt_discoverable,   *)
(* s_airplay_started) have no lock.  The stack, the phone and the network  *)
(* are external: a connection completes at any time while the profiles are *)
(* registered, the stack reports its end when they are torn down, and each *)
(* change of the radio may fail.                                           *)
(***************************************************************************)
EXTENDS Naturals, Sequences

CONSTANTS
  Clients,       (* AirPlay clients                                        *)
  QueueLen,      (* BT_COEX_QUEUE_LEN                                      *)
  MaxEvents,     (* bounds of the instance: events of AirPlay clients,     *)
  MaxLinks,      (* connections of a phone,                                *)
  MaxFailures,   (* failures of the radio,                                 *)
  MaxOutages     (* losses of the network                                  *)

ASSUME BtCoexAssumption ==
  /\ QueueLen \in Nat \ {0} /\ MaxEvents \in Nat /\ MaxLinks \in Nat
  /\ MaxFailures \in Nat /\ MaxOutages \in Nat

VARIABLES
  link,        (* of a phone: "none", "paging", "up"                       *)
  radio,       (* "up", "torn" (no profiles), "off", "dead" until reboot   *)
  scan,        (* the stack is connectable and discoverable                *)
  wanted,      (* s_bt_discoverable                                        *)
  connected,   (* s_connected                                              *)
  suspended,   (* s_bt_suspended                                           *)
  appq,        (* the queue of bt_app_task                                 *)
  app,         (* where bt_app_task is                                     *)
  coex,        (* bt_coex_task: its state, what it asks, and the result    *)
  coexq,       (* its queue                                                *)
  session,     (* session[c]: what AirPlay client c does                   *)
  rtsp,        (* rtsp[c]: the event its task is telling of                *)
  started,     (* s_airplay_started                                        *)
  server,      (* the RTSP server and the playback task run                *)
  net,         (* the network is up                                        *)
  monitor,     (* network_monitor_task: its place and had_network          *)
  count,       (* how much of each bound is used                           *)
  dropped,     (* history: an event found the queue full                   *)
  aborted,     (* history: ESP_ERROR_CHECK of the server's start failed    *)
  missed       (* history: the last end of a connection fell in an outage  *)
               (* that the monitor has not seen                            *)

stack == <<link, radio, scan>>
flags == <<wanted, connected, suspended>>
airplay == <<session, rtsp>>
services == <<started, server, aborted>>
network == <<net, monitor>>
vars == <<stack, flags, appq, app, coex, coexq, dropped, airplay, services,
          network, count, missed>>

Quiet == [event |-> "none", at |-> "quiet"]

Init ==
  /\ link = "none" /\ radio = "up" /\ scan = TRUE
  /\ wanted = TRUE /\ connected = FALSE /\ suspended = FALSE
  /\ appq = <<>> /\ app = "idle"
  /\ coex = [state |-> "active", asks |-> "nothing", result |-> "none"] /\ coexq = <<>>
  /\ session = [c \in Clients |-> "none"] /\ rtsp = [c \in Clients |-> Quiet]
  /\ started = TRUE /\ server = TRUE
  /\ net = TRUE /\ monitor = [pc |-> "poll", had |-> TRUE]
  /\ count = [event |-> 0, link |-> 0, failure |-> 0, outage |-> 0]
  /\ dropped = FALSE /\ aborted = FALSE /\ missed = FALSE

Spend(what) == count' = [count EXCEPT ![what] = @ + 1]

-----------------------------------------------------------------------------
(* The phone: external *)

Page ==
  /\ link = "none" /\ radio = "up" /\ scan /\ count.link < MaxLinks
  /\ link' = "paging" /\ Spend("link")
  /\ UNCHANGED <<radio, scan, flags, appq, app, coex, coexq, dropped, airplay, services, network, missed>>

Connects ==
  /\ link = "paging" /\ radio = "up"
  /\ link' = "up" /\ appq' = Append(appq, "connected")
  /\ UNCHANGED <<radio, scan, flags, app, coex, coexq, dropped, airplay, services, network, count, missed>>

Leaves ==
  /\ link = "up"
  /\ link' = "none" /\ appq' = Append(appq, "disconnected")
  /\ UNCHANGED <<radio, scan, flags, app, coex, coexq, dropped, airplay, services, network, count, missed>>

-----------------------------------------------------------------------------
(* Mutant: what does not fit is kept. *)
PostAlways(e) == coexq' = Append(coexq, e) /\ UNCHANGED dropped

(* bt_coex_post: an event is dropped when the queue is full.               *)
Post(e) ==
  IF Len(coexq) < QueueLen
  THEN coexq' = Append(coexq, e) /\ UNCHANGED dropped
  ELSE dropped' = TRUE /\ UNCHANGED coexq

(* bt_a2dp_sink_set_discoverable: with the radio suspended, or a phone     *)
(* connected, only the wish is kept.                                       *)
SetDiscoverable(v) ==
  /\ wanted' = v
  /\ scan' = IF connected \/ suspended \/ radio # "up" THEN scan ELSE v

-----------------------------------------------------------------------------
(* start_airplay_services and stop_airplay_services, step by step.         *)

(* The assertion on the server's start: it must not be running.            *)
Serve == IF server THEN aborted' = TRUE /\ UNCHANGED server
         ELSE server' = TRUE /\ UNCHANGED aborted
Mark == started' = TRUE

-----------------------------------------------------------------------------
(* bt_app_task *)

Takes(m) == app = "idle" /\ appq # <<>> /\ Head(appq) = m /\ appq' = Tail(appq)
App(from, to) == app = from /\ app' = to
Rest == UNCHANGED <<coex, airplay, network, count>>

(* A phone is connected: AirPlay is stopped first.                         *)
Connected ==
  /\ Takes("connected") /\ connected' = TRUE
  /\ app' = IF started THEN "stop" ELSE "told"
  /\ UNCHANGED <<stack, wanted, suspended, coexq, dropped, services, missed>> /\ Rest

StopServer ==
  /\ App("stop", "stopped") /\ server' = FALSE
  /\ session' = [c \in Clients |-> IF session[c] = "none" THEN "none" ELSE "ending"]
  /\ UNCHANGED <<stack, flags, appq, coex, coexq, dropped, rtsp, started, aborted, network, count, missed>>

Stopped ==
  /\ App("stopped", "told") /\ started' = FALSE
  /\ UNCHANGED <<stack, flags, appq, coexq, dropped, server, aborted, missed>> /\ Rest

TellConnected ==
  /\ App("told", "idle") /\ Post("bt_connected")
  /\ scan' = FALSE
  /\ UNCHANGED <<link, radio, flags, appq, services, missed>> /\ Rest

(* A phone has gone.  The RTSP event that is emitted for displays reaches  *)
(* the listener for AirPlay clients too, which no longer finds the phone   *)
(* connected.                                                              *)
Disconnected ==
  /\ Takes("disconnected") /\ connected' = FALSE /\ app' = "gone"
  /\ UNCHANGED <<stack, wanted, suspended, coexq, dropped, services, missed>> /\ Rest

Gone ==
  /\ App("gone", "gone2") /\ SetDiscoverable(TRUE) /\ Post("disconnected")
  /\ UNCHANGED <<link, radio, connected, suspended, appq, services, missed>> /\ Rest

(* Mutant: AirPlay stays off. *)
TellGoneOnly ==
  /\ App("gone2", "idle") /\ Post("bt_disconnected")
  /\ UNCHANGED <<stack, flags, appq, services, missed>> /\ Rest

TellGone ==
  /\ app = "gone2" /\ Post("bt_disconnected")
  /\ app' = IF net /\ ~started THEN "serve" ELSE "idle"
  /\ missed' = (~net /\ monitor.had)
  /\ UNCHANGED <<stack, flags, appq, services>> /\ Rest

AppServe ==
  /\ App("serve", "mark") /\ Serve
  /\ UNCHANGED <<stack, flags, appq, coexq, dropped, started, missed>> /\ Rest

AppMark ==
  /\ App("mark", "idle") /\ Mark
  /\ UNCHANGED <<stack, flags, appq, coexq, dropped, server, aborted, missed>> /\ Rest

(* bt_suspend_locked, bt_resume_locked, on behalf of the coexistence task. *)
Result(r) == coex' = [coex EXCEPT !.result = r]
OpRest == UNCHANGED <<coexq, dropped, airplay, services, network, missed>>
Fails == count.failure < MaxFailures /\ Spend("failure")

Suspend ==
  /\ Takes("suspend")
  /\ IF suspended THEN Result("ok") /\ app' = "idle" /\ UNCHANGED scan
     ELSE IF connected THEN Result("refused") /\ app' = "idle" /\ UNCHANGED scan
     ELSE scan' = FALSE /\ app' = "deinit" /\ UNCHANGED coex
  /\ UNCHANGED <<link, radio, flags, count>> /\ OpRest

(* The profiles go, and with them a link, the end of which is reported.    *)
Deinit ==
  /\ App("deinit", "disable")
  /\ radio' = (IF radio = "up" THEN "torn" ELSE radio)
  /\ link' = "none"
  /\ appq' = IF link = "up" THEN Append(appq, "disconnected") ELSE appq
  /\ UNCHANGED <<scan, flags, coex, count>> /\ OpRest

Restored(r) == radio' = "up" /\ scan' = wanted /\ Result(r)

(* A stack that is down already answers ESP_ERR_INVALID_STATE, which the   *)
(* coexistence task takes for a connected phone.                           *)
Disable ==
  /\ App("disable", "idle")
  /\ \/ /\ radio = "torn" /\ UNCHANGED count
        /\ IF connected THEN Restored("refused") /\ UNCHANGED suspended
           ELSE radio' = "off" /\ suspended' = TRUE /\ Result("ok") /\ UNCHANGED scan
     \/ radio = "torn" /\ Fails /\ Restored("failed") /\ UNCHANGED suspended
     \/ radio = "torn" /\ Fails /\ radio' = "dead" /\ Result("failed") /\ UNCHANGED <<scan, suspended>>
     \/ radio = "dead" /\ Result("refused") /\ UNCHANGED <<radio, scan, suspended, count>>
  /\ UNCHANGED <<link, wanted, connected, appq>> /\ OpRest

Resume ==
  /\ Takes("resume")
  /\ IF ~suspended THEN Result("ok") /\ app' = "idle" /\ UNCHANGED <<suspended, count>>
     ELSE \/ Fails /\ Result("failed") /\ app' = "idle" /\ UNCHANGED suspended
          \/ suspended' = FALSE /\ app' = "register" /\ UNCHANGED <<coex, count>>
  /\ UNCHANGED <<stack, wanted, connected>> /\ OpRest

Register ==
  /\ App("register", "idle") /\ Restored("ok")
  /\ UNCHANGED <<link, flags, appq, count>> /\ OpRest

AppStep ==
  \/ Connected \/ StopServer \/ Stopped \/ TellConnected
  \/ Disconnected \/ Gone \/ TellGone \/ AppServe \/ AppMark
  \/ Suspend \/ Deinit \/ Disable \/ Resume \/ Register

-----------------------------------------------------------------------------
(* bt_coex_task *)

CoexRest ==
  UNCHANGED <<stack, flags, app, dropped, airplay, services, network, count, missed>>

(* Mutant: the caller does not block until the operation is done. *)
NeverWaits == TRUE

(* bt_run_on_app_task blocks the task while its operation is under way.    *)
CoexIdle == coex.asks = "nothing"
Asks(op) == appq' = Append(appq, op) /\ coex' = [coex EXCEPT !.asks = op]
Settles(s) == coex' = [coex EXCEPT !.state = s] /\ UNCHANGED appq

OnPlaying == IF coex.state = "suspended" THEN Settles("suspended") ELSE Asks("suspend")

OnSession == Settles(IF coex.state = "resume_wait" THEN "suspended" ELSE coex.state)

(* Mutant: a resume that is scheduled is forgotten. *)
OnDisconnectedOnce ==
  Settles(IF coex.state = "suspended" THEN "resume_wait" ELSE "active")

OnDisconnected ==
  Settles(IF coex.state \in {"suspended", "resume_wait"} THEN "resume_wait" ELSE "active")

(* Mutant: the radio is taken to be up. *)
OnBluetoothTrusts == Settles("active")

OnBluetooth == IF suspended THEN Asks("resume") ELSE Settles("active")

Handle ==
  /\ CoexIdle /\ coexq # <<>> /\ coexq' = Tail(coexq)
  /\ \/ Head(coexq) = "playing" /\ OnPlaying
     \/ Head(coexq) \in {"connected", "paused"} /\ OnSession
     \/ Head(coexq) = "disconnected" /\ OnDisconnected
     \/ Head(coexq) \in {"bt_connected", "bt_disconnected"} /\ OnBluetooth
  /\ CoexRest

(* Mutant: a suspension that failed is not tried again. *)
TimeoutNoRetry ==
  /\ CoexIdle /\ coexq = <<>> /\ coex.state = "resume_wait" /\ Asks("resume")
  /\ UNCHANGED coexq /\ CoexRest

(* The deadline passes while no event is there.                            *)
Timeout ==
  /\ CoexIdle /\ coexq = <<>> /\ coex.state \in {"suspend_retry", "resume_wait"}
  /\ Asks(IF coex.state = "suspend_retry" THEN "suspend" ELSE "resume")
  /\ UNCHANGED coexq /\ CoexRest

(* The result of what the task asked of bt_app_task.                       *)
Answered ==
  /\ coex.result # "none"
  /\ coex' = [asks |-> "nothing", result |-> "none", state |->
       IF coex.asks = "suspend"
       THEN CASE coex.result = "ok" -> "suspended"
              [] coex.result = "refused" -> "active"
              [] coex.result = "failed" -> "suspend_retry"
       ELSE IF coex.result = "ok" THEN "active" ELSE "resume_wait"]
  /\ UNCHANGED <<appq, coexq>> /\ CoexRest

CoexStep == Handle \/ Timeout \/ Answered

-----------------------------------------------------------------------------
(* The RTSP tasks: what a client does, and how its task tells of it.       *)

Tells(c, e) == rtsp' = [rtsp EXCEPT ![c] = [event |-> e, at |-> "check"]]
Becomes(c, s) == session' = [session EXCEPT ![c] = s]
ClientRest ==
  UNCHANGED <<stack, flags, appq, app, coex, coexq, dropped, services, network, missed>>

(* A client attaches, plays, pauses: external.                             *)
Client(c) ==
  /\ rtsp[c] = Quiet /\ count.event < MaxEvents /\ Spend("event")
  /\ \/ session[c] = "none" /\ server /\ Becomes(c, "attached") /\ Tells(c, "connected")
     \/ session[c] = "attached" /\ Becomes(c, "playing") /\ Tells(c, "playing")
     \/ session[c] = "playing" /\ Becomes(c, "attached") /\ Tells(c, "paused")
  /\ ClientRest

Ends(c) ==
  /\ rtsp[c] = Quiet /\ Becomes(c, "none") /\ Tells(c, "disconnected")
  /\ UNCHANGED count /\ ClientRest

Detach(c) == session[c] \in {"attached", "playing"} /\ Ends(c)

(* The server was stopped.                                                 *)
Ended(c) == session[c] = "ending" /\ Ends(c)

At(c, place) == rtsp[c].at = place
GoesTo(c, place) ==
  rtsp' = [rtsp EXCEPT ![c] = IF place = "quiet" THEN Quiet
                              ELSE [event |-> rtsp[c].event, at |-> place]]
TellRest ==
  UNCHANGED <<link, radio, connected, suspended, appq, app, coex, session, services,
              network, count, missed>>

(* on_airplay_client_event                                                 *)
Check(c) ==
  /\ At(c, "check")
  /\ GoesTo(c, IF connected THEN "quiet" ELSE "show")
  /\ UNCHANGED <<scan, wanted, coexq, dropped>> /\ TellRest

Show(c) ==
  /\ At(c, "show") /\ GoesTo(c, "post")
  /\ IF rtsp[c].event \in {"connected", "disconnected"}
     THEN SetDiscoverable(rtsp[c].event = "disconnected")
     ELSE UNCHANGED <<scan, wanted>>
  /\ UNCHANGED <<coexq, dropped>> /\ TellRest

PostEvent(c) ==
  /\ At(c, "post") /\ Post(rtsp[c].event) /\ GoesTo(c, "quiet")
  /\ UNCHANGED <<scan, wanted>> /\ TellRest

RtspStep(c) == Ended(c) \/ Check(c) \/ Show(c) \/ PostEvent(c)

-----------------------------------------------------------------------------
(* The network, external, and network_monitor_task, which looks at it      *)
(* every two seconds and asks nobody about Bluetooth.                      *)

NetRest == UNCHANGED <<stack, flags, appq, app, coex, coexq, dropped, airplay>>

NetDown ==
  /\ net /\ count.outage < MaxOutages /\ net' = FALSE /\ Spend("outage")
  /\ UNCHANGED <<monitor, services, missed>> /\ NetRest

NetUp ==
  /\ ~net /\ net' = TRUE
  /\ UNCHANGED <<monitor, services, count, missed>> /\ NetRest

Poll ==
  /\ monitor.pc = "poll" /\ net # monitor.had
  /\ monitor' = IF net /\ ~started THEN [monitor EXCEPT !.pc = "serve"]
                ELSE [monitor EXCEPT !.had = net]
  /\ missed' = (missed /\ net)
  /\ UNCHANGED <<net, services, count>> /\ NetRest

MonitorServe ==
  /\ monitor.pc = "serve" /\ monitor' = [monitor EXCEPT !.pc = "mark"] /\ Serve
  /\ UNCHANGED <<net, started, count, missed>> /\ NetRest

MonitorMark ==
  /\ monitor.pc = "mark" /\ monitor' = [pc |-> "poll", had |-> TRUE] /\ Mark
  /\ UNCHANGED <<net, server, aborted, count, missed>> /\ NetRest

MonitorStep == Poll \/ MonitorServe \/ MonitorMark

-----------------------------------------------------------------------------
(* A failed assertion stops the program.                                   *)
Next ==
  /\ ~aborted
  /\ \/ Page \/ Connects \/ Leaves
     \/ AppStep \/ CoexStep
     \/ \E c \in Clients : Client(c) \/ Detach(c) \/ RtspStep(c)
     \/ NetDown \/ NetUp \/ MonitorStep

Spec == Init /\ [][Next]_vars

(* FreeRTOS runs every task, and the deadlines pass.  Nothing is assumed   *)
(* of the phone, of the clients and of the network.                        *)
FairSpec ==
  /\ Spec
  /\ WF_vars(~aborted /\ AppStep) /\ WF_vars(~aborted /\ CoexStep)
  /\ WF_vars(~aborted /\ MonitorStep)
  /\ \A c \in Clients : WF_vars(~aborted /\ RtspStep(c))

-----------------------------------------------------------------------------
(* Properties *)

Events == {"connected", "playing", "paused", "disconnected"}
Tellings == {Quiet} \cup [event : Events, at : {"check", "show", "post"}]
Messages == {"connected", "disconnected", "suspend", "resume"}
States == {"active", "suspended", "suspend_retry", "resume_wait"}

TypeOK ==
  /\ link \in {"none", "paging", "up"} /\ radio \in {"up", "torn", "off", "dead"}
  /\ scan \in BOOLEAN /\ wanted \in BOOLEAN /\ connected \in BOOLEAN /\ suspended \in BOOLEAN
  /\ started \in BOOLEAN /\ server \in BOOLEAN /\ net \in BOOLEAN
  /\ dropped \in BOOLEAN /\ aborted \in BOOLEAN /\ missed \in BOOLEAN
  /\ appq \in Seq(Messages)
  /\ app \in {"idle", "stop", "stopped", "told", "gone", "gone2", "serve", "mark",
              "deinit", "disable", "register"}
  /\ coex \in [state : States, asks : {"nothing", "suspend", "resume"},
                result : {"none", "ok", "refused", "failed"}]
  /\ coexq \in Seq(Events \cup {"bt_connected", "bt_disconnected"}) /\ Len(coexq) <= QueueLen
  /\ session \in [Clients -> {"none", "attached", "playing", "ending"}]
  /\ rtsp \in [Clients -> Tellings]
  /\ monitor \in [pc : {"poll", "serve", "mark"}, had : BOOLEAN]
  /\ count \in [{"event", "link", "failure", "outage"} -> Nat]

(* What the coexistence task believes of the radio is so whenever it is    *)
(* not waiting for an operation: the state never desyncs, and a phone      *)
(* that connects finds its radio resumed.                                  *)
StateMatches ==
  coex.asks = "nothing" =>
    /\ suspended <=> coex.state \in {"suspended", "resume_wait"}
    /\ suspended <=> radio = "off"

Ops == {"suspend", "resume"}
HasOp(q) == \E i \in 1..Len(q) : q[i] \in Ops
AtMostOneOp(q) == \A i, j \in 1..Len(q) : q[i] \in Ops /\ q[j] \in Ops => i = j
OpQueued == HasOp(appq)
OpRuns == app \in {"deinit", "disable", "register"}
OpDone == coex.result # "none"

(* What the coexistence task asked for is in one place until it is         *)
(* answered, and what it did not ask for is in none; the stack is taken    *)
(* down and built up only inside such an operation.  So s_pending_op, one  *)
(* pointer without a lock, is never overwritten.                           *)
OneOperation ==
  /\ AtMostOneOp(appq)
  /\ ~(OpQueued /\ OpRuns) /\ ~(OpQueued /\ OpDone) /\ ~(OpRuns /\ OpDone)
  /\ OpQueued \/ OpRuns \/ OpDone <=> coex.asks # "nothing"
  /\ radio = "torn" => app = "disable"

NobodyPlays == \A c \in Clients : session[c] = "none" /\ rtsp[c] = Quiet

(* When the last AirPlay client is gone for good the radio comes back,     *)
(* whatever was crossed, retried or refused on the way, unless an event    *)
(* found the queue full or a rollback failed; and with it the speaker can  *)
(* be found again, unless a phone has it: the wish of set_discoverable     *)
(* that only was kept is applied.                                          *)
RadioReturns ==
  /\ <>[]NobodyPlays => <>[](radio \in {"up", "dead"} \/ dropped \/ aborted)
  /\ <>[](NobodyPlays /\ ~connected)
       => <>[](scan \/ link # "none" \/ radio = "dead" \/ dropped \/ aborted)

(* While a client plays, the end of no other session, and of no phone, is  *)
(* being told.                                                             *)
NoCrossing ==
  \A c \in Clients : session[c] = "playing" =>
    /\ ~connected /\ app \notin {"gone", "gone2"}
    /\ \A i \in 1..Len(appq) : appq[i] # "connected"
    /\ \A d \in Clients \ {c} : rtsp[d].event # "disconnected"

(* A client that plays gets the radio suspended for as long as it plays,   *)
(* after any failures and whoever was there before, as long as no end of   *)
(* another session or of a phone crosses its playing.                      *)
StreamingSuspends ==
  [](NoCrossing \/ aborted) /\ <>[](\E c \in Clients : session[c] = "playing")
    => <>[](suspended \/ radio = "dead" \/ dropped \/ aborted)

(* When no phone is connected any more and the network is there, AirPlay   *)
(* is served, unless the phone left in an outage that ended before the     *)
(* monitor looked, or two tasks started the server at once.                *)
AirPlayReturns ==
  <>[](~connected /\ net /\ app = "idle") => <>[]((server /\ started) \/ missed \/ aborted)

(* a2dp_sink.h: "When a Bluetooth device connects, AirPlay services are    *)
(* disabled."                                                              *)
BluetoothAlone == connected /\ app = "idle" => ~server
=============================================================================
