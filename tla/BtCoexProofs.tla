---------------------------- MODULE BtCoexProofs ----------------------------
(***************************************************************************)
(* The coexistence task always knows the state of the radio, and has one   *)
(* operation under way at most: for any clients, any queue and any number  *)
(* of failures, phones and outages.                                        *)
(***************************************************************************)
EXTENDS BtCoex, TLAPS

(* The operations in the queue are the one the task asked for.             *)
AskedOnly(q, op) == \A i \in 1..Len(q) : q[i] \in Ops => q[i] = op

(* What is known of the radio while an operation is queued, runs, is done  *)
(* or has been answered.                                                   *)
RadioKnown ==
  /\ suspended <=> radio = "off" /\ app # "register"
  /\ app = "register" => radio = "off" /\ coex.asks = "resume"
  /\ app \in {"deinit", "disable"} => ~suspended /\ coex.asks = "suspend"
  /\ AskedOnly(appq, coex.asks)
  /\ coex.result # "none" /\ coex.asks = "suspend" => (suspended <=> coex.result = "ok")
  /\ coex.result # "none" /\ coex.asks = "resume" => (suspended <=> coex.result # "ok")

IInv == TypeOK /\ OneOperation /\ RadioKnown /\ StateMatches

-----------------------------------------------------------------------------
(* What putting a message into the queue, and taking one, do to the        *)
(* operations in it.                                                       *)

LEMMA AppendMessage ==
  ASSUME NEW q \in Seq(Messages), NEW m \in Messages \ Ops, NEW op
  PROVE  /\ Append(q, m) \in Seq(Messages)
         /\ HasOp(Append(q, m)) <=> HasOp(q)
         /\ AtMostOneOp(q) => AtMostOneOp(Append(q, m))
         /\ AskedOnly(q, op) => AskedOnly(Append(q, m), op)
<1> DEFINE r == Append(q, m)
<1>1. r \in Seq(Messages) /\ Len(r) = Len(q) + 1 /\ Len(q) \in Nat
  OBVIOUS
<1>2. \A i \in 1..Len(q) : r[i] = q[i]
  OBVIOUS
<1>3. r[Len(q) + 1] \notin Ops
  OBVIOUS
<1>4. \A i \in 1..Len(r) : r[i] \in Ops => i \in 1..Len(q) /\ q[i] = r[i]
  BY <1>1, <1>2, <1>3
<1>5. \A i \in 1..Len(q) : i \in 1..Len(r)
  BY <1>1
<1> HIDE DEF r
<1>6. HasOp(r) <=> HasOp(q)
  BY <1>2, <1>4, <1>5 DEF HasOp
<1>7. AtMostOneOp(q) => AtMostOneOp(r)
  BY <1>4 DEF AtMostOneOp
<1>8. AskedOnly(q, op) => AskedOnly(r, op)
  BY <1>4 DEF AskedOnly
<1> QED
  BY <1>1, <1>6, <1>7, <1>8 DEF r

(* The queue after an operation was put into it.                           *)
LEMMA AppendOp ==
  ASSUME NEW q \in Seq(Messages), NEW op \in Ops, ~HasOp(q)
  PROVE  /\ Append(q, op) \in Seq(Messages)
         /\ HasOp(Append(q, op)) /\ AtMostOneOp(Append(q, op))
         /\ AskedOnly(Append(q, op), op)
<1> DEFINE r == Append(q, op)
<1>1. r \in Seq(Messages) /\ Len(r) = Len(q) + 1 /\ Len(q) \in Nat
  BY DEF Ops, Messages
<1>2. \A i \in 1..Len(q) : r[i] = q[i]
  OBVIOUS
<1>3. r[Len(q) + 1] = op
  OBVIOUS
<1>4. \A i \in 1..Len(r) : r[i] \in Ops => i = Len(q) + 1
  BY <1>1, <1>2 DEF HasOp
<1>5. Len(q) + 1 \in 1..Len(r)
  BY <1>1
<1> HIDE DEF r
<1> QED
  BY <1>1, <1>3, <1>4, <1>5 DEF r, HasOp, AtMostOneOp, AskedOnly

(* The queue after its first message was taken.                            *)
LEMMA TailOfQueue ==
  ASSUME NEW q \in Seq(Messages), q # <<>>, NEW op, AtMostOneOp(q), AskedOnly(q, op)
  PROVE  /\ Tail(q) \in Seq(Messages) /\ AtMostOneOp(Tail(q)) /\ AskedOnly(Tail(q), op)
         /\ Head(q) \in Ops => HasOp(q) /\ ~HasOp(Tail(q)) /\ Head(q) = op
         /\ Head(q) \notin Ops => (HasOp(Tail(q)) <=> HasOp(q))
<1> DEFINE r == Tail(q)
<1>1. r \in Seq(Messages) /\ Len(r) = Len(q) - 1 /\ Len(q) \in Nat \ {0}
  OBVIOUS
<1>2. \A i \in 1..Len(r) : r[i] = q[i + 1] /\ i + 1 \in 1..Len(q)
  BY <1>1
<1>3. Head(q) = q[1] /\ 1 \in 1..Len(q)
  BY <1>1
<1>4. \A i \in 1..Len(q) : i = 1 \/ (i - 1 \in 1..Len(r) /\ r[i - 1] = q[i])
  BY <1>1
<1> HIDE DEF r
<1>5. AtMostOneOp(r)
  <2> SUFFICES ASSUME NEW i \in 1..Len(r), NEW j \in 1..Len(r), r[i] \in Ops, r[j] \in Ops
               PROVE  i = j
    BY DEF AtMostOneOp
  <2>1. i + 1 = j + 1
    BY <1>2 DEF AtMostOneOp
  <2> QED
    BY <2>1, <1>1
<1>6. AskedOnly(r, op)
  BY <1>2 DEF AskedOnly
<1>7. Head(q) \in Ops => HasOp(q) /\ ~HasOp(r) /\ Head(q) = op
  <2> SUFFICES ASSUME Head(q) \in Ops PROVE HasOp(q) /\ ~HasOp(r) /\ Head(q) = op
    OBVIOUS
  <2>1. HasOp(q) /\ Head(q) = op
    BY <1>3 DEF HasOp, AskedOnly
  <2>2. \A i \in 1..Len(r) : r[i] \notin Ops
    <3> SUFFICES ASSUME NEW i \in 1..Len(r), r[i] \in Ops PROVE FALSE
      OBVIOUS
    <3>1. i + 1 = 1
      BY <1>2, <1>3 DEF AtMostOneOp
    <3> QED
      BY <3>1, <1>1
  <2> QED
    BY <2>1, <2>2 DEF HasOp
<1>8. Head(q) \notin Ops => (HasOp(r) <=> HasOp(q))
  BY <1>2, <1>3, <1>4 DEF HasOp
<1> QED
  BY <1>1, <1>5, <1>6, <1>7, <1>8 DEF r

-----------------------------------------------------------------------------
(* The steps that have no part in an operation.                            *)

(* A step that leaves the radio, the coexistence task and the operations   *)
(* where they are keeps all that is known of them.                         *)
LEMMA PlainStep ==
  ASSUME IInv, UNCHANGED <<coex, radio, suspended>>,
         app' = app \/ (~OpRuns /\ ~OpRuns'),
         HasOp(appq') <=> HasOp(appq), AtMostOneOp(appq'), AskedOnly(appq', coex.asks)
  PROVE  OneOperation' /\ RadioKnown' /\ StateMatches'
<1>1. OneOperation'
  BY DEF IInv, OneOperation, OpQueued, OpRuns, OpDone
<1>2. RadioKnown'
  BY DEF IInv, RadioKnown, OpRuns
<1>3. StateMatches'
  BY DEF IInv, StateMatches
<1> QED
  BY <1>1, <1>2, <1>3

(* A step that leaves the queue alone as well.                             *)
LEMMA QuietStep ==
  ASSUME IInv, UNCHANGED <<coex, radio, suspended, app, appq>>
  PROVE  OneOperation' /\ RadioKnown' /\ StateMatches'
<1>1. HasOp(appq') <=> HasOp(appq)
  OBVIOUS
<1>2. AtMostOneOp(appq') /\ AskedOnly(appq', coex.asks)
  BY DEF IInv, OneOperation, RadioKnown
<1> QED
  BY <1>1, <1>2, PlainStep

(* The same for the queue of the application task as it is.                *)
LEMMA QueueSteps ==
  ASSUME IInv
  PROVE  /\ \A m \in Messages \ Ops :
              /\ Append(appq, m) \in Seq(Messages)
              /\ HasOp(Append(appq, m)) <=> HasOp(appq)
              /\ AtMostOneOp(Append(appq, m)) /\ AskedOnly(Append(appq, m), coex.asks)
         /\ appq # <<>> =>
              /\ Tail(appq) \in Seq(Messages)
              /\ AtMostOneOp(Tail(appq)) /\ AskedOnly(Tail(appq), coex.asks)
              /\ Head(appq) \in Ops => HasOp(appq) /\ ~HasOp(Tail(appq)) /\ Head(appq) = coex.asks
              /\ Head(appq) \notin Ops => (HasOp(Tail(appq)) <=> HasOp(appq))
<1>1. appq \in Seq(Messages) /\ AtMostOneOp(appq) /\ AskedOnly(appq, coex.asks)
  BY DEF IInv, TypeOK, OneOperation, RadioKnown
<1> QED
  BY <1>1, AppendMessage, TailOfQueue

(* bt_coex_post_event keeps the queue within its length.                   *)
LEMMA PostTypes ==
  ASSUME TypeOK, NEW e \in Events \cup {"bt_connected", "bt_disconnected"}, Post(e)
  PROVE  /\ coexq' \in Seq(Events \cup {"bt_connected", "bt_disconnected"})
         /\ Len(coexq') <= QueueLen /\ dropped' \in BOOLEAN
<1> DEFINE E == Events \cup {"bt_connected", "bt_disconnected"}
<1>1. coexq \in Seq(E) /\ Len(coexq) <= QueueLen /\ QueueLen \in Nat /\ dropped \in BOOLEAN
  BY BtCoexAssumption DEF TypeOK
<1>2. e \in E
  OBVIOUS
<1> HIDE DEF E
<1>3. CASE Len(coexq) < QueueLen
  <2>1. coexq' = Append(coexq, e) /\ dropped' = dropped
    BY <1>3 DEF Post
  <2>2. coexq' \in Seq(E) /\ Len(coexq') = Len(coexq) + 1 /\ Len(coexq) \in Nat
    BY <2>1, <1>1, <1>2
  <2>3. Len(coexq') <= QueueLen
    BY <2>2, <1>1, <1>3
  <2> QED
    BY <2>1, <2>2, <2>3, <1>1 DEF E
<1>4. CASE ~(Len(coexq) < QueueLen)
  <2>1. coexq' = coexq /\ dropped' = TRUE
    BY <1>4 DEF Post
  <2> QED
    BY <2>1, <1>1 DEF E
<1> QED
  BY <1>3, <1>4

(* A task's place in the telling of an event.                              *)
LEMMA TellTypes ==
  ASSUME TypeOK, NEW c \in Clients
  PROVE  /\ rtsp[c].at # "quiet" => rtsp[c].event \in Events
         /\ \A t \in Tellings : [rtsp EXCEPT ![c] = t] \in [Clients -> Tellings]
         /\ \A s \in {"none", "attached", "playing", "ending"} :
              [session EXCEPT ![c] = s] \in [Clients -> {"none", "attached", "playing", "ending"}]
<1>1. rtsp \in [Clients -> Tellings] /\ session \in [Clients -> {"none", "attached", "playing", "ending"}]
  BY DEF TypeOK
<1>2. rtsp[c].at # "quiet" => rtsp[c].event \in Events
  <2>1. rtsp[c] \in Tellings
    BY <1>1
  <2> QED
    BY <2>1 DEF Tellings, Quiet
<1>3. \A t \in Tellings : [rtsp EXCEPT ![c] = t] \in [Clients -> Tellings]
  BY <1>1
<1>4. \A s \in {"none", "attached", "playing", "ending"} :
        [session EXCEPT ![c] = s] \in [Clients -> {"none", "attached", "playing", "ending"}]
  BY <1>1
<1> QED
  BY <1>2, <1>3, <1>4

(* The phone pages, connects and leaves.                                   *)
THEOREM PhoneKeeps == IInv /\ (Page \/ Connects \/ Leaves) => IInv'
<1> SUFFICES ASSUME IInv, Page \/ Connects \/ Leaves PROVE IInv'
  OBVIOUS
<1>1. CASE Page
  <2>1. TypeOK'
    BY <1>1 DEF Page, IInv, TypeOK, Spend, flags, airplay, services, network
  <2>2. UNCHANGED <<coex, radio, suspended, app, appq>>
    BY <1>1 DEF Page, flags
  <2> QED
    BY <2>1, <2>2, QuietStep DEF IInv
<1>2. CASE Connects \/ Leaves
  <2>1. PICK m \in Messages \ Ops : appq' = Append(appq, m)
    BY <1>2 DEF Connects, Leaves, Messages, Ops
  <2>2. TypeOK'
    BY <1>2, <2>1, QueueSteps DEF Connects, Leaves, IInv, TypeOK, flags, airplay, services, network
  <2>3. UNCHANGED <<coex, radio, suspended>> /\ app' = app
    BY <1>2 DEF Connects, Leaves, flags
  <2> QED
    BY <2>1, <2>2, <2>3, QueueSteps, PlainStep DEF IInv
<1> QED
  BY <1>1, <1>2

(* A client begins or ends a session, and tells of it.                     *)
THEOREM ClientKeeps ==
  ASSUME NEW c \in Clients, IInv, Client(c) \/ Detach(c) \/ RtspStep(c)
  PROVE  IInv'
<1> DEFINE S == [Clients -> {"none", "attached", "playing", "ending"}]
<1>1. UNCHANGED <<coex, radio, suspended, app, appq>>
  BY DEF Client, Detach, RtspStep, Ended, Ends, Check, Show, PostEvent, ClientRest, TellRest, stack, flags
<1>2. TypeOK
  BY DEF IInv
<1>3. CASE Client(c) \/ Detach(c) \/ Ended(c)
  <2>1. PICK e \in Events, s \in {"none", "attached", "playing", "ending"} :
          Tells(c, e) /\ Becomes(c, s)
    BY <1>3 DEF Client, Detach, Ended, Ends, Events
  <2>4. [event |-> e, at |-> "check"] \in Tellings
    BY DEF Tellings
  <2>5. rtsp' \in [Clients -> Tellings] /\ session' \in S
    BY <1>2, <2>1, <2>4, TellTypes DEF Becomes, Tells
  <2>2. count' \in [{"event", "link", "failure", "outage"} -> Nat]
    BY <1>2, <1>3 DEF Client, Detach, Ended, Ends, Spend, TypeOK
  <2>3. UNCHANGED <<stack, flags, appq, app, coex, coexq, dropped, services, network, missed>>
    BY <1>3 DEF Client, Detach, Ended, Ends, ClientRest
  <2>6. TypeOK'
    BY <1>2, <2>5, <2>2, <2>3 DEF TypeOK, stack, flags, services, network
  <2> QED
    BY <1>1, <2>6, QuietStep DEF IInv
<1>4. CASE Check(c) \/ Show(c) \/ PostEvent(c)
  <2>1. PICK p \in {"quiet", "show", "post"} : GoesTo(c, p)
    BY <1>4 DEF Check, Show, PostEvent
  <2>7. rtsp[c].event \in Events
    BY <1>2, <1>4, TellTypes DEF Check, Show, PostEvent, At
  <2>8. (IF p = "quiet" THEN Quiet ELSE [event |-> rtsp[c].event, at |-> p]) \in Tellings
    BY <2>7 DEF Tellings
  <2>2. rtsp' \in [Clients -> Tellings]
    BY <1>2, <2>1, <2>8, TellTypes DEF GoesTo
  <2>3. scan' \in BOOLEAN /\ wanted' \in BOOLEAN
    BY <1>2, <1>4 DEF Check, Show, PostEvent, SetDiscoverable, TypeOK
  <2>4. /\ coexq' \in Seq(Events \cup {"bt_connected", "bt_disconnected"})
        /\ Len(coexq') <= QueueLen /\ dropped' \in BOOLEAN
    <3>1. CASE PostEvent(c)
      BY <3>1, <2>7, <1>2, PostTypes DEF PostEvent
    <3>2. CASE Check(c) \/ Show(c)
      BY <3>2, <1>2 DEF Check, Show, TypeOK
    <3> QED
      BY <1>4, <3>1, <3>2
  <2>5. TellRest
    BY <1>4 DEF Check, Show, PostEvent
  <2>6. TypeOK'
    BY <1>2, <2>2, <2>3, <2>4, <2>5 DEF TypeOK, TellRest, services, network
  <2> QED
    BY <1>1, <2>6, QuietStep DEF IInv
<1> QED
  BY <1>3, <1>4 DEF RtspStep

(* The network goes and comes, and the monitor looks at it.                *)
THEOREM NetworkKeeps == IInv /\ (NetDown \/ NetUp \/ MonitorStep) => IInv'
<1> SUFFICES ASSUME IInv, NetDown \/ NetUp \/ MonitorStep PROVE IInv'
  OBVIOUS
<1>1. UNCHANGED <<coex, radio, suspended, app, appq>>
  BY DEF NetDown, NetUp, MonitorStep, Poll, MonitorServe, MonitorMark, NetRest, stack, flags
<1>2. monitor' \in [pc : {"poll", "serve", "mark"}, had : BOOLEAN]
  <2>1. monitor \in [pc : {"poll", "serve", "mark"}, had : BOOLEAN] /\ net \in BOOLEAN
    BY DEF IInv, TypeOK
  <2>2. \A q \in {"poll", "serve", "mark"} :
          [monitor EXCEPT !.pc = q] \in [pc : {"poll", "serve", "mark"}, had : BOOLEAN]
    BY <2>1
  <2>3. \A h \in BOOLEAN :
          /\ [monitor EXCEPT !.had = h] \in [pc : {"poll", "serve", "mark"}, had : BOOLEAN]
          /\ [pc |-> "poll", had |-> h] \in [pc : {"poll", "serve", "mark"}, had : BOOLEAN]
    BY <2>1
  <2>4. \/ UNCHANGED monitor \/ monitor' = [monitor EXCEPT !.had = net]
        \/ \E q \in {"serve", "mark"} : monitor' = [monitor EXCEPT !.pc = q]
        \/ monitor' = [pc |-> "poll", had |-> TRUE]
    BY DEF NetDown, NetUp, MonitorStep, Poll, MonitorServe, MonitorMark
  <2> QED
    BY <2>1, <2>2, <2>3, <2>4
<1>3. count' \in [{"event", "link", "failure", "outage"} -> Nat]
  BY DEF NetDown, NetUp, MonitorStep, Poll, MonitorServe, MonitorMark, Spend, IInv, TypeOK
<1>4. /\ net' \in BOOLEAN /\ missed' \in BOOLEAN
      /\ started' \in BOOLEAN /\ server' \in BOOLEAN /\ aborted' \in BOOLEAN
  BY DEF NetDown, NetUp, MonitorStep, Poll, MonitorServe, MonitorMark, Serve, Mark, services, IInv, TypeOK
<1>5. NetRest
  BY DEF NetDown, NetUp, MonitorStep, Poll, MonitorServe, MonitorMark
<1>6. TypeOK'
  BY <1>2, <1>3, <1>4, <1>5 DEF NetRest, IInv, TypeOK, stack, flags, airplay
<1> QED
  BY <1>1, <1>6, QuietStep DEF IInv

-----------------------------------------------------------------------------
(* The steps of bt_app_task.                                               *)

PlainApp ==
  Connected \/ StopServer \/ Stopped \/ TellConnected \/ Disconnected \/ Gone \/ TellGone
  \/ AppServe \/ AppMark

(* The application task outside the operations.                            *)
THEOREM PlainAppKeeps == IInv /\ PlainApp => IInv'
<1> SUFFICES ASSUME IInv, PlainApp PROVE IInv'
  OBVIOUS
<1> USE DEF PlainApp
<1>1. UNCHANGED <<coex, radio, suspended>> /\ ~OpRuns /\ ~OpRuns'
  BY DEF Connected, StopServer, Stopped, TellConnected, Disconnected, Gone, TellGone, AppServe, AppMark,
         Takes, App, Rest, SetDiscoverable, stack, flags, OpRuns
<1>2. \/ UNCHANGED appq
      \/ appq # <<>> /\ Head(appq) \notin Ops /\ appq' = Tail(appq)
  BY DEF Connected, StopServer, Stopped, TellConnected, Disconnected, Gone, TellGone, AppServe, AppMark,
         Takes, Ops
<1>3. /\ HasOp(appq') <=> HasOp(appq)
      /\ AtMostOneOp(appq') /\ AskedOnly(appq', coex.asks) /\ appq' \in Seq(Messages)
  <2>1. CASE UNCHANGED appq
    BY <2>1 DEF IInv, TypeOK, OneOperation, RadioKnown
  <2>2. CASE appq # <<>> /\ Head(appq) \notin Ops /\ appq' = Tail(appq)
    BY <2>2, QueueSteps
  <2> QED
    BY <1>2, <2>1, <2>2
<1>4. /\ coexq' \in Seq(Events \cup {"bt_connected", "bt_disconnected"})
      /\ Len(coexq') <= QueueLen /\ dropped' \in BOOLEAN
  <2>1. \/ UNCHANGED <<coexq, dropped>>
        \/ \E e \in Events \cup {"bt_connected", "bt_disconnected"} : Post(e)
    BY DEF Connected, StopServer, Stopped, TellConnected, Disconnected, Gone, TellGone, AppServe, AppMark, Events
  <2> QED
    BY <2>1, PostTypes DEF IInv, TypeOK
<1>5. session' \in [Clients -> {"none", "attached", "playing", "ending"}] /\ UNCHANGED rtsp
  <2>1. session \in [Clients -> {"none", "attached", "playing", "ending"}]
    BY DEF IInv, TypeOK
  <2>2. CASE StopServer
    BY <2>1, <2>2 DEF StopServer
  <2>3. CASE ~StopServer
    BY <2>1, <2>3 DEF Connected, Stopped, TellConnected, Disconnected, Gone, TellGone, AppServe, AppMark,
                      Rest, airplay
  <2> QED
    BY <2>2, <2>3
<1>6. UNCHANGED <<network, count, link, coex, radio, suspended>>
  BY <1>1 DEF Connected, StopServer, Stopped, TellConnected, Disconnected, Gone, TellGone, AppServe, AppMark,
         Rest, stack, SetDiscoverable
<1>7. scan' \in BOOLEAN /\ wanted' \in BOOLEAN /\ connected' \in BOOLEAN
  BY DEF Connected, StopServer, Stopped, TellConnected, Disconnected, Gone, TellGone, AppServe, AppMark,
         stack, flags, SetDiscoverable, IInv, TypeOK
<1>8. started' \in BOOLEAN /\ server' \in BOOLEAN /\ aborted' \in BOOLEAN /\ missed' \in BOOLEAN
  BY DEF Connected, StopServer, Stopped, TellConnected, Disconnected, Gone, TellGone, AppServe, AppMark,
         services, Serve, Mark, IInv, TypeOK
<1>9. app' \in {"idle", "stop", "stopped", "told", "gone", "gone2", "serve", "mark"}
  BY DEF Connected, StopServer, Stopped, TellConnected, Disconnected, Gone, TellGone, AppServe, AppMark,
         Takes, App
<1>10. TypeOK'
  BY <1>3, <1>4, <1>5, <1>6, <1>7, <1>8, <1>9 DEF IInv, TypeOK, network
<1>11. OneOperation' /\ RadioKnown' /\ StateMatches'
  BY <1>1, <1>3, PlainStep
<1> QED
  BY <1>10, <1>11 DEF IInv

(* What the steps of an operation leave alone.                             *)
LEMMA OpTypes ==
  ASSUME TypeOK, OpRest, UNCHANGED <<wanted, connected>>, UNCHANGED count \/ Fails,
         scan' \in BOOLEAN, suspended' \in BOOLEAN, link' \in {"none", link},
         radio' \in {"up", "torn", "off", "dead"}, appq' \in Seq(Messages),
         app' \in {"idle", "deinit", "disable", "register"},
         UNCHANGED coex \/ \E r \in {"ok", "refused", "failed"} : Result(r)
  PROVE  TypeOK'
<1>1. coex' \in [state : States, asks : {"nothing", "suspend", "resume"},
                result : {"none", "ok", "refused", "failed"}]
  BY DEF TypeOK, Result
<1>2. count' \in [{"event", "link", "failure", "outage"} -> Nat]
  BY DEF TypeOK, Fails, Spend
<1>3. UNCHANGED <<coexq, dropped, airplay, services, network, missed>>
  BY DEF OpRest
<1> QED
  BY <1>1, <1>2, <1>3 DEF TypeOK, airplay, services, network

(* An operation that runs on, or is done.                                  *)
LEMMA OpStep ==
  ASSUME IInv, coex.asks \in Ops, ~HasOp(appq'),
         \/ app' \in {"deinit", "disable", "register"} /\ UNCHANGED coex /\ coex.result = "none"
         \/ app' = "idle" /\ \E r \in {"ok", "refused", "failed"} : Result(r),
         suspended' <=> radio' = "off" /\ app' # "register",
         app' = "register" => radio' = "off" /\ coex.asks = "resume",
         app' \in {"deinit", "disable"} => ~suspended' /\ coex.asks = "suspend",
         coex'.result # "none" /\ coex.asks = "suspend" => (suspended' <=> coex'.result = "ok"),
         coex'.result # "none" /\ coex.asks = "resume" => (suspended' <=> coex'.result # "ok"),
         radio' = "torn" => app' = "disable"
  PROVE  OneOperation' /\ RadioKnown' /\ StateMatches'
<1>1. coex'.asks = coex.asks /\ coex'.asks # "nothing"
  BY DEF Result, IInv, TypeOK, Ops
<1>2. app' = "idle" => coex'.result # "none"
  BY DEF Result, IInv, TypeOK
<1>3. app' # "idle" => coex'.result = "none"
  OBVIOUS
<1>4. AtMostOneOp(appq') /\ AskedOnly(appq', coex'.asks)
  BY DEF HasOp, AtMostOneOp, AskedOnly
<1>5. OneOperation'
  BY <1>1, <1>2, <1>3, <1>4 DEF OneOperation, OpQueued, OpRuns, OpDone
<1>6. RadioKnown'
  BY <1>1, <1>4 DEF RadioKnown
<1>7. StateMatches'
  BY <1>1 DEF StateMatches
<1> QED
  BY <1>5, <1>6, <1>7

(* The operations on the radio, failures and rollbacks included.           *)
THEOREM OpKeeps == IInv /\ (Suspend \/ Deinit \/ Disable \/ Resume \/ Register) => IInv'
<1> SUFFICES ASSUME IInv, Suspend \/ Deinit \/ Disable \/ Resume \/ Register PROVE IInv'
  OBVIOUS
<1>1. TypeOK /\ scan \in BOOLEAN /\ wanted \in BOOLEAN /\ suspended \in BOOLEAN
      /\ radio \in {"up", "torn", "off", "dead"} /\ appq \in Seq(Messages)
      /\ coex \in [state : States, asks : {"nothing", "suspend", "resume"},
                   result : {"none", "ok", "refused", "failed"}]
  BY DEF IInv, TypeOK
<1>2. /\ suspended <=> radio = "off" /\ app # "register"
      /\ app = "register" => radio = "off" /\ coex.asks = "resume"
      /\ app \in {"deinit", "disable"} => ~suspended /\ coex.asks = "suspend"
      /\ radio = "torn" => app = "disable"
      /\ OpRuns => ~HasOp(appq) /\ coex.result = "none"
      /\ HasOp(appq) => coex.result = "none"
  BY DEF IInv, RadioKnown, OneOperation, OpQueued, OpDone
<1>3. CASE Suspend
  <2>1. /\ app = "idle" /\ appq' = Tail(appq) /\ ~HasOp(appq') /\ coex.asks = "suspend"
        /\ coex.result = "none" /\ appq' \in Seq(Messages)
    BY <1>2, <1>3, QueueSteps DEF Suspend, Takes, Ops
  <2>2. UNCHANGED <<radio, link, suspended, wanted, connected, count>> /\ OpRest
    BY <1>3 DEF Suspend, flags
  <2>3. \/ suspended /\ Result("ok") /\ app' = "idle" /\ UNCHANGED scan
        \/ ~suspended /\ Result("refused") /\ app' = "idle" /\ UNCHANGED scan
        \/ ~suspended /\ scan' = FALSE /\ app' = "deinit" /\ UNCHANGED coex
    BY <1>3 DEF Suspend
  <2>4. TypeOK'
    BY <1>1, <2>1, <2>2, <2>3, OpTypes
  <2>5. coex'.result # "none" => (suspended' <=> coex'.result = "ok")
    BY <1>1, <2>1, <2>2, <2>3 DEF Result
  <2>6. OneOperation' /\ RadioKnown' /\ StateMatches'
    BY <1>2, <2>1, <2>2, <2>3, <2>5, OpStep DEF Ops
  <2> QED
    BY <2>4, <2>6 DEF IInv
<1>4. CASE Deinit
  <2>1. app = "deinit" /\ app' = "disable" /\ coex.asks = "suspend" /\ coex.result = "none" /\ ~suspended
    BY <1>2, <1>4 DEF Deinit, App, OpRuns
  <2>2. UNCHANGED <<scan, wanted, connected, suspended, coex, count>> /\ OpRest /\ link' = "none"
    BY <1>4 DEF Deinit, flags
  <2>3. radio' \in {"torn", "dead"}
    BY <1>1, <1>2, <1>4, <2>1 DEF Deinit
  <2>4. ~HasOp(appq') /\ appq' \in Seq(Messages)
    <3>1. ~HasOp(appq)
      BY <1>2, <2>1 DEF OpRuns
    <3>2. appq' = appq \/ appq' = Append(appq, "disconnected")
      BY <1>4 DEF Deinit
    <3>3. "disconnected" \in Messages \ Ops
      BY DEF Messages, Ops
    <3> QED
      BY <1>1, <3>1, <3>2, <3>3, QueueSteps
  <2>5. TypeOK'
    BY <1>1, <2>1, <2>2, <2>3, <2>4, OpTypes
  <2>6. OneOperation' /\ RadioKnown' /\ StateMatches'
    BY <2>1, <2>2, <2>3, <2>4, OpStep DEF Ops
  <2> QED
    BY <2>5, <2>6 DEF IInv
<1>5. CASE Disable
  <2>1. app = "disable" /\ app' = "idle" /\ coex.asks = "suspend" /\ coex.result = "none" /\ ~suspended
    BY <1>2, <1>5 DEF Disable, App, OpRuns
  <2>2. UNCHANGED <<link, wanted, connected, appq>> /\ OpRest /\ ~HasOp(appq')
    BY <1>2, <1>5, <2>1 DEF Disable, OpRuns
  <2>3. /\ \/ radio' = "off" /\ suspended' = TRUE /\ Result("ok")
           \/ radio' \in {"up", "dead"} /\ suspended' = suspended
              /\ \E r \in {"refused", "failed"} : Result(r)
        /\ scan' = scan \/ scan' = wanted
        /\ UNCHANGED count \/ Fails
    <3>1. CASE radio = "torn" /\ connected /\ Restored("refused") /\ UNCHANGED <<suspended, count>>
      BY <3>1 DEF Restored
    <3>2. CASE radio' = "off" /\ suspended' = TRUE /\ Result("ok") /\ UNCHANGED <<scan, count>>
      BY <3>2
    <3>3. CASE Fails /\ Restored("failed") /\ UNCHANGED suspended
      BY <3>3 DEF Restored
    <3>4. CASE radio' = "dead" /\ (Result("failed") \/ Result("refused"))
               /\ UNCHANGED <<scan, suspended>> /\ (Fails \/ UNCHANGED count)
      BY <3>4
    <3>5. \/ radio = "torn" /\ connected /\ Restored("refused") /\ UNCHANGED <<suspended, count>>
          \/ radio' = "off" /\ suspended' = TRUE /\ Result("ok") /\ UNCHANGED <<scan, count>>
          \/ Fails /\ Restored("failed") /\ UNCHANGED suspended
          \/ Fails /\ radio' = "dead" /\ Result("failed") /\ UNCHANGED <<scan, suspended>>
          \/ radio = "dead" /\ Result("refused") /\ UNCHANGED <<radio, scan, suspended, count>>
      BY <1>5 DEF Disable
    <3>6. CASE radio = "dead" /\ Result("refused") /\ UNCHANGED <<radio, scan, suspended, count>>
      BY <3>4, <3>6
    <3> QED
      BY <3>1, <3>2, <3>3, <3>4, <3>5, <3>6
  <2>4. TypeOK'
    BY <1>1, <2>1, <2>2, <2>3, OpTypes
  <2>5. suspended' <=> coex'.result = "ok"
    BY <1>1, <2>1, <2>3 DEF Result
  <2>6. OneOperation' /\ RadioKnown' /\ StateMatches'
    BY <2>1, <2>2, <2>3, <2>5, OpStep DEF Ops
  <2> QED
    BY <2>4, <2>6 DEF IInv
<1>6. CASE Resume
  <2>1. /\ app = "idle" /\ appq' = Tail(appq) /\ ~HasOp(appq') /\ coex.asks = "resume"
        /\ coex.result = "none" /\ appq' \in Seq(Messages)
    BY <1>2, <1>6, QueueSteps DEF Resume, Takes, Ops
  <2>2. UNCHANGED <<radio, scan, link, wanted, connected>> /\ OpRest /\ (UNCHANGED count \/ Fails)
    BY <1>6 DEF Resume, stack
  <2>3. \/ ~suspended /\ Result("ok") /\ app' = "idle" /\ UNCHANGED suspended
        \/ suspended /\ Result("failed") /\ app' = "idle" /\ UNCHANGED suspended
        \/ suspended /\ suspended' = FALSE /\ app' = "register" /\ UNCHANGED coex
    BY <1>6 DEF Resume
  <2>4. TypeOK'
    BY <1>1, <2>1, <2>2, <2>3, OpTypes
  <2>5. coex'.result # "none" => (suspended' <=> coex'.result # "ok")
    BY <1>1, <2>1, <2>3 DEF Result
  <2>6. OneOperation' /\ RadioKnown' /\ StateMatches'
    BY <1>2, <2>1, <2>2, <2>3, <2>5, OpStep DEF Ops
  <2> QED
    BY <2>4, <2>6 DEF IInv
<1>7. CASE Register
  <2>1. app = "register" /\ app' = "idle" /\ coex.asks = "resume" /\ coex.result = "none" /\ ~suspended
    BY <1>2, <1>7 DEF Register, App, OpRuns
  <2>2. /\ UNCHANGED <<link, wanted, connected, suspended, appq, count>> /\ OpRest /\ ~HasOp(appq')
        /\ radio' = "up" /\ scan' = wanted /\ Result("ok")
    BY <1>2, <1>7, <2>1 DEF Register, Restored, OpRuns, flags
  <2>3. TypeOK'
    BY <1>1, <2>1, <2>2, OpTypes
  <2>4. coex'.result = "ok"
    BY <1>1, <2>2 DEF Result
  <2>5. OneOperation' /\ RadioKnown' /\ StateMatches'
    BY <2>1, <2>2, <2>4, OpStep DEF Ops
  <2> QED
    BY <2>3, <2>5 DEF IInv
<1> QED
  BY <1>3, <1>4, <1>5, <1>6, <1>7

-----------------------------------------------------------------------------
(* The steps of the coexistence task.                                      *)

(* It asks for an operation, when none is under way.                       *)
LEMMA Asking ==
  ASSUME IInv, CoexIdle, NEW op \in Ops, Asks(op), UNCHANGED <<app, radio, suspended>>
  PROVE  /\ OneOperation' /\ RadioKnown' /\ StateMatches' /\ appq' \in Seq(Messages)
         /\ coex' \in [state : States, asks : {"nothing", "suspend", "resume"},
                       result : {"none", "ok", "refused", "failed"}]
<1>1. appq \in Seq(Messages) /\ coex.asks = "nothing"
      /\ coex \in [state : States, asks : {"nothing", "suspend", "resume"},
                   result : {"none", "ok", "refused", "failed"}]
  BY DEF IInv, TypeOK, CoexIdle
<1>2. ~HasOp(appq) /\ ~OpRuns /\ coex.result = "none"
  BY <1>1 DEF IInv, OneOperation, OpQueued, OpDone
<1>3. appq' = Append(appq, op) /\ coex' = [coex EXCEPT !.asks = op]
  BY DEF Asks
<1>4. /\ appq' \in Seq(Messages) /\ HasOp(appq') /\ AtMostOneOp(appq') /\ AskedOnly(appq', op)
  BY <1>1, <1>2, <1>3, AppendOp
<1>5. coex'.asks = op /\ op # "nothing" /\ coex'.result = "none"
      /\ coex' \in [state : States, asks : {"nothing", "suspend", "resume"},
                    result : {"none", "ok", "refused", "failed"}]
  BY <1>1, <1>2, <1>3 DEF Ops
<1>6. OneOperation'
  BY <1>2, <1>4, <1>5 DEF IInv, OneOperation, OpQueued, OpRuns, OpDone
<1>7. RadioKnown'
  BY <1>2, <1>4, <1>5 DEF IInv, RadioKnown, OpRuns
<1>8. StateMatches'
  BY <1>5 DEF StateMatches
<1> QED
  BY <1>4, <1>5, <1>6, <1>7, <1>8

(* It settles in a state that fits the radio.                              *)
LEMMA Settling ==
  ASSUME IInv, CoexIdle, NEW s \in States, Settles(s), UNCHANGED <<app, radio, suspended>>,
         suspended <=> s \in {"suspended", "resume_wait"}
  PROVE  /\ OneOperation' /\ RadioKnown' /\ StateMatches' /\ appq' \in Seq(Messages)
         /\ coex' \in [state : States, asks : {"nothing", "suspend", "resume"},
                       result : {"none", "ok", "refused", "failed"}]
<1>1. appq \in Seq(Messages) /\ coex.asks = "nothing"
      /\ coex \in [state : States, asks : {"nothing", "suspend", "resume"},
                   result : {"none", "ok", "refused", "failed"}]
  BY DEF IInv, TypeOK, CoexIdle
<1>2. UNCHANGED appq /\ coex' = [coex EXCEPT !.state = s]
  BY DEF Settles
<1>3. coex'.state = s /\ coex'.asks = coex.asks /\ coex'.result = coex.result
      /\ coex' \in [state : States, asks : {"nothing", "suspend", "resume"},
                    result : {"none", "ok", "refused", "failed"}]
  BY <1>1, <1>2
<1>4. (HasOp(appq') <=> HasOp(appq)) /\ AtMostOneOp(appq') /\ AskedOnly(appq', coex.asks)
  BY <1>2 DEF IInv, OneOperation, RadioKnown
<1>5. OneOperation'
  BY <1>3, <1>4 DEF IInv, OneOperation, OpQueued, OpRuns, OpDone
<1>6. RadioKnown'
  BY <1>1, <1>3, <1>4 DEF IInv, RadioKnown
<1>7. StateMatches'
  BY <1>1, <1>3 DEF IInv, StateMatches
<1> QED
  BY <1>1, <1>2, <1>3, <1>5, <1>6, <1>7

(* The rest of the task's steps is in its queue.                           *)
LEMMA CoexTypes ==
  ASSUME TypeOK, CoexRest, appq' \in Seq(Messages),
         coex' \in [state : States, asks : {"nothing", "suspend", "resume"},
                   result : {"none", "ok", "refused", "failed"}],
         UNCHANGED coexq \/ (coexq # <<>> /\ coexq' = Tail(coexq))
  PROVE  TypeOK'
<1> DEFINE E == Events \cup {"bt_connected", "bt_disconnected"}
<1>1. coexq \in Seq(E) /\ Len(coexq) <= QueueLen /\ QueueLen \in Nat
  BY BtCoexAssumption DEF TypeOK
<1> HIDE DEF E
<1>2. coexq' \in Seq(E) /\ Len(coexq') <= QueueLen
  <2>1. CASE UNCHANGED coexq
    BY <1>1, <2>1
  <2>2. CASE coexq # <<>> /\ coexq' = Tail(coexq)
    <3>1. coexq' \in Seq(E) /\ Len(coexq') = Len(coexq) - 1 /\ Len(coexq) \in Nat
      BY <1>1, <2>2
    <3> QED
      BY <1>1, <3>1
  <2> QED
    BY <2>1, <2>2
<1>3. UNCHANGED <<stack, flags, app, dropped, airplay, services, network, count, missed>>
  BY DEF CoexRest
<1> QED
  BY <1>2, <1>3 DEF E, TypeOK, stack, flags, airplay, services, network

(* The coexistence task.                                                   *)
THEOREM CoexKeeps == IInv /\ CoexStep => IInv'
<1> SUFFICES ASSUME IInv, CoexStep PROVE IInv'
  OBVIOUS
<1>1. TypeOK /\ coex.state \in States /\ suspended \in BOOLEAN
      /\ coex \in [state : States, asks : {"nothing", "suspend", "resume"},
                   result : {"none", "ok", "refused", "failed"}]
  BY DEF IInv, TypeOK
<1>2. CoexRest /\ UNCHANGED <<app, radio, suspended>>
  BY DEF CoexStep, Handle, Timeout, Answered, CoexRest, stack, flags
<1>3. UNCHANGED coexq \/ (coexq # <<>> /\ coexq' = Tail(coexq))
  BY DEF CoexStep, Handle, Timeout, Answered
<1>4. CASE Handle \/ Timeout
  <2>1. CoexIdle
    BY <1>4 DEF Handle, Timeout
  <2>2. suspended <=> coex.state \in {"suspended", "resume_wait"}
    BY <2>1 DEF IInv, StateMatches, CoexIdle
  <2>3. \/ \E op \in Ops : Asks(op)
        \/ \E s \in States : Settles(s) /\ (suspended <=> s \in {"suspended", "resume_wait"})
    <3>1. CASE Timeout
      BY <3>1 DEF Timeout, Ops
    <3>2. CASE Handle /\ OnPlaying
      BY <2>2, <3>2 DEF OnPlaying, Ops, States
    <3>3. CASE Handle /\ OnSession
      <4>1. Settles(IF coex.state = "resume_wait" THEN "suspended" ELSE coex.state)
        BY <3>3 DEF OnSession
      <4> QED
        BY <1>1, <2>2, <4>1 DEF States
    <3>4. CASE Handle /\ OnDisconnected
      <4>1. Settles(IF coex.state \in {"suspended", "resume_wait"} THEN "resume_wait" ELSE "active")
        BY <3>4 DEF OnDisconnected
      <4> QED
        BY <1>1, <2>2, <4>1 DEF States
    <3>5. CASE Handle /\ OnBluetooth
      BY <2>2, <3>5 DEF OnBluetooth, Ops, States
    <3> QED
      BY <1>4, <3>1, <3>2, <3>3, <3>4, <3>5 DEF Handle
  <2>4. /\ OneOperation' /\ RadioKnown' /\ StateMatches' /\ appq' \in Seq(Messages)
        /\ coex' \in [state : States, asks : {"nothing", "suspend", "resume"},
                      result : {"none", "ok", "refused", "failed"}]
    BY <1>2, <2>1, <2>3, Asking, Settling
  <2>5. TypeOK'
    BY <1>1, <1>2, <1>3, <2>4, CoexTypes
  <2> QED
    BY <2>4, <2>5 DEF IInv
<1>5. CASE Answered
  <2>1. coex.result # "none" /\ ~HasOp(appq) /\ ~OpRuns /\ coex.asks \in Ops /\ UNCHANGED appq
    BY <1>1, <1>5 DEF Answered, IInv, OneOperation, OpQueued, OpDone, Ops
  <2>2. PICK s \in States : /\ coex' = [asks |-> "nothing", result |-> "none", state |-> s]
                            /\ suspended <=> s \in {"suspended", "resume_wait"}
    <3>1. CASE coex.asks = "suspend"
      <4>1. \/ coex.result = "ok" /\ suspended
                /\ coex' = [asks |-> "nothing", result |-> "none", state |-> "suspended"]
            \/ coex.result = "refused" /\ ~suspended
                /\ coex' = [asks |-> "nothing", result |-> "none", state |-> "active"]
            \/ coex.result = "failed" /\ ~suspended
                /\ coex' = [asks |-> "nothing", result |-> "none", state |-> "suspend_retry"]
        BY <1>1, <1>5, <2>1, <3>1 DEF Answered, IInv, RadioKnown
      <4> QED
        BY <4>1 DEF States
    <3>2. CASE coex.asks = "resume"
      <4>1. \/ coex.result = "ok" /\ ~suspended
                /\ coex' = [asks |-> "nothing", result |-> "none", state |-> "active"]
            \/ coex.result # "ok" /\ suspended
                /\ coex' = [asks |-> "nothing", result |-> "none", state |-> "resume_wait"]
        BY <1>1, <1>5, <2>1, <3>2 DEF Answered, IInv, RadioKnown
      <4> QED
        BY <4>1 DEF States
    <3> QED
      BY <2>1, <3>1, <3>2 DEF Ops
  <2>3. suspended <=> radio = "off"
    BY <2>1 DEF IInv, RadioKnown, OpRuns
  <2>4. coex'.asks = "nothing" /\ coex'.result = "none" /\ coex'.state = s
        /\ coex' \in [state : States, asks : {"nothing", "suspend", "resume"},
                      result : {"none", "ok", "refused", "failed"}]
    BY <2>2
  <2>5. ~HasOp(appq') /\ AtMostOneOp(appq') /\ AskedOnly(appq', coex'.asks) /\ appq' \in Seq(Messages)
    BY <1>1, <2>1 DEF HasOp, AtMostOneOp, AskedOnly, TypeOK
  <2>6. OneOperation'
    BY <1>2, <2>1, <2>4, <2>5 DEF IInv, OneOperation, OpQueued, OpRuns, OpDone
  <2>7. RadioKnown'
    BY <1>2, <2>1, <2>4, <2>5 DEF IInv, RadioKnown, OpRuns
  <2>8. StateMatches'
    BY <1>2, <2>2, <2>3, <2>4 DEF StateMatches
  <2>9. TypeOK'
    BY <1>1, <1>2, <1>3, <2>4, <2>5, CoexTypes
  <2> QED
    BY <2>6, <2>7, <2>8, <2>9 DEF IInv
<1> QED
  BY <1>4, <1>5 DEF CoexStep

-----------------------------------------------------------------------------
(* The theorems                                                            *)

(* At start-up the radio is up and nothing was asked for.                  *)
THEOREM InitHolds == Init => IInv
<1> SUFFICES ASSUME Init PROVE IInv
  OBVIOUS
<1>1. TypeOK
  <2>1. rtsp \in [Clients -> Tellings] /\ session \in [Clients -> {"none", "attached", "playing", "ending"}]
    BY DEF Init, Tellings
  <2>2. count \in [{"event", "link", "failure", "outage"} -> Nat]
    BY DEF Init
  <2>3. appq \in Seq(Messages) /\ coexq \in Seq(Events \cup {"bt_connected", "bt_disconnected"}) /\ Len(coexq) <= QueueLen
    BY BtCoexAssumption DEF Init
  <2> QED
    BY <2>1, <2>2, <2>3 DEF Init, TypeOK, States
<1>2. ~HasOp(appq) /\ AtMostOneOp(appq) /\ AskedOnly(appq, coex.asks)
  BY DEF Init, HasOp, AtMostOneOp, AskedOnly
<1>3. OneOperation
  BY <1>2 DEF Init, OneOperation, OpQueued, OpRuns, OpDone
<1>4. RadioKnown
  BY <1>2 DEF Init, RadioKnown
<1>5. StateMatches
  BY DEF Init, StateMatches
<1> QED
  BY <1>1, <1>3, <1>4, <1>5 DEF IInv

(* Every step keeps the inductive invariant.                               *)
THEOREM StepKeeps == IInv /\ [Next]_vars => IInv'
<1> SUFFICES ASSUME IInv, [Next]_vars PROVE IInv'
  OBVIOUS
<1>1. CASE Page \/ Connects \/ Leaves
  BY <1>1, PhoneKeeps
<1>2. CASE AppStep
  BY <1>2, PlainAppKeeps, OpKeeps DEF AppStep, PlainApp
<1>3. CASE CoexStep
  BY <1>3, CoexKeeps
<1>4. CASE \E c \in Clients : Client(c) \/ Detach(c) \/ RtspStep(c)
  BY <1>4, ClientKeeps
<1>5. CASE NetDown \/ NetUp \/ MonitorStep
  BY <1>5, NetworkKeeps
<1>6. CASE UNCHANGED vars
  <2>1. UNCHANGED <<stack, flags, appq, app, coex, coexq, dropped, airplay, services, network, count, missed>>
    BY <1>6 DEF vars
  <2>2. TypeOK'
    BY <2>1 DEF IInv, TypeOK, stack, flags, airplay, services, network
  <2>3. UNCHANGED <<coex, radio, suspended, app, appq>>
    BY <2>1 DEF stack, flags
  <2> QED
    BY <2>2, <2>3, QuietStep DEF IInv
<1> QED
  BY <1>1, <1>2, <1>3, <1>4, <1>5, <1>6 DEF Next

(* Every variable keeps its type, for any clients and any queue.           *)
THEOREM TypeCorrect == Spec => []TypeOK
<1>1. IInv => TypeOK
  BY DEF IInv
<1> QED
  BY <1>1, InitHolds, StepKeeps, PTL DEF Spec

(* Whenever the coexistence task is not waiting for an operation, its      *)
(* state and s_bt_suspended say of the radio what is so.                   *)
THEOREM CoexKnowsRadio == Spec => []StateMatches
<1>1. IInv => StateMatches
  BY DEF IInv
<1> QED
  BY <1>1, InitHolds, StepKeeps, PTL DEF Spec

(* At most one operation is queued, runs or is done but not yet answered,  *)
(* exactly when the task has asked for one.                                *)
THEOREM OneOperationAtATime == Spec => []OneOperation
<1>1. IInv => OneOperation
  BY DEF IInv
<1> QED
  BY <1>1, InitHolds, StepKeeps, PTL DEF Spec
=============================================================================
