---------------------------- MODULE StreamControl ----------------------------
(***************************************************************************)
(* Starting and stopping the two audio streams of main/audio: the calls of *)
(* audio_receiver.c that the RTSP tasks make (one task for each client, so *)
(* two of them while one client takes over from another), the start and    *)
(* stop of audio_stream_realtime.c and audio_stream_buffered.c, and the    *)
(* tasks these create: data and control for the realtime stream, one for   *)
(* the buffered stream.                                                    *)
(*                                                                         *)
(* All of it goes without a lock: a stream has a flag `running' that its   *)
(* tasks look at, and a task clears its handle as its last act, which      *)
(* whoever stops the stream polls for a second and then gives up.  The     *)
(* decoder, of which there is one for both streams, and the packet buffer  *)
(* are freed by the RTSP task that stops or reconfigures.                  *)
(*                                                                         *)
(* Sockets are left out but for what they do to the tasks: a receive       *)
(* returns a packet, nothing or an error at any time.                      *)
(***************************************************************************)
EXTENDS Naturals, Sequences, FiniteSets

CONSTANTS
  Rtsp,          (* RTSP tasks                                             *)
  Decoders,      (* places in the heap for a decoder                       *)
  NoDecoder,     (* receiver.decoder = NULL                                *)
  MaxRequests    (* bound of the instance                                  *)

ASSUME StreamControlAssumption ==
  NoDecoder \notin Decoders /\ MaxRequests \in Nat

Streams == {"realtime", "buffered"}
Kinds == {"data", "control", "buffered"}
KindsOf(s) == IF s = "realtime" THEN {"data", "control"} ELSE {"buffered"}
Other(s) == CHOOSE o \in Streams : o # s
StreamOf(k) == IF k = "buffered" THEN "buffered" ELSE "realtime"
Tasks == Kinds \X {1, 2}     (* two of a kind only if starts overlap       *)

VARIABLES
  stream,    (* receiver.stream                                            *)
  running,   (* running[s]: the flag of stream s                           *)
  handle,    (* the kinds whose task handle is set                         *)
  task,      (* task[t]: where task t is, "none" if there is no such task  *)
  using,     (* using[t]: the decoder t decodes with                       *)
  decoder,   (* receiver.decoder                                           *)
  heap,      (* the decoders that are allocated                            *)
  packet,    (* buffered_recv_buffer is allocated                          *)
  call,      (* call[r]: where RTSP task r is, and the calls still to make *)
  requests,  (* how many requests have come                                *)
  excused,   (* history: tasks a wait gave up on, or that were running     *)
             (* when the format was set                                    *)
  overlap,   (* history: two RTSP tasks have been in these calls at once   *)
  started    (* history: the stream the last request started, or "none"    *)

flags == <<stream, running, handle>>
memory == <<decoder, heap, packet>>
history == <<excused, overlap, started>>
vars == <<flags, memory, task, using, call, requests, history>>

Idle == [pc |-> "idle", todo |-> <<>>, on |-> "none", then |-> "none"]

Init ==
  /\ stream = "realtime" /\ running = [s \in Streams |-> FALSE] /\ handle = {}
  /\ task = [t \in Tasks |-> "none"] /\ using = [t \in Tasks |-> NoDecoder]
  /\ decoder = NoDecoder /\ heap = {} /\ packet = FALSE
  /\ call = [r \in Rtsp |-> Idle] /\ requests = 0
  /\ excused = {} /\ overlap = FALSE /\ started = "none"

Lives(t) == task[t] # "none"
Living(s) == {t \in Tasks : Lives(t) /\ StreamOf(t[1]) = s}
Held(s) == handle \cap KindsOf(s) # {}

-----------------------------------------------------------------------------
(* The tasks of the streams *)

OnlyTask == UNCHANGED <<flags, memory, call, requests, history>>

(* A task clears its handle, whichever task that now names, and ends.      *)
Exit(t) ==
  /\ task' = [task EXCEPT ![t] = "none"] /\ using' = [using EXCEPT ![t] = NoDecoder]
  /\ handle' = handle \ {t[1]}
  /\ excused' = excused \ {t}
  /\ UNCHANGED <<stream, running, memory, call, requests, overlap, started>>

Goes(t, to) ==
  /\ task' = [task EXCEPT ![t] = to] /\ using' = [using EXCEPT ![t] = NoDecoder]
  /\ OnlyTask

(* Mutant: the flag is not looked at with a client on the line. *)
OnwardClient(t, to) ==
  IF running[StreamOf(t[1])] \/ to = "receive" THEN Goes(t, to) ELSE Exit(t)

(* while (stream->running): looked at before each receive and accept.      *)
Onward(t, to) == IF running[StreamOf(t[1])] THEN Goes(t, to) ELSE Exit(t)

(* An error of its socket ends a task of the realtime stream, though the   *)
(* stream be running.                                                      *)
Fails(t) == t[1] # "buffered" /\ task[t] = "receive" /\ Exit(t)

(* Nothing came, or what came needs no decoder.                            *)
Skips(t) == task[t] = "receive" /\ Onward(t, "receive")

(* The buffered stream goes back to accept when its connection ends, or    *)
(* stays silent while the stream plays; a paused one waits silence out.    *)
Disconnected(t) ==
  t[1] = "buffered" /\ task[t] \in {"accept", "receive"} /\ Onward(t, "accept")

(* A connection: the packet buffer is allocated unless there is one.       *)
Accept(t) ==
  /\ task[t] = "accept" /\ packet' = TRUE
  /\ task' = [task EXCEPT ![t] = "receive"]
  /\ UNCHANGED <<flags, decoder, heap, using, call, requests, history>>

(* Mutant: the decoder is not asked for. *)
DecodesUnchecked(t) ==
  /\ t[1] # "control" /\ task[t] = "receive"
  /\ task' = [task EXCEPT ![t] = "decode"] /\ using' = [using EXCEPT ![t] = decoder]
  /\ OnlyTask

(* audio_stream_process_accepted_frame drops a frame without a decoder.    *)
Decodes(t) ==
  /\ t[1] # "control" /\ task[t] = "receive" /\ decoder # NoDecoder
  /\ task' = [task EXCEPT ![t] = "decode"] /\ using' = [using EXCEPT ![t] = decoder]
  /\ OnlyTask

Decoded(t) == task[t] = "decode" /\ Onward(t, "receive")

TaskStep(t) ==
  \/ Fails(t) \/ Skips(t) \/ Disconnected(t) \/ Accept(t)
  \/ Decodes(t) \/ Decoded(t)

-----------------------------------------------------------------------------
(* The requests of a client, as the calls they make.                       *)

Call(name) == [name |-> name, on |-> "none"]
SetType(s) == [name |-> "type", on |-> s]
Start(s) == <<SetType(s), Call(IF s = "buffered" THEN "keep" ELSE "restart")>>

Announce == <<Call("format")>>
SetupTransport == <<Call("format"), SetType("realtime")>>
Record == <<SetType("realtime"), Call("start")>>
SetupRealtime == <<SetType("realtime"), Call("format")>> \o Record
SetupBuffered == <<SetType("buffered"), Call("format")>> \o Start("buffered")
                   \o <<SetType("buffered"), Call("start")>>
Teardown == <<Call("stop")>>      (* also when the client has gone         *)

Programs == {Announce, SetupTransport, Record, SetupRealtime, SetupBuffered, Teardown}

At(r, l) == call[r].pc = l
To(r, l) == call' = [call EXCEPT ![r].pc = l]

(* The first of the calls still to make; without any, the request is       *)
(* answered.                                                               *)
Load(todo) ==
  IF todo = <<>> THEN Idle
  ELSE [Idle EXCEPT !.pc = Head(todo).name, !.todo = Tail(todo), !.on = Head(todo).on]
Return(r) == call' = [call EXCEPT ![r] = Load(@.todo)]

(* Once calls have overlapped nothing is excused any more: nothing of what *)
(* excuses bear on is claimed then.                                        *)
Excuse(ts) == excused' = IF overlap THEN {} ELSE excused \cup ts

Request(r) ==
  /\ At(r, "idle") /\ requests < MaxRequests
  /\ \E p \in Programs : call' = [call EXCEPT ![r] = Load(p)]
  /\ requests' = requests + 1
  /\ overlap' = (overlap \/ \E o \in Rtsp \ {r} : ~At(o, "idle"))
  /\ started' = "none" /\ excused' = IF overlap' THEN {} ELSE excused
  /\ UNCHANGED <<flags, memory, task, using>>

OnlyCall == UNCHANGED <<memory, task, using, requests, history>>

-----------------------------------------------------------------------------
(* Stopping a stream *)

(* realtime_stop, buffered_stop: nothing is done for a stream that neither *)
(* runs nor has a task; `then' is where the caller goes on.                *)
Halt(r, s, then) ==
  IF running[s] \/ Held(s)
  THEN /\ running' = [running EXCEPT ![s] = FALSE]
       /\ call' = [call EXCEPT ![r] = [pc |-> "wait", todo |-> @.todo, on |-> s, then |-> then]]
  ELSE To(r, then) /\ UNCHANGED running

(* Mutant: the buffer is freed whether or not the task has ended. *)
WaitFrees(r) ==
  /\ At(r, "wait")
  /\ Excuse(IF Held(call[r].on) THEN Living(call[r].on) ELSE {})
  /\ packet' = (packet /\ call[r].on # "buffered")
  /\ To(r, call[r].then)
  /\ UNCHANGED <<flags, decoder, heap, task, using, requests, overlap, started>>

(* Mutant: the task is waited for as long as it takes. *)
WaitForEver(r) ==
  /\ At(r, "wait") /\ ~Held(call[r].on)
  /\ packet' = (packet /\ call[r].on # "buffered")
  /\ To(r, call[r].then)
  /\ UNCHANGED <<flags, decoder, heap, task, using, requests, history>>

(* The wait ends when the handles are clear, or after a second without     *)
(* that; in the second case the packet buffer is kept.                     *)
Wait(r) ==
  /\ At(r, "wait")
  /\ IF Held(call[r].on)
     THEN Excuse(Living(call[r].on)) /\ UNCHANGED packet
     ELSE packet' = (packet /\ call[r].on # "buffered") /\ Excuse({})
  /\ To(r, call[r].then)
  /\ UNCHANGED <<flags, decoder, heap, task, using, requests, overlap, started>>

(* audio_receiver_stop: both streams, then the decoder.                    *)
Stop(r) ==
  /\ At(r, "stop") /\ Halt(r, "realtime", "stop2")
  /\ UNCHANGED <<stream, handle>> /\ OnlyCall

StopBuffered(r) ==
  /\ At(r, "stop2") /\ Halt(r, "buffered", "destroy")
  /\ UNCHANGED <<stream, handle>> /\ OnlyCall

Destroy(r) ==
  /\ At(r, "destroy") /\ heap' = heap \ {decoder} /\ decoder' = NoDecoder /\ Return(r)
  /\ UNCHANGED <<flags, packet, task, using, requests, history>>

-----------------------------------------------------------------------------
(* audio_receiver_set_format and audio_receiver_set_stream_type *)

(* The decoder of a stream that runs is replaced under its task.           *)
Format(r) ==
  /\ At(r, "format") /\ heap' = heap \ {decoder} /\ decoder' = NoDecoder
  /\ Excuse({t \in Tasks : Lives(t)})
  /\ To(r, "format2")
  /\ UNCHANGED <<flags, packet, task, using, requests, overlap, started>>

FormatCreates(r) ==
  /\ At(r, "format2") /\ Return(r)
  /\ \/ \E d \in Decoders \ heap : decoder' = d /\ heap' = heap \cup {d}
     \/ decoder' = NoDecoder /\ UNCHANGED heap
  /\ UNCHANGED <<flags, packet, task, using, requests, history>>

(* Mutant: the other stream goes on. *)
TypeOnly(r) ==
  /\ At(r, "type") /\ stream' = call[r].on /\ Return(r)
  /\ UNCHANGED <<running, handle>> /\ OnlyCall

(* Another stream than the current one stops the current one if it runs.   *)
Type(r) ==
  /\ At(r, "type")
  /\ IF stream # call[r].on /\ running[stream]
     THEN Halt(r, stream, "typed") /\ UNCHANGED stream
     ELSE stream' = call[r].on /\ Return(r) /\ UNCHANGED running
  /\ UNCHANGED handle /\ OnlyCall

Typed(r) ==
  /\ At(r, "typed") /\ stream' = Other(call[r].on) /\ Return(r)
  /\ UNCHANGED <<running, handle>> /\ OnlyCall

-----------------------------------------------------------------------------
(* Starting a stream *)

(* audio_receiver_start_stream looks at the type of the current stream.    *)
StartStream(r) ==
  /\ At(r, "start")
  /\ call' = [call EXCEPT ![r] = Load(Start(stream) \o @.todo)]
  /\ UNCHANGED flags /\ OnlyCall

(* audio_receiver_start stops a stream that runs, to start it fresh.       *)
Restart(r) ==
  /\ At(r, "restart")
  /\ IF running[stream] THEN Halt(r, stream, "begin") ELSE To(r, "begin") /\ UNCHANGED running
  /\ UNCHANGED <<stream, handle>> /\ OnlyCall

Granted(r, s) ==
  /\ Return(r)
  /\ started' = IF overlap THEN "none" ELSE s
Refused(r) == call' = [call EXCEPT ![r] = Idle] /\ UNCHANGED started
Goto(r, l, s) ==
  /\ call' = [call EXCEPT ![r] = [Idle EXCEPT !.pc = l, !.todo = call[r].todo, !.on = s]]
  /\ UNCHANGED started
Off(s) == running' = [running EXCEPT ![s] = FALSE]

OnlyStart == UNCHANGED <<stream, memory, using, requests, excused, overlap>>

(* audio_receiver_start_buffered leaves a stream that runs as it is.       *)
Keep(r) ==
  /\ At(r, "keep")
  /\ IF running[stream] THEN Granted(r, stream) ELSE Goto(r, "begin", stream)
  /\ UNCHANGED <<running, handle, task>> /\ OnlyStart

(* Without its sockets a stream does not start.                            *)
Bind(r, s) ==
  \/ Refused(r) /\ UNCHANGED running
  \/ running' = [running EXCEPT ![s] = TRUE] /\ Goto(r, "create", s)

(* Mutant: a task of before is not waited for. *)
BeginAtOnce(r) ==
  /\ At(r, "begin")
  /\ IF running[stream] THEN Granted(r, stream) /\ UNCHANGED running ELSE Bind(r, stream)
  /\ UNCHANGED <<handle, task>> /\ OnlyStart

(* realtime_start, buffered_start: a task that still ends is waited for.   *)
Begin(r) ==
  /\ At(r, "begin")
  /\ IF running[stream] THEN Granted(r, stream) /\ UNCHANGED running
     ELSE IF Held(stream) THEN Goto(r, "ending", stream) /\ UNCHANGED running
     ELSE Bind(r, stream)
  /\ UNCHANGED <<handle, task>> /\ OnlyStart

Ending(r) ==
  /\ At(r, "ending")
  /\ IF Held(call[r].on) THEN Refused(r) /\ UNCHANGED running ELSE Bind(r, call[r].on)
  /\ UNCHANGED <<handle, task>> /\ OnlyStart

(* xTaskCreate sets the handle before the task can run.                    *)
Creates(k) ==
  LET t == <<k, IF Lives(<<k, 1>>) THEN 2 ELSE 1>>
  IN /\ ~Lives(t)
     /\ task' = [task EXCEPT ![t] = IF k = "buffered" THEN "accept" ELSE "receive"]
     /\ handle' = handle \cup {k}
CreatesNot(k) == handle' = handle \ {k} /\ UNCHANGED task
First(s) == IF s = "realtime" THEN "data" ELSE "buffered"

Create(r) ==
  /\ At(r, "create")
  /\ \/ Creates(First(call[r].on)) /\ Goto(r, "created", call[r].on) /\ UNCHANGED running
     \/ CreatesNot(First(call[r].on)) /\ Refused(r) /\ Off(call[r].on)
  /\ OnlyStart

(* A task that has ended already counts as not created.                    *)
Created(r) ==
  /\ At(r, "created")
  /\ IF First(call[r].on) \notin handle THEN Off(call[r].on) /\ Refused(r)
     ELSE /\ UNCHANGED running
          /\ IF call[r].on = "buffered" THEN Granted(r, "buffered")
             ELSE Goto(r, "control", "realtime")
  /\ UNCHANGED <<handle, task>> /\ OnlyStart

(* Without its control task the realtime stream is stopped again.          *)
Abort(r) ==
  /\ Off("realtime") /\ UNCHANGED started
  /\ call' = [call EXCEPT ![r] = [pc |-> "wait", todo |-> <<>>, on |-> "realtime", then |-> "idle"]]

Control(r) ==
  /\ At(r, "control")
  /\ \/ Creates("control") /\ Goto(r, "controlled", "realtime") /\ UNCHANGED running
     \/ CreatesNot("control") /\ Abort(r)
  /\ OnlyStart

Controlled(r) ==
  /\ At(r, "controlled")
  /\ IF "control" \in handle THEN Granted(r, "realtime") /\ UNCHANGED running ELSE Abort(r)
  /\ UNCHANGED <<handle, task>> /\ OnlyStart

-----------------------------------------------------------------------------
RtspStep(r) ==
  \/ Wait(r) \/ Stop(r) \/ StopBuffered(r) \/ Destroy(r)
  \/ Format(r) \/ FormatCreates(r) \/ Type(r) \/ Typed(r)
  \/ StartStream(r) \/ Restart(r) \/ Keep(r) \/ Begin(r) \/ Ending(r)
  \/ Create(r) \/ Created(r) \/ Control(r) \/ Controlled(r)

Next ==
  \/ \E r \in Rtsp : Request(r) \/ RtspStep(r)
  \/ \E t \in Tasks : TaskStep(t)

Spec == Init /\ [][Next]_vars

(* Every receive and every wait has a timeout, and a task that can go on   *)
(* is scheduled.                                                           *)
FairSpec ==
  /\ Spec
  /\ \A r \in Rtsp : WF_vars(RtspStep(r))
  /\ \A t \in Tasks : WF_vars(TaskStep(t))

-----------------------------------------------------------------------------
(* Properties *)

Names == {"format", "type", "start", "stop", "keep", "restart"}
Calls == {c \in [name : Names, on : Streams \cup {"none"}] : c.name = "type" => c.on \in Streams}
Places == Names \cup {"idle", "wait", "stop2", "destroy", "format2", "typed", "begin", "ending",
                     "create", "created", "control", "controlled"}

TypeOK ==
  /\ stream \in Streams /\ running \in [Streams -> BOOLEAN] /\ handle \subseteq Kinds
  /\ task \in [Tasks -> {"none", "accept", "receive", "decode"}]
  /\ using \in [Tasks -> Decoders \cup {NoDecoder}]
  /\ decoder \in Decoders \cup {NoDecoder} /\ heap \subseteq Decoders /\ packet \in BOOLEAN
  /\ requests \in 0..MaxRequests /\ excused \subseteq Tasks /\ overlap \in BOOLEAN
  /\ started \in Streams \cup {"none"}
  /\ call \in [Rtsp -> [pc : Places, todo : Seq(Calls), on : Streams \cup {"none"},
                        then : Places \cup {"none"}]]
  /\ \A t \in Tasks : using[t] # NoDecoder <=> task[t] = "decode"

(* While the calls come one after the other, a handle is set exactly while *)
(* a task of its kind lives, a stream has no second task of a kind, for a  *)
(* start waits for the task before or refuses, and one stream runs; so the *)
(* one decoder is used by one task, unless a wait gave up on the other.    *)
OneOfEach ==
  ~overlap =>
    /\ handle = {t[1] : t \in {u \in Tasks : Lives(u)}}
    /\ \A k \in Kinds : ~Lives(<<k, 2>>)
    /\ ~\A s \in Streams : running[s]
    /\ Cardinality({t \in Tasks : task[t] = "decode"} \ excused) <= 1

(* The decoder a task decodes with is not freed under it, unless a wait    *)
(* gave up on the task or the format was set while it was running; and the *)
(* packet buffer is there while the buffered task fills it, though a wait  *)
(* gave up on it.                                                          *)
InUseIsAllocated ==
  ~overlap =>
    /\ \A t \in Tasks \ excused : using[t] # NoDecoder => using[t] \in heap
    /\ \A i \in {1, 2} : task[<<"buffered", i>>] \in {"receive", "decode"} => packet

(* A stream whose start was granted runs, the other does not, and the      *)
(* buffered one has its task; and whenever no call is under way, also      *)
(* after calls that overlapped, a buffered stream marked as running has a  *)
(* task: who starts it next is not told of a stream that runs without one. *)
StartedReceives ==
  /\ started # "none" =>
       stream = started /\ running[started] /\ ~running[Other(started)]
  /\ \/ started = "buffered"
     \/ running["buffered"] /\ \A r \in Rtsp : At(r, "idle")
     => Living("buffered") # {}

(* The tasks of a stream that was stopped end, unless it is started again; *)
(* also those a wait gave up on.                                           *)
Drains == \A s \in Streams : ~running[s] ~> (running[s] \/ Living(s) = {})

(* Every request is answered, whatever the tasks and the other client do.  *)
Answered == \A r \in Rtsp : ~At(r, "idle") ~> At(r, "idle")
=============================================================================
