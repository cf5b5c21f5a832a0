------------------------- MODULE StreamControlProofs -------------------------
(***************************************************************************)
(* Proofs about StreamControl for any RTSP tasks, any heap and any number  *)
(* of requests.                                                            *)
(***************************************************************************)
EXTENDS StreamControl, FiniteSetTheorems, SequenceTheorems, TLAPS

CallSet == [pc : Places, todo : Seq(Calls), on : Streams \cup {"none"},
            then : Places \cup {"none"}]

(* What a place says of the arguments kept with it, and which tasks decode;*)
(* this holds also for calls that overlap.                                 *)
Argued(c) ==
  /\ c.pc \in {"type", "wait", "typed", "ending", "create", "created"} => c.on \in Streams
  /\ c.pc = "wait" => c.then \in {"stop2", "destroy", "typed", "begin", "idle"}
  /\ c.pc \in {"control", "controlled"} => c.on = "realtime"
ArgInv ==
  /\ \A r \in Rtsp : Argued(call[r])
  /\ \A t \in Tasks : t[1] = "control" => task[t] # "decode"

(* One request at a time.                                                  *)
Alone == \A r, o \in Rtsp : ~At(r, "idle") /\ ~At(o, "idle") => r = o

(* Handles are those of the tasks there are, which are the first ones.     *)
HandleInv ==
  \A k \in Kinds : /\ k \in handle <=> Lives(<<k, 1>>)
                   /\ ~Lives(<<k, 2>>)

(* Only the current stream runs, and only its tasks have not been given up.*)
RunInv == \A s \in Streams : running[s] => s = stream
OldInv == \A t \in Tasks : Lives(t) /\ t \notin excused => StreamOf(t[1]) = stream

(* A stream that does not run has no other tasks, unless it is waited for. *)
Waits(s) == \E r \in Rtsp : At(r, "wait") /\ call[r].on = s
Quiet(s) == \A t \in Tasks : Lives(t) /\ StreamOf(t[1]) = s => t \in excused
WaitInv == \A s \in Streams : running[s] \/ Waits(s) \/ Quiet(s)

(* What has been done of a call at each of its places.                     *)
Goes2(c, place) == c.pc = place \/ (c.pc = "wait" /\ c.then = place)
Placed(c) ==
  /\ c.pc \in {"ending", "create", "created", "control", "controlled"} => c.on = stream
  /\ c.pc \in {"create", "created", "control", "controlled"} => running[stream]
  /\ c.pc = "create" => ~Held(c.on)
  /\ c.pc \in {"created", "control"} /\ c.on = "realtime" => "control" \notin handle
  /\ c.pc = "wait" => ~running[c.on]
  /\ Goes2(c, "typed") => c.on = stream /\ ~running[stream]
  /\ Goes2(c, "stop2") => ~running["realtime"]
  /\ Goes2(c, "destroy") => ~running["realtime"] /\ ~running["buffered"]
PlaceInv == \A r \in Rtsp : Placed(call[r])

(* What tasks use is there.                                                *)
MemoryInv ==
  /\ decoder # NoDecoder => decoder \in heap
  /\ \A t \in Tasks \ excused : using[t] # NoDecoder => using[t] \in heap
  /\ \A i \in {1, 2} : task[<<"buffered", i>>] \in {"receive", "decode"} => packet

SoloInv ==
  Alone /\ HandleInv /\ RunInv /\ OldInv /\ WaitInv /\ PlaceInv /\ MemoryInv

IInv == TypeOK /\ ArgInv /\ (~overlap => SoloInv)

-----------------------------------------------------------------------------
(* Tasks and kinds *)

(* A task is the first or the second of its kind.                          *)
LEMMA TaskIs ==
  /\ \A t \in Tasks : /\ t[1] \in Kinds /\ t[2] \in {1, 2} /\ t = <<t[1], t[2]>>
                      /\ StreamOf(t[1]) \in Streams /\ t[1] \in KindsOf(StreamOf(t[1]))
  /\ \A k \in Kinds : /\ <<k, 1>> \in Tasks /\ <<k, 2>> \in Tasks
                      /\ <<k, 1>>[1] = k /\ <<k, 2>>[1] = k
                      /\ \A s \in Streams : k \in KindsOf(s) <=> StreamOf(k) = s
  /\ \A s \in Streams : KindsOf(s) \subseteq Kinds
BY DEF Tasks, Kinds, StreamOf, KindsOf, Streams

(* Of two streams, one is the other.                                       *)
LEMMA OtherIs == \A s \in Streams : Other(s) \in Streams /\ Other(s) # s
<1> SUFFICES ASSUME NEW s \in Streams PROVE Other(s) \in Streams /\ Other(s) # s
  OBVIOUS
<1>1. \E o \in Streams : o # s
  BY DEF Streams
<1> QED
  BY <1>1 DEF Other

(* Without a handle there is no task.                                      *)
LEMMA NoHandleNoTask ==
  ASSUME HandleInv, NEW s \in Streams, ~Held(s), NEW t \in Tasks, StreamOf(t[1]) = s
  PROVE  ~Lives(t)
<1>1. t[1] \in Kinds /\ t[2] \in {1, 2} /\ t = <<t[1], t[2]>> /\ t[1] \in KindsOf(s)
  BY TaskIs
<1>2. t[1] \notin handle
  BY <1>1 DEF Held
<1> QED
  BY <1>1, <1>2 DEF HandleInv

-----------------------------------------------------------------------------
(* The place of a call *)

(* The place of one RTSP task changes.                                     *)
LEMMA Moves ==
  ASSUME TypeOK, NEW r \in Rtsp, NEW c \in CallSet, call' = [call EXCEPT ![r] = c]
  PROVE  /\ call' \in [Rtsp -> CallSet] /\ call'[r] = c
         /\ \A o \in Rtsp \ {r} : call'[o] = call[o]
BY DEF TypeOK, CallSet

(* ... and what is known of the others' places stays so.                   *)
LEMMA MovesArgued ==
  ASSUME TypeOK, ArgInv, NEW r \in Rtsp, NEW c \in CallSet, call' = [call EXCEPT ![r] = c],
         Argued(c), UNCHANGED task
  PROVE  ArgInv'
BY Moves DEF ArgInv, Argued

(* While the calls do not overlap all others are idle.                     *)
LEMMA MovesAlone ==
  ASSUME TypeOK, Alone, NEW r \in Rtsp, NEW c \in CallSet, call' = [call EXCEPT ![r] = c],
         ~At(r, "idle"), Placed(c)'
  PROVE  /\ Alone' /\ PlaceInv'
         /\ \A s \in Streams : Waits(s) <=> At(r, "wait") /\ call[r].on = s
         /\ \A s \in Streams : Waits(s)' <=> c.pc = "wait" /\ c.on = s
<1>1. /\ call' \in [Rtsp -> CallSet] /\ call'[r] = c
      /\ \A o \in Rtsp \ {r} : call'[o] = call[o]
  BY Moves
<1>2. \A o \in Rtsp \ {r} : call[o].pc = "idle"
  BY DEF Alone, At
<1>3. Alone'
  BY <1>1, <1>2 DEF Alone, At
<1>4. PlaceInv'
  <2> SUFFICES ASSUME NEW o \in Rtsp PROVE Placed(call[o])'
    BY DEF PlaceInv
  <2>1. CASE o = r
    BY <2>1, <1>1 DEF Placed, Goes2, Held
  <2>2. CASE o # r
    <3>1. call'[o].pc = "idle"
      BY <1>1, <1>2, <2>2
    <3> QED
      BY <3>1 DEF Placed, Goes2
  <2> QED
    BY <2>1, <2>2
<1>5. \A s \in Streams : Waits(s) <=> At(r, "wait") /\ call[r].on = s
  BY <1>2 DEF Waits, At
<1>6. \A s \in Streams : Waits(s)' <=> c.pc = "wait" /\ c.on = s
  BY <1>1, <1>2 DEF Waits, At
<1> QED
  BY <1>3, <1>4, <1>5, <1>6

(* The places a call can go on to.                                         *)
LEMMA Records ==
  ASSUME TypeOK, NEW r \in Rtsp
  PROVE  /\ call[r] \in CallSet
         /\ \A l \in Places :
              /\ [call[r] EXCEPT !.pc = l] \in CallSet
              /\ [call[r] EXCEPT !.pc = l].pc = l
              /\ [call[r] EXCEPT !.pc = l].on = call[r].on
              /\ [call[r] EXCEPT !.pc = l].then = call[r].then
              /\ \A s \in Streams :
                   LET c == [Idle EXCEPT !.pc = l, !.todo = call[r].todo, !.on = s]
                   IN c \in CallSet /\ c.pc = l /\ c.on = s /\ c.then = "none"
         /\ \A l \in Places, s \in Streams :
              LET c == [pc |-> "wait", todo |-> call[r].todo, on |-> s, then |-> l]
              IN c \in CallSet /\ c.pc = "wait" /\ c.on = s /\ c.then = l
         /\ Idle \in CallSet /\ Idle.pc = "idle"
<1>1. call[r] \in CallSet
  BY DEF TypeOK, CallSet
<1>2. "wait" \in Places /\ "idle" \in Places /\ <<>> \in Seq(Calls)
  BY DEF Places
<1> QED
  BY <1>1, <1>2 DEF CallSet, Idle

(* The next of the calls still to make.                                    *)
LEMMA LoadIs ==
  ASSUME NEW todo \in Seq(Calls)
  PROVE  /\ Load(todo) \in CallSet /\ Load(todo).pc \in Names \cup {"idle"}
         /\ Argued(Load(todo))
<1>1. CASE todo = <<>>
  BY <1>1 DEF Load, Idle, CallSet, Places, Argued
<1>2. CASE todo # <<>>
  <2>1. Head(todo) \in Calls /\ Tail(todo) \in Seq(Calls)
    BY <1>2
  <2>2. /\ Head(todo).name \in Names /\ Head(todo).on \in Streams \cup {"none"}
        /\ Head(todo).name = "type" => Head(todo).on \in Streams
    BY <2>1 DEF Calls
  <2>3. Load(todo) = [pc |-> Head(todo).name, todo |-> Tail(todo), on |-> Head(todo).on,
                      then |-> "none"]
    BY <1>2 DEF Load, Idle
  <2>4. Load(todo) \in CallSet
    BY <2>1, <2>2, <2>3 DEF CallSet, Places
  <2> QED
    BY <2>2, <2>3, <2>4 DEF Argued, Names
<1> QED
  BY <1>1, <1>2

-----------------------------------------------------------------------------
(* Steps of the stream tasks *)

(* A task that goes on leaves alone all but its place and its decoder.     *)
LEMMA TaskGoesOn ==
  ASSUME IInv, NEW t \in Tasks, NEW to \in {"accept", "receive", "decode"},
         NEW d \in Decoders \cup {NoDecoder},
         Lives(t), task' = [task EXCEPT ![t] = to], using' = [using EXCEPT ![t] = d],
         d # NoDecoder <=> to = "decode", to = "decode" => t[1] # "control",
         d # NoDecoder => d = decoder,
         packet' \in BOOLEAN, packet => packet',
         ~overlap /\ t[1] = "buffered" /\ to # "accept" => packet',
         UNCHANGED <<flags, decoder, heap, call, requests, history>>
  PROVE  IInv'
<1>1. /\ task \in [Tasks -> {"none", "accept", "receive", "decode"}]
      /\ using \in [Tasks -> Decoders \cup {NoDecoder}]
      /\ \A u \in Tasks : using[u] # NoDecoder <=> task[u] = "decode"
  BY DEF IInv, TypeOK
<1>2. /\ task'[t] = to /\ using'[t] = d
      /\ \A u \in Tasks \ {t} : task'[u] = task[u] /\ using'[u] = using[u]
      /\ task' \in [Tasks -> {"none", "accept", "receive", "decode"}]
      /\ using' \in [Tasks -> Decoders \cup {NoDecoder}]
  BY <1>1
<1>3. \A u \in Tasks : Lives(u)' <=> Lives(u)
  BY <1>2 DEF Lives
<1>4. UNCHANGED <<stream, running, handle, decoder, heap, call, requests, excused, overlap, started>>
  BY DEF flags, history
<1>5. TypeOK'
  BY <1>1, <1>2, <1>4 DEF IInv, TypeOK
<1>6. ArgInv'
  BY <1>2, <1>4 DEF IInv, ArgInv, Argued
<1>7. ASSUME ~overlap PROVE SoloInv'
  <2>1. SoloInv
    BY <1>7 DEF IInv
  <2>2. HandleInv' /\ OldInv' /\ WaitInv'
    BY <2>1, <1>3, <1>4, TaskIs DEF SoloInv, HandleInv, OldInv, WaitInv, Waits, Quiet, At
  <2>3. Alone' /\ RunInv' /\ PlaceInv'
    BY <2>1, <1>4 DEF SoloInv, Alone, RunInv, PlaceInv, Placed, Goes2, Held, At
  <2>4. MemoryInv'
    <3>1. \A u \in Tasks \ excused : using'[u] # NoDecoder => using'[u] \in heap
      BY <2>1, <1>2 DEF SoloInv, MemoryInv
    <3>2. ASSUME NEW i \in {1, 2}, task'[<<"buffered", i>>] \in {"receive", "decode"}
          PROVE  packet'
      <4>1. <<"buffered", i>> \in Tasks
        BY TaskIs DEF Tasks, Kinds
      <4>2. CASE t = <<"buffered", i>>
        BY <1>2, <1>7, <3>2, <4>2
      <4>3. CASE t # <<"buffered", i>>
        BY <1>2, <2>1, <3>2, <4>1, <4>3 DEF SoloInv, MemoryInv
      <4> QED
        BY <4>2, <4>3
    <3> QED
      BY <2>1, <3>1, <3>2, <1>4 DEF SoloInv, MemoryInv
  <2> QED
    BY <2>2, <2>3, <2>4 DEF SoloInv
<1> QED
  BY <1>4, <1>5, <1>6, <1>7 DEF IInv

(* A task that ends clears its handle.                                     *)
LEMMA TaskEnds ==
  ASSUME IInv, NEW t \in Tasks, Lives(t), Exit(t)
  PROVE  IInv'
<1>1. /\ task \in [Tasks -> {"none", "accept", "receive", "decode"}]
      /\ using \in [Tasks -> Decoders \cup {NoDecoder}]
      /\ \A u \in Tasks : using[u] # NoDecoder <=> task[u] = "decode"
  BY DEF IInv, TypeOK
<1>2. /\ task'[t] = "none" /\ using'[t] = NoDecoder
      /\ \A u \in Tasks \ {t} : task'[u] = task[u] /\ using'[u] = using[u]
      /\ task' \in [Tasks -> {"none", "accept", "receive", "decode"}]
      /\ using' \in [Tasks -> Decoders \cup {NoDecoder}]
  BY <1>1 DEF Exit
<1>3. /\ UNCHANGED <<stream, running, decoder, heap, packet, call, requests, overlap, started>>
      /\ handle' = handle \ {t[1]} /\ excused' = excused \ {t}
  BY DEF Exit, memory
<1>4. TypeOK'
  BY <1>1, <1>2, <1>3 DEF IInv, TypeOK
<1>5. ArgInv'
  BY <1>2, <1>3 DEF IInv, ArgInv, Argued
<1>6. ASSUME ~overlap PROVE SoloInv'
  <2>1. SoloInv
    BY <1>6 DEF IInv
  <2>2. \A u \in Tasks : Lives(u)' => Lives(u) /\ u # t
    BY <1>2 DEF Lives
  <2>3. OldInv' /\ WaitInv'
    BY <2>1, <2>2, <1>3 DEF SoloInv, OldInv, WaitInv, Waits, Quiet, At
  <2>4. HandleInv'
    <3> SUFFICES ASSUME NEW k \in Kinds
                 PROVE (k \in handle' <=> Lives(<<k, 1>>)') /\ ~Lives(<<k, 2>>)'
      BY DEF HandleInv
    <3>1. t = <<t[1], 1>>
      <4>1. t[1] \in Kinds /\ t[2] \in {1, 2} /\ t = <<t[1], t[2]>>
        BY TaskIs
      <4>2. ~Lives(<<t[1], 2>>)
        BY <2>1, <4>1 DEF SoloInv, HandleInv
      <4>3. t # <<t[1], 2>>
        BY <4>2
      <4> QED
        BY <4>1, <4>3
    <3>2. CASE t[1] = k
      BY <3>1, <3>2, <1>2, <1>3, <2>1, <2>2, TaskIs DEF SoloInv, HandleInv, Lives
    <3>3. CASE t[1] # k
      <4>1. <<k, 1>> \in Tasks \ {t} /\ <<k, 2>> \in Tasks \ {t}
        BY <3>3, TaskIs
      <4> QED
        BY <3>3, <4>1, <1>2, <1>3, <2>1 DEF SoloInv, HandleInv, Lives
    <3> QED
      BY <3>2, <3>3
  <2>5. Alone' /\ RunInv' /\ PlaceInv'
    <3>1. \A s : Held(s)' => Held(s)
      BY <1>3 DEF Held
    <3> QED
      BY <3>1, <2>1, <1>3 DEF SoloInv, Alone, RunInv, PlaceInv, Placed, Goes2, At
  <2>6. MemoryInv'
    <3>1. \A u \in Tasks \ excused' : using'[u] # NoDecoder => using'[u] \in heap
      BY <2>1, <1>2, <1>3 DEF SoloInv, MemoryInv
    <3>2. \A i \in {1, 2} : task'[<<"buffered", i>>] \in {"receive", "decode"} => packet
      <4>1. \A i \in {1, 2} : <<"buffered", i>> \in Tasks
        BY TaskIs DEF Tasks, Kinds
      <4> QED
        BY <4>1, <2>1, <1>2 DEF SoloInv, MemoryInv
    <3> QED
      BY <2>1, <3>1, <3>2, <1>3 DEF SoloInv, MemoryInv
  <2> QED
    BY <2>3, <2>4, <2>5, <2>6 DEF SoloInv
<1> QED
  BY <1>3, <1>4, <1>5, <1>6 DEF IInv

(* A stream task goes on, ends, connects or decodes.                       *)
THEOREM TaskKeeps == ASSUME NEW t \in Tasks, IInv, TaskStep(t) PROVE IInv'
<1>1. /\ using \in [Tasks -> Decoders \cup {NoDecoder}] /\ packet \in BOOLEAN
      /\ \A u \in Tasks : using[u] # NoDecoder <=> task[u] = "decode"
      /\ decoder \in Decoders \cup {NoDecoder}
      /\ task \in [Tasks -> {"none", "accept", "receive", "decode"}]
  BY DEF IInv, TypeOK
<1>2. Lives(t)
  BY DEF TaskStep, Fails, Skips, Disconnected, Accept, Decodes, Decoded, Lives
<1>3. t[1] = "buffered" /\ task[t] \in {"receive", "decode"} /\ ~overlap => packet
  <2>1. t = <<t[1], t[2]>> /\ t[2] \in {1, 2}
    BY TaskIs
  <2> QED
    BY <2>1 DEF IInv, SoloInv, MemoryInv
<1>4. CASE \E to \in {"accept", "receive"} :
             Goes(t, to) /\ (to = "receive" => task[t] \in {"receive", "decode"})
  <2>1. PICK to \in {"accept", "receive"} :
               Goes(t, to) /\ (to = "receive" => task[t] \in {"receive", "decode"})
    BY <1>4
  <2> QED
    BY <2>1, <1>1, <1>2, <1>3, TaskGoesOn DEF Goes, OnlyTask, memory
<1>5. CASE Exit(t)
  BY <1>2, <1>5, TaskEnds
<1>6. CASE Accept(t)
  <2>1. using' = [using EXCEPT ![t] = NoDecoder]
    BY <1>1, <1>6 DEF Accept
  <2> QED
    BY <2>1, <1>1, <1>2, <1>6, TaskGoesOn DEF Accept
<1>7. CASE Decodes(t)
  BY <1>1, <1>2, <1>3, <1>7, TaskGoesOn DEF Decodes, OnlyTask, memory
<1> QED
  BY <1>4, <1>5, <1>6, <1>7 DEF TaskStep, Fails, Skips, Disconnected, Decoded, Onward

-----------------------------------------------------------------------------
(* Steps of the RTSP tasks: what they have in common *)

(* At the places where a call begins nothing has been done of it yet.      *)
LEMMA NothingPlaced ==
  ASSUME NEW c, c.pc \in Names \cup {"idle", "begin", "format2"}
  PROVE  Placed(c) /\ Placed(c)' /\ c.pc # "wait"
BY DEF Placed, Goes2, Names

(* While the calls do not overlap, a stream that does not run has no task  *)
(* that a wait has not given up on, unless the one call waits for it; and  *)
(* neither has the stream that is not the current one.                     *)
LEMMA QuietUnlessRuns ==
  ASSUME TypeOK, SoloInv, NEW r \in Rtsp, ~At(r, "idle"), NEW s \in Streams,
         ~running[s], ~(At(r, "wait") /\ call[r].on = s)
  PROVE  Quiet(s)
<1>1. ~Waits(s)
  <2> SUFFICES ASSUME NEW o \in Rtsp, At(o, "wait"), call[o].on = s PROVE FALSE
    BY DEF Waits
  <2>1. ~At(o, "idle")
    BY DEF At
  <2>2. o = r
    BY <2>1 DEF SoloInv, Alone
  <2> QED
    BY <2>2
<1> QED
  BY <1>1 DEF SoloInv, WaitInv

(* A step that changes the flags of the streams and the place of the call. *)
LEMMA FlagsStep ==
  ASSUME IInv, NEW r \in Rtsp, NEW c \in CallSet, call' = [call EXCEPT ![r] = c],
         ~At(r, "idle"), Argued(c), stream' \in Streams, running' \in [Streams -> BOOLEAN],
         handle' \subseteq Kinds, started' \in Streams \cup {"none"},
         UNCHANGED <<memory, task, using, requests, excused, overlap>>,
         ~overlap => /\ handle' = handle /\ Placed(c)'
                     /\ \A s \in Streams : running'[s] => s = stream'
                     /\ stream' # stream => Quiet(stream)
                     /\ \A s \in Streams :
                          running'[s] \/ (c.pc = "wait" /\ c.on = s) \/ Quiet(s)
  PROVE  IInv'
<1>1. UNCHANGED <<decoder, heap, packet, task, using, requests, excused, overlap>>
  BY DEF memory
<1>2. TypeOK'
  BY <1>1, Moves DEF IInv, TypeOK, CallSet
<1>3. ArgInv'
  BY <1>1, MovesArgued DEF IInv
<1>4. ASSUME ~overlap PROVE SoloInv'
  <2>1. TypeOK /\ SoloInv
    BY <1>4 DEF IInv
  <2>2. /\ Alone' /\ PlaceInv'
        /\ \A s \in Streams : Waits(s)' <=> c.pc = "wait" /\ c.on = s
    BY <2>1, <1>4, MovesAlone DEF SoloInv
  <2>3. \A t \in Tasks : Lives(t)' <=> Lives(t)
    BY <1>1 DEF Lives
  <2>4. HandleInv' /\ MemoryInv' /\ RunInv'
    BY <2>1, <1>1, <1>4 DEF SoloInv, HandleInv, MemoryInv, RunInv, Lives
  <2>5. OldInv'
    BY <2>1, <2>3, <1>1, <1>4 DEF SoloInv, OldInv, Quiet
  <2>6. WaitInv'
    BY <2>2, <2>3, <1>1, <1>4 DEF WaitInv, Quiet
  <2> QED
    BY <2>2, <2>4, <2>5, <2>6 DEF SoloInv
<1> QED
  BY <1>1, <1>2, <1>3, <1>4 DEF IInv

(* A step that changes the memory, the excuses and the place of the call.  *)
LEMMA MemoryStep ==
  ASSUME IInv, NEW r \in Rtsp, NEW c \in CallSet, call' = [call EXCEPT ![r] = c],
         ~At(r, "idle"), Argued(c), UNCHANGED <<flags, task, using, requests, overlap, started>>,
         decoder' \in Decoders \cup {NoDecoder}, heap' \subseteq Decoders, packet' \in BOOLEAN,
         excused' \subseteq Tasks,
         ~overlap => /\ excused \subseteq excused' /\ Placed(c)' /\ MemoryInv'
                     /\ \A s \in Streams : At(r, "wait") /\ call[r].on = s => Quiet(s)'
  PROVE  IInv'
<1>1. UNCHANGED <<stream, running, handle, task, using, requests, overlap, started>>
  BY DEF flags
<1>2. TypeOK'
  BY <1>1, Moves DEF IInv, TypeOK, CallSet
<1>3. ArgInv'
  BY <1>1, MovesArgued DEF IInv
<1>4. ASSUME ~overlap PROVE SoloInv'
  <2>1. TypeOK /\ SoloInv
    BY <1>4 DEF IInv
  <2>2. /\ Alone' /\ PlaceInv'
        /\ \A s \in Streams : Waits(s) <=> At(r, "wait") /\ call[r].on = s
    BY <2>1, <1>4, MovesAlone DEF SoloInv
  <2>3. \A t \in Tasks : Lives(t)' <=> Lives(t)
    BY <1>1 DEF Lives
  <2>4. HandleInv' /\ RunInv' /\ OldInv'
    BY <2>1, <2>3, <1>1, <1>4, TaskIs DEF SoloInv, HandleInv, RunInv, OldInv
  <2>5. WaitInv'
    BY <2>1, <2>2, <2>3, <1>1, <1>4 DEF SoloInv, WaitInv, Quiet
  <2> QED
    BY <2>2, <2>4, <2>5, <1>4 DEF SoloInv
<1> QED
  BY <1>1, <1>2, <1>3, <1>4 DEF IInv

-----------------------------------------------------------------------------
(* Steps of the RTSP tasks, one by one *)

(* The call that comes next.                                               *)
LEMMA NextCall ==
  ASSUME IInv, NEW r \in Rtsp
  PROVE  /\ Load(call[r].todo) \in CallSet /\ Argued(Load(call[r].todo))
         /\ Load(call[r].todo).pc \in Names \cup {"idle"}
         /\ call[r].todo \in Seq(Calls)
<1>1. call[r].todo \in Seq(Calls) /\ call[r] \in CallSet
  BY DEF IInv, TypeOK, CallSet
<1> QED
  BY <1>1, LoadIs DEF CallSet, Argued, Idle

(* The step of a call that only goes on, with the flags as they are.       *)
LEMMA GoesOnKeeps ==
  ASSUME IInv, NEW r \in Rtsp, NEW c \in CallSet, call' = [call EXCEPT ![r] = c],
         ~At(r, "idle"), ~At(r, "wait"), Argued(c),
         started' \in Streams \cup {"none"},
         UNCHANGED <<flags, memory, task, using, requests, excused, overlap>>,
         ~overlap => Placed(c)'
  PROVE  IInv'
<1>1. UNCHANGED <<stream, running, handle>>
  BY DEF flags
<1>2. stream \in Streams /\ running \in [Streams -> BOOLEAN] /\ handle \subseteq Kinds
  BY DEF IInv, TypeOK
<1>3. ASSUME ~overlap
      PROVE  /\ \A s \in Streams : running[s] => s = stream
             /\ \A s \in Streams : running[s] \/ Quiet(s)
  BY <1>3, QuietUnlessRuns DEF IInv, SoloInv, RunInv
<1> QED
  BY <1>1, <1>2, <1>3, FlagsStep

(* Halting a stream: the wait for its tasks, or what follows it.           *)
LEMMA HaltKeeps ==
  ASSUME IInv, NEW r \in Rtsp, NEW s \in Streams, NEW l \in {"stop2", "destroy", "typed", "begin"},
         ~At(r, "idle"), ~At(r, "wait"), Halt(r, s, l), UNCHANGED <<stream, handle>>, OnlyCall,
         l = "typed" => s = stream /\ running[s],
         l = "stop2" => s = "realtime",
         ~overlap /\ l = "destroy" => s = "buffered" /\ ~running["realtime"]
  PROVE  IInv'
<1>1. /\ stream \in Streams /\ running \in [Streams -> BOOLEAN] /\ handle \subseteq Kinds
      /\ started \in Streams \cup {"none"}
  BY DEF IInv, TypeOK
<1>2. l \in Places
  BY DEF Places
<1>3. UNCHANGED <<memory, task, using, requests, excused, overlap, started>>
  BY DEF OnlyCall, history
<1>4. CASE running[s] \/ Held(s)
  <2>1. PICK c \in CallSet : /\ c.pc = "wait" /\ c.on = s /\ c.then = l
                             /\ call' = [call EXCEPT ![r] = c]
    BY <1>2, <1>4, Records DEF IInv, Halt
  <2>2. /\ running' \in [Streams -> BOOLEAN] /\ ~running'[s]
        /\ \A o \in Streams : running'[o] => running[o]
        /\ \A o \in Streams \ {s} : running'[o] = running[o]
    BY <1>1, <1>4 DEF Halt
  <2>3. Argued(c)
    BY <2>1 DEF Argued
  <2>4. ASSUME ~overlap
        PROVE  /\ Placed(c)'
               /\ \A o \in Streams : running'[o] => o = stream'
               /\ \A o \in Streams : running'[o] \/ (c.pc = "wait" /\ c.on = o) \/ Quiet(o)
    <3>1. Placed(c)'
      BY <2>1, <2>2, <2>4 DEF Placed, Goes2, Streams
    <3>2. \A o \in Streams : running'[o] => o = stream'
      BY <2>2, <2>4 DEF IInv, SoloInv, RunInv
    <3>3. ASSUME NEW o \in Streams, ~running'[o], o # s PROVE Quiet(o)
      BY <2>2, <2>4, <3>3, QuietUnlessRuns DEF IInv
    <3> QED
      BY <3>1, <3>2, <3>3, <2>1
  <2> QED
    BY <1>1, <1>3, <2>1, <2>2, <2>3, <2>4, FlagsStep
<1>5. CASE ~(running[s] \/ Held(s))
  <2>1. PICK c \in CallSet : c.pc = l /\ call' = [call EXCEPT ![r] = c]
    <3>1. call' = [call EXCEPT ![r] = [call[r] EXCEPT !.pc = l]]
      BY <1>5 DEF Halt, To
    <3>2. [call[r] EXCEPT !.pc = l] \in CallSet /\ [call[r] EXCEPT !.pc = l].pc = l
      BY <1>2 DEF IInv, TypeOK, CallSet
    <3> QED
      BY <3>1, <3>2
  <2>2. UNCHANGED running /\ l # "typed"
    BY <1>5 DEF Halt
  <2>3. Argued(c)
    BY <2>1, <2>2 DEF Argued
  <2>4. ~overlap => Placed(c)'
    BY <1>5, <2>1, <2>2 DEF Placed, Goes2
  <2> QED
    BY <1>1, <1>3, <2>1, <2>2, <2>3, <2>4, GoesOnKeeps DEF flags
<1> QED
  BY <1>4, <1>5

(* Return puts the next call in the place of the call...                   *)
LEMMA ReturnIs ==
  ASSUME IInv, NEW r \in Rtsp, Return(r)
  PROVE  \E c \in CallSet : /\ call' = [call EXCEPT ![r] = c] /\ Argued(c)
                            /\ c.pc \in Names \cup {"idle", "begin", "format2"}
<1>1. call' = [call EXCEPT ![r] = Load(call[r].todo)]
  BY DEF Return
<1> QED
  BY <1>1, NextCall

(* ... a refusal ends the request...                                       *)
LEMMA RefusedIs ==
  ASSUME IInv, NEW r \in Rtsp, Refused(r)
  PROVE  \E c \in CallSet : /\ call' = [call EXCEPT ![r] = c] /\ Argued(c)
                            /\ c.pc \in Names \cup {"idle", "begin", "format2"}
<1>1. Idle \in CallSet /\ Idle.pc = "idle" /\ Argued(Idle)
  BY DEF Idle, CallSet, Places, Argued
<1> QED
  BY <1>1 DEF Refused

(* ... Goto keeps what is still to make...                                 *)
LEMMA GotoIs ==
  ASSUME IInv, NEW r \in Rtsp, NEW l \in Places, NEW s \in Streams, Goto(r, l, s),
         l \in {"control", "controlled"} => s = "realtime", l # "wait"
  PROVE  \E c \in CallSet : /\ call' = [call EXCEPT ![r] = c] /\ Argued(c)
                            /\ c.pc = l /\ c.on = s
<1> DEFINE c == [Idle EXCEPT !.pc = l, !.todo = call[r].todo, !.on = s]
<1>1. c \in CallSet /\ c.pc = l /\ c.on = s
  BY DEF IInv, TypeOK, CallSet, Idle, Places
<1>2. call' = [call EXCEPT ![r] = c]
  BY DEF Goto
<1>3. Argued(c)
  BY <1>1 DEF Argued
<1> HIDE DEF c
<1> QED
  BY <1>1, <1>2, <1>3

(* ... and To the rest as well.                                            *)
LEMMA ToIs ==
  ASSUME IInv, NEW r \in Rtsp, NEW l \in {"begin", "format2"}, To(r, l)
  PROVE  \E c \in CallSet : /\ call' = [call EXCEPT ![r] = c] /\ Argued(c)
                            /\ c.pc \in Names \cup {"idle", "begin", "format2"}
<1>1. call' = [call EXCEPT ![r] = [call[r] EXCEPT !.pc = l]]
  BY DEF To
<1>2. [call[r] EXCEPT !.pc = l] \in CallSet /\ [call[r] EXCEPT !.pc = l].pc = l
  BY DEF IInv, TypeOK, CallSet, Places
<1>3. Argued([call[r] EXCEPT !.pc = l])
  BY <1>2 DEF Argued
<1> QED
  BY <1>1, <1>2, <1>3

(* Both streams are halted, then the decoder is freed.                     *)
THEOREM StopKeeps ==
  ASSUME IInv, NEW r \in Rtsp, Stop(r) \/ StopBuffered(r)
  PROVE  IInv'
<1>1. CASE Stop(r)
  <2>1. ~At(r, "idle") /\ ~At(r, "wait")
    BY <1>1 DEF Stop, At
  <2> QED
    BY <1>1, <2>1, HaltKeeps DEF Stop, Streams
<1>2. CASE StopBuffered(r)
  <2>1. ~At(r, "idle") /\ ~At(r, "wait")
    BY <1>2 DEF StopBuffered, At
  <2>2. ~overlap => ~running["realtime"]
    BY <1>2 DEF StopBuffered, At, IInv, SoloInv, PlaceInv, Placed, Goes2
  <2> QED
    BY <1>2, <2>1, <2>2, HaltKeeps DEF StopBuffered, Streams
<1> QED
  BY <1>1, <1>2

(* The stream is changed, which may halt the current one first.            *)
THEOREM TypeKeeps ==
  ASSUME IInv, NEW r \in Rtsp, Type(r) \/ Typed(r)
  PROVE  IInv'
<1>1. /\ stream \in Streams /\ running \in [Streams -> BOOLEAN] /\ handle \subseteq Kinds
      /\ started \in Streams \cup {"none"}
  BY DEF IInv, TypeOK
<1>2. ~At(r, "idle") /\ ~At(r, "wait") /\ call[r].on \in Streams /\ OnlyCall
  BY DEF Type, Typed, At, IInv, ArgInv, Argued
<1>3. UNCHANGED <<memory, task, using, requests, excused, overlap, started>>
  BY <1>2 DEF OnlyCall, history
<1>4. CASE Type(r) /\ stream # call[r].on /\ running[stream]
  BY <1>1, <1>2, <1>4, HaltKeeps DEF Type
<1>5. CASE Return(r) /\ UNCHANGED <<running, handle>> /\ stream' \in Streams
           /\ (~overlap => stream' = stream \/ ~running[stream])
  <2>1. PICK c \in CallSet : /\ call' = [call EXCEPT ![r] = c] /\ Argued(c)
                             /\ c.pc \in Names \cup {"idle", "begin", "format2"}
    BY <1>5, ReturnIs
  <2>2. Placed(c)'
    BY <2>1, NothingPlaced
  <2>3. ASSUME ~overlap
        PROVE  /\ \A s \in Streams : running'[s] => s = stream'
               /\ stream' # stream => Quiet(stream)
               /\ \A s \in Streams : running'[s] \/ Quiet(s)
    BY <2>3, <1>1, <1>2, <1>5, QuietUnlessRuns DEF IInv, SoloInv, RunInv
  <2> QED
    BY <1>1, <1>2, <1>3, <1>5, <2>1, <2>2, <2>3, FlagsStep
<1>6. CASE Type(r) /\ ~(stream # call[r].on /\ running[stream])
  <2>1. ~overlap => stream' = stream \/ ~running[stream]
    BY <1>6 DEF Type
  <2> QED
    BY <1>2, <1>5, <1>6, <2>1 DEF Type
<1>7. CASE Typed(r)
  <2>1. ~overlap => ~running[stream]
    BY <1>7 DEF Typed, At, IInv, SoloInv, PlaceInv, Placed, Goes2
  <2> QED
    BY <1>2, <1>5, <1>7, <2>1, OtherIs DEF Typed
<1> QED
  BY <1>4, <1>6, <1>7

(* The type of the current stream decides the calls that start it; one     *)
(* that runs is halted, or left as it is.                                  *)
THEOREM StartKeeps ==
  ASSUME IInv, NEW r \in Rtsp, StartStream(r) \/ Restart(r) \/ Keep(r)
  PROVE  IInv'
<1>1. /\ stream \in Streams /\ started \in Streams \cup {"none"}
  BY DEF IInv, TypeOK
<1>2. ~At(r, "idle") /\ ~At(r, "wait")
  BY DEF StartStream, Restart, Keep, At
<1>3. ASSUME NEW c \in CallSet, call' = [call EXCEPT ![r] = c], Argued(c),
             c.pc \in Names \cup {"idle", "begin", "format2"},
             UNCHANGED <<flags, memory, task, using, requests, excused, overlap>>,
             started' \in Streams \cup {"none"}
      PROVE  IInv'
  BY <1>2, <1>3, NothingPlaced, GoesOnKeeps
<1>4. CASE StartStream(r)
  <2>1. Start(stream) \o call[r].todo \in Seq(Calls)
    <3>1. SetType(stream) \in Calls /\ Call("keep") \in Calls /\ Call("restart") \in Calls
      BY <1>1 DEF SetType, Call, Calls, Names
    <3>2. Start(stream) \in Seq(Calls)
      BY <3>1 DEF Start
    <3>3. call[r].todo \in Seq(Calls)
      BY NextCall
    <3> QED
      BY <3>2, <3>3
  <2>2. call' = [call EXCEPT ![r] = Load(Start(stream) \o call[r].todo)]
    BY <1>4 DEF StartStream
  <2>3. UNCHANGED <<flags, memory, task, using, requests, excused, overlap, started>>
    BY <1>4 DEF StartStream, OnlyCall, history
  <2> QED
    BY <1>1, <1>3, <2>1, <2>2, <2>3, LoadIs
<1>5. CASE Restart(r)
  <2>1. CASE running[stream]
    BY <1>1, <1>2, <1>5, <2>1, HaltKeeps DEF Restart
  <2>2. CASE ~running[stream]
    <3>1. To(r, "begin") /\ UNCHANGED <<flags, memory, task, using, requests, excused, overlap, started>>
      BY <1>5, <2>2 DEF Restart, OnlyCall, history, flags
    <3> QED
      BY <1>1, <1>3, <3>1, ToIs
  <2> QED
    BY <2>1, <2>2
<1>6. CASE Keep(r)
  <2>1. UNCHANGED <<flags, memory, task, using, requests, excused, overlap>>
    BY <1>6 DEF Keep, OnlyStart, flags
  <2>2. CASE running[stream]
    <3>1. Return(r) /\ started' \in Streams \cup {"none"}
      BY <1>1, <1>6, <2>2 DEF Keep, Granted
    <3> QED
      BY <1>3, <2>1, <3>1, ReturnIs
  <2>3. CASE ~running[stream]
    <3>1. Goto(r, "begin", stream) /\ started' = started
      BY <1>6, <2>3 DEF Keep, Goto
    <3>2. "begin" \in Places
      BY DEF Places
    <3>3. PICK c \in CallSet : /\ call' = [call EXCEPT ![r] = c] /\ Argued(c)
                               /\ c.pc = "begin" /\ c.on = stream
      BY <1>1, <3>1, <3>2, GotoIs
    <3> QED
      BY <1>1, <1>3, <2>1, <3>1, <3>3
  <2> QED
    BY <2>2, <2>3
<1> QED
  BY <1>4, <1>5, <1>6

(* Sockets are there or not, and a task that still ends is waited for.     *)
THEOREM BeginKeeps ==
  ASSUME IInv, NEW r \in Rtsp, Begin(r) \/ Ending(r)
  PROVE  IInv'
<1>1. /\ stream \in Streams /\ started \in Streams \cup {"none"}
      /\ running \in [Streams -> BOOLEAN] /\ handle \subseteq Kinds
  BY DEF IInv, TypeOK
<1>2. ~At(r, "idle") /\ ~At(r, "wait")
  BY DEF Begin, Ending, At
<1>3. UNCHANGED <<stream, handle, memory, task, using, requests, excused, overlap>>
  BY DEF Begin, Ending, OnlyStart
<1>4. ASSUME NEW c \in CallSet, call' = [call EXCEPT ![r] = c], Argued(c),
             c.pc \in Names \cup {"idle", "begin", "format2"} \/ (c.pc = "ending" /\ c.on = stream),
             UNCHANGED running, started' \in Streams \cup {"none"}
      PROVE  IInv'
  <2>1. Placed(c)'
    BY <1>3, <1>4, NothingPlaced DEF Placed, Goes2
  <2> QED
    BY <1>2, <1>3, <1>4, <2>1, GoesOnKeeps DEF flags
<1>5. ASSUME NEW s \in Streams, Bind(r, s), ~overlap => s = stream /\ ~Held(s)
      PROVE  IInv'
  <2>1. CASE Refused(r) /\ UNCHANGED running
    <3>1. UNCHANGED started
      BY <2>1 DEF Refused
    <3> QED
      BY <1>1, <1>4, <2>1, <3>1, RefusedIs
  <2>2. CASE running' = [running EXCEPT ![s] = TRUE] /\ Goto(r, "create", s)
    <3>1. "create" \in Places /\ started' = started
      BY <2>2 DEF Places, Goto
    <3>2. PICK c \in CallSet : /\ call' = [call EXCEPT ![r] = c] /\ Argued(c)
                               /\ c.pc = "create" /\ c.on = s
      BY <2>2, <3>1, GotoIs
    <3>3. /\ running' \in [Streams -> BOOLEAN] /\ running'[s]
          /\ \A o \in Streams \ {s} : running'[o] = running[o]
      BY <1>1, <2>2
    <3>4. ASSUME ~overlap
          PROVE  /\ Placed(c)'
                 /\ \A o \in Streams : running'[o] => o = stream'
                 /\ \A o \in Streams : running'[o] \/ Quiet(o)
      <4>1. Placed(c)'
        BY <1>3, <1>5, <3>2, <3>3, <3>4 DEF Placed, Goes2, Held
      <4>2. \A o \in Streams : running'[o] => o = stream'
        BY <1>3, <1>5, <3>3, <3>4 DEF IInv, SoloInv, RunInv
      <4>3. \A o \in Streams : running'[o] \/ Quiet(o)
        BY <1>2, <3>3, <3>4, QuietUnlessRuns DEF IInv
      <4> QED
        BY <4>1, <4>2, <4>3
    <3> QED
      BY <1>1, <1>2, <1>3, <3>1, <3>2, <3>3, <3>4, FlagsStep
  <2> QED
    BY <1>5, <2>1, <2>2 DEF Bind
<1>6. CASE Begin(r)
  <2>1. CASE running[stream]
    <3>1. Return(r) /\ started' \in Streams \cup {"none"} /\ UNCHANGED running
      BY <1>1, <1>6, <2>1 DEF Begin, Granted
    <3> QED
      BY <1>4, <3>1, ReturnIs
  <2>2. CASE ~running[stream] /\ Held(stream)
    <3>1. Goto(r, "ending", stream) /\ started' = started /\ UNCHANGED running
      BY <1>6, <2>2 DEF Begin, Goto
    <3>2. "ending" \in Places
      BY DEF Places
    <3> QED
      BY <1>1, <1>4, <3>1, <3>2, GotoIs
  <2>3. CASE ~running[stream] /\ ~Held(stream)
    BY <1>1, <1>5, <1>6, <2>3 DEF Begin
  <2> QED
    BY <2>1, <2>2, <2>3
<1>7. CASE Ending(r)
  <2>1. call[r].on \in Streams /\ (~overlap => call[r].on = stream)
    BY <1>7 DEF Ending, At, IInv, ArgInv, Argued, SoloInv, PlaceInv, Placed
  <2>2. CASE Held(call[r].on)
    <3>1. Refused(r) /\ UNCHANGED running /\ UNCHANGED started
      BY <1>7, <2>2 DEF Ending, Refused
    <3> QED
      BY <1>1, <1>4, <3>1, RefusedIs
  <2>3. CASE ~Held(call[r].on)
    BY <1>5, <1>7, <2>1, <2>3 DEF Ending
  <2> QED
    BY <2>2, <2>3
<1> QED
  BY <1>6, <1>7

(* A task is created, the first of its kind: of a stream that runs.        *)
LEMMA CreatesKeeps ==
  ASSUME IInv, NEW r \in Rtsp, NEW k \in Kinds, NEW c \in CallSet,
         call' = [call EXCEPT ![r] = c], ~At(r, "idle"), ~At(r, "wait"), Argued(c), Creates(k),
         UNCHANGED <<stream, running, memory, using, requests, excused, overlap, started>>,
         ~overlap => k \notin handle /\ StreamOf(k) = stream /\ running[stream] /\ Placed(c)'
  PROVE  IInv'
<1>1. UNCHANGED <<stream, running, decoder, heap, packet, using, requests, excused, overlap, started>>
  BY DEF memory
<1> DEFINE t == <<k, IF Lives(<<k, 1>>) THEN 2 ELSE 1>>
<1>2. /\ t \in Tasks /\ ~Lives(t) /\ t[1] = k
      /\ task' = [task EXCEPT ![t] = IF k = "buffered" THEN "accept" ELSE "receive"]
      /\ handle' = handle \cup {k}
  BY TaskIs DEF Creates
<1>3. Lives(<<k, 1>>) \/ t = <<k, 1>>
  OBVIOUS
<1> HIDE DEF t
<1>4. /\ task \in [Tasks -> {"none", "accept", "receive", "decode"}]
      /\ \A u \in Tasks : using[u] # NoDecoder <=> task[u] = "decode"
  BY DEF IInv, TypeOK
<1>5. /\ task' \in [Tasks -> {"none", "accept", "receive", "decode"}]
      /\ \A u \in Tasks \ {t} : task'[u] = task[u]
      /\ task[t] = "none" /\ task'[t] # "decode" /\ task'[t] # "none"
      /\ k = "buffered" => task'[t] = "accept"
  BY <1>2, <1>4 DEF Lives
<1>6. TypeOK'
  <2>1. \A u \in Tasks : using'[u] # NoDecoder <=> task'[u] = "decode"
    BY <1>1, <1>2, <1>4, <1>5
  <2> QED
    BY <1>1, <1>2, <1>5, <2>1, Moves DEF IInv, TypeOK, CallSet
<1>7. ArgInv'
  BY <1>5, Moves DEF IInv, ArgInv, Argued
<1>8. ASSUME ~overlap PROVE SoloInv'
  <2>1. TypeOK /\ SoloInv
    BY <1>8 DEF IInv
  <2>2. /\ Alone' /\ PlaceInv'
        /\ \A s \in Streams : Waits(s) <=> At(r, "wait") /\ call[r].on = s
    BY <2>1, <1>8, MovesAlone DEF SoloInv
  <2>3. t = <<k, 1>> /\ ~Lives(<<k, 2>>)
    BY <2>1, <1>3, <1>8 DEF SoloInv, HandleInv
  <2>4. /\ \A u \in Tasks : Lives(u)' <=> Lives(u) \/ u = t
        /\ \A s \in Streams : s # stream => (Quiet(s) => Quiet(s)')
    BY <1>1, <1>2, <1>5, <1>8 DEF Lives, Quiet
  <2>5. HandleInv'
    <3> SUFFICES ASSUME NEW j \in Kinds
                 PROVE (j \in handle' <=> Lives(<<j, 1>>)') /\ ~Lives(<<j, 2>>)'
      BY DEF HandleInv
    <3>1. <<j, 1>> \in Tasks /\ <<j, 2>> \in Tasks
      BY TaskIs
    <3> QED
      BY <1>2, <2>1, <2>3, <2>4, <3>1 DEF SoloInv, HandleInv
  <2>6. RunInv' /\ OldInv'
    BY <1>1, <1>2, <1>8, <2>1, <2>4 DEF SoloInv, RunInv, OldInv
  <2>7. WaitInv'
    <3> SUFFICES ASSUME NEW s \in Streams, ~running'[s] PROVE Quiet(s)'
      BY DEF WaitInv
    <3>1. s # stream
      BY <1>1, <1>8
    <3> QED
      BY <1>1, <2>1, <2>4, <3>1, QuietUnlessRuns
  <2>8. MemoryInv'
    <3>1. \A i \in {1, 2} : <<"buffered", i>> \in Tasks
      BY TaskIs DEF Kinds
    <3>2. \A i \in {1, 2} : task'[<<"buffered", i>>] \in {"receive", "decode"} => packet
      <4> SUFFICES ASSUME NEW i \in {1, 2}, task'[<<"buffered", i>>] \in {"receive", "decode"}
                   PROVE  packet
        OBVIOUS
      <4>1. t # <<"buffered", i>>
        BY <1>2, <1>5
      <4> QED
        BY <1>5, <2>1, <3>1, <4>1 DEF SoloInv, MemoryInv
    <3> QED
      BY <1>1, <2>1, <3>2 DEF SoloInv, MemoryInv
  <2> QED
    BY <2>2, <2>5, <2>6, <2>7, <2>8 DEF SoloInv
<1> QED
  BY <1>1, <1>6, <1>7, <1>8 DEF IInv

(* A start that ends with its stream off again: no task of it is there, or *)
(* the call waits for it.                                                  *)
LEMMA OffKeeps ==
  ASSUME IInv, NEW r \in Rtsp, NEW s \in Streams, NEW c \in CallSet,
         call' = [call EXCEPT ![r] = c], ~At(r, "idle"), ~At(r, "wait"), Argued(c), Off(s),
         handle' \subseteq Kinds,
         UNCHANGED <<stream, memory, task, using, requests, excused, overlap, started>>,
         ~overlap => handle' = handle,
         \/ c.pc = "idle" /\ (~overlap => ~Held(s))
         \/ c.pc = "wait" /\ c.on = s /\ c.then = "idle"
  PROVE  IInv'
<1>1. /\ stream \in Streams /\ started \in Streams \cup {"none"}
      /\ running \in [Streams -> BOOLEAN]
  BY DEF IInv, TypeOK
<1>2. /\ running' \in [Streams -> BOOLEAN] /\ ~running'[s]
      /\ \A o \in Streams : running'[o] => running[o]
      /\ \A o \in Streams \ {s} : running'[o] = running[o]
  BY <1>1 DEF Off
<1>3. ASSUME ~overlap
      PROVE  /\ Placed(c)'
             /\ \A o \in Streams : running'[o] => o = stream'
             /\ \A o \in Streams : running'[o] \/ (c.pc = "wait" /\ c.on = o) \/ Quiet(o)
  <2>1. Placed(c)'
    BY <1>2 DEF Placed, Goes2
  <2>2. \A o \in Streams : running'[o] => o = stream'
    BY <1>2, <1>3 DEF IInv, SoloInv, RunInv
  <2>3. ASSUME NEW o \in Streams, ~running'[o], o # s PROVE Quiet(o)
    BY <1>2, <1>3, <2>3, QuietUnlessRuns DEF IInv
  <2>4. ~Held(s) => Quiet(s)
    BY <1>3, NoHandleNoTask DEF IInv, SoloInv, Quiet
  <2> QED
    BY <1>3, <2>1, <2>2, <2>3, <2>4
<1> QED
  BY <1>1, <1>2, <1>3, FlagsStep

(* The first task of a stream is created, or the start is refused.         *)
THEOREM CreateKeeps ==
  ASSUME IInv, NEW r \in Rtsp, Create(r) \/ Created(r)
  PROVE  IInv'
<1> DEFINE s == call[r].on
<1>1. /\ ~At(r, "idle") /\ ~At(r, "wait") /\ s \in Streams
      /\ ~overlap => s = stream /\ running[stream]
  BY DEF Create, Created, At, IInv, ArgInv, Argued, SoloInv, PlaceInv, Placed
<1>2. /\ First(s) \in Kinds /\ StreamOf(First(s)) = s
      /\ KindsOf(s) = IF s = "realtime" THEN {First(s), "control"} ELSE {First(s)}
      /\ handle \subseteq Kinds /\ started \in Streams \cup {"none"}
  BY <1>1 DEF First, Kinds, StreamOf, Streams, KindsOf, IInv, TypeOK
<1> HIDE DEF s
<1>3. UNCHANGED <<stream, memory, using, requests, excused, overlap>>
  BY DEF Create, Created, OnlyStart
<1>4. CASE Create(r)
  <2>1. ~overlap => ~Held(s)
    BY <1>4 DEF Create, At, IInv, SoloInv, PlaceInv, Placed, s
  <2>2. CASE Creates(First(s)) /\ Goto(r, "created", s) /\ UNCHANGED running
    <3>1. "created" \in Places /\ started' = started
      BY <2>2 DEF Places, Goto
    <3>2. PICK c \in CallSet : /\ call' = [call EXCEPT ![r] = c] /\ Argued(c)
                               /\ c.pc = "created" /\ c.on = s
      BY <1>1, <2>2, <3>1, GotoIs
    <3>3. ~overlap => First(s) \notin handle
      BY <1>2, <2>1 DEF Held
    <3>4. ~overlap => Placed(c)'
      <4>1. ~overlap /\ s = "realtime" => "control" \notin handle'
        BY <1>2, <2>1, <2>2 DEF Creates, Held, First
      <4> QED
        BY <1>1, <1>3, <2>2, <3>2, <4>1 DEF Placed, Goes2
    <3> QED
      BY <1>1, <1>2, <1>3, <2>2, <3>1, <3>2, <3>3, <3>4, CreatesKeeps
  <2>3. CASE CreatesNot(First(s)) /\ Refused(r) /\ Off(s)
    <3>1. /\ started' = started /\ handle' \subseteq Kinds /\ UNCHANGED task
          /\ ~overlap => handle' = handle
      BY <1>2, <2>1, <2>3 DEF CreatesNot, Refused, Held
    <3>2. /\ Idle \in CallSet /\ Idle.pc = "idle" /\ Argued(Idle)
          /\ call' = [call EXCEPT ![r] = Idle]
      BY <2>3 DEF Idle, CallSet, Places, Argued, Refused
    <3> QED
      BY <1>1, <1>3, <2>1, <2>3, <3>1, <3>2, OffKeeps
  <2> QED
    BY <1>4, <2>2, <2>3 DEF Create, s
<1>5. CASE Created(r)
  <2>1. UNCHANGED <<handle, task>>
    BY <1>5 DEF Created
  <2>2. ~overlap => (s = "realtime" => "control" \notin handle)
    BY <1>5 DEF Created, At, IInv, SoloInv, PlaceInv, Placed, s
  <2>3. CASE First(s) \notin handle
    <3>1. Off(s) /\ Refused(r)
      BY <1>5, <2>3 DEF Created, s
    <3>2. /\ Idle \in CallSet /\ Idle.pc = "idle" /\ Argued(Idle)
          /\ call' = [call EXCEPT ![r] = Idle] /\ started' = started
      BY <3>1 DEF Idle, CallSet, Places, Argued, Refused
    <3>3. ~overlap => ~Held(s)
      BY <1>2, <2>2, <2>3 DEF Held
    <3> QED
      BY <1>1, <1>2, <1>3, <2>1, <3>1, <3>2, <3>3, OffKeeps
  <2>4. CASE First(s) \in handle /\ s = "buffered"
    <3>1. Return(r) /\ started' \in Streams \cup {"none"} /\ UNCHANGED running
      BY <1>2, <1>5, <2>4 DEF Created, Granted, s, Streams
    <3>2. PICK c \in CallSet : /\ call' = [call EXCEPT ![r] = c] /\ Argued(c)
                               /\ c.pc \in Names \cup {"idle", "begin", "format2"}
      BY <3>1, ReturnIs
    <3>3. Placed(c)'
      BY <3>2, NothingPlaced
    <3> QED
      BY <1>1, <1>3, <2>1, <3>1, <3>2, <3>3, GoesOnKeeps DEF flags
  <2>5. CASE First(s) \in handle /\ s # "buffered"
    <3>1. Goto(r, "control", "realtime") /\ started' = started /\ UNCHANGED running
      BY <1>5, <2>5 DEF Created, Goto, s
    <3>2. "control" \in Places /\ s = "realtime"
      BY <1>1, <2>5 DEF Places, Streams
    <3>3. PICK c \in CallSet : /\ call' = [call EXCEPT ![r] = c] /\ Argued(c)
                               /\ c.pc = "control" /\ c.on = s
      BY <1>1, <3>1, <3>2, GotoIs
    <3>4. ~overlap => Placed(c)'
      BY <1>1, <1>3, <2>1, <2>2, <3>1, <3>2, <3>3 DEF Placed, Goes2
    <3> QED
      BY <1>1, <1>2, <1>3, <2>1, <3>1, <3>3, <3>4, GoesOnKeeps DEF flags
  <2> QED
    BY <2>3, <2>4, <2>5
<1> QED
  BY <1>4, <1>5

(* The control task is created, or the realtime stream stopped again.      *)
THEOREM ControlKeeps ==
  ASSUME IInv, NEW r \in Rtsp, Control(r) \/ Controlled(r)
  PROVE  IInv'
<1>1. /\ ~At(r, "idle") /\ ~At(r, "wait") /\ call[r].on = "realtime"
      /\ ~overlap => stream = "realtime" /\ running[stream]
  BY DEF Control, Controlled, At, IInv, ArgInv, Argued, SoloInv, PlaceInv, Placed
<1>2. /\ "control" \in Kinds /\ StreamOf("control") = "realtime" /\ "realtime" \in Streams
      /\ handle \subseteq Kinds /\ started \in Streams \cup {"none"}
      /\ {"controlled", "wait", "idle"} \subseteq Places
  BY DEF Kinds, StreamOf, Streams, Places, IInv, TypeOK
<1>3. UNCHANGED <<stream, memory, using, requests, excused, overlap>>
  BY DEF Control, Controlled, OnlyStart
<1>4. ASSUME Abort(r), UNCHANGED task, handle' \subseteq Kinds, ~overlap => handle' = handle
      PROVE  IInv'
  <2> DEFINE c == [pc |-> "wait", todo |-> <<>>, on |-> "realtime", then |-> "idle"]
  <2>1. c \in CallSet /\ c.pc = "wait" /\ c.on = "realtime" /\ c.then = "idle" /\ Argued(c)
    BY <1>2 DEF CallSet, Argued
  <2>2. call' = [call EXCEPT ![r] = c] /\ Off("realtime") /\ started' = started
    BY <1>4 DEF Abort
  <2> HIDE DEF c
  <2> QED
    BY <1>1, <1>2, <1>3, <1>4, <2>1, <2>2, OffKeeps
<1>5. CASE Control(r)
  <2>1. ~overlap => "control" \notin handle
    BY <1>1, <1>5 DEF Control, At, IInv, SoloInv, PlaceInv, Placed
  <2>2. CASE Creates("control") /\ Goto(r, "controlled", "realtime") /\ UNCHANGED running
    <3>1. started' = started
      BY <2>2 DEF Goto
    <3>2. PICK c \in CallSet : /\ call' = [call EXCEPT ![r] = c] /\ Argued(c)
                               /\ c.pc = "controlled" /\ c.on = "realtime"
      BY <1>2, <2>2, GotoIs
    <3>3. ~overlap => Placed(c)'
      BY <1>1, <1>3, <2>2, <3>2 DEF Placed, Goes2
    <3> QED
      BY <1>1, <1>2, <1>3, <2>1, <2>2, <3>1, <3>2, <3>3, CreatesKeeps
  <2>3. CASE CreatesNot("control") /\ Abort(r)
    <3>1. UNCHANGED task /\ handle' \subseteq Kinds /\ (~overlap => handle' = handle)
      BY <1>2, <2>1, <2>3 DEF CreatesNot
    <3> QED
      BY <1>4, <2>3, <3>1
  <2> QED
    BY <1>5, <2>2, <2>3 DEF Control
<1>6. CASE Controlled(r)
  <2>1. UNCHANGED <<handle, task>>
    BY <1>6 DEF Controlled
  <2>2. CASE "control" \in handle
    <3>1. Return(r) /\ started' \in Streams \cup {"none"} /\ UNCHANGED running
      BY <1>2, <1>6, <2>2 DEF Controlled, Granted
    <3>2. PICK c \in CallSet : /\ call' = [call EXCEPT ![r] = c] /\ Argued(c)
                               /\ c.pc \in Names \cup {"idle", "begin", "format2"}
      BY <3>1, ReturnIs
    <3>3. Placed(c)'
      BY <3>2, NothingPlaced
    <3> QED
      BY <1>1, <1>3, <2>1, <3>1, <3>2, <3>3, GoesOnKeeps DEF flags
  <2>3. CASE "control" \notin handle
    BY <1>2, <1>4, <1>6, <2>1, <2>3 DEF Controlled
  <2> QED
    BY <2>2, <2>3
<1> QED
  BY <1>5, <1>6

(* A wait ends with the tasks gone, or given up on.                        *)
THEOREM WaitKeeps ==
  ASSUME IInv, NEW r \in Rtsp, Wait(r)
  PROVE  IInv'
<1>1. /\ ~At(r, "idle") /\ call[r].on \in Streams /\ Argued(call[r]) /\ call[r] \in CallSet
      /\ At(r, "wait") /\ call[r].pc = "wait"
  BY DEF Wait, At, IInv, ArgInv, Argued, TypeOK, CallSet
<1>s. PICK s \in Streams : s = call[r].on
  BY <1>1
<1>2. /\ packet \in BOOLEAN /\ excused \subseteq Tasks /\ Living(s) \subseteq Tasks
      /\ decoder \in Decoders \cup {NoDecoder} /\ heap \subseteq Decoders
  BY DEF IInv, TypeOK, Living
<1>3. UNCHANGED <<flags, decoder, heap, task, using, requests, overlap, started>>
  BY DEF Wait
<1>4. \/ Held(s) /\ Excuse(Living(s)) /\ UNCHANGED packet
      \/ ~Held(s) /\ packet' = (packet /\ s # "buffered") /\ Excuse({})
  BY <1>s DEF Wait
<1>5. PICK c \in CallSet : /\ call' = [call EXCEPT ![r] = c]
                           /\ c.pc = call[r].then /\ c.on = s /\ Argued(c)
  <2> DEFINE d == [call[r] EXCEPT !.pc = call[r].then]
  <2>1. d \in CallSet /\ d.pc = call[r].then /\ d.on = s /\ Argued(d)
    BY <1>1, <1>s DEF CallSet, Argued, Places
  <2>2. call' = [call EXCEPT ![r] = d]
    BY DEF Wait, To
  <2> HIDE DEF d
  <2> QED
    BY <2>1, <2>2
<1>6. packet' \in BOOLEAN /\ excused' \subseteq Tasks
  BY <1>2, <1>4 DEF Excuse
<1>7. ASSUME ~overlap
      PROVE  /\ excused \subseteq excused' /\ Placed(c)' /\ MemoryInv'
             /\ \A o \in Streams : At(r, "wait") /\ call[r].on = o => Quiet(o)'
  <2>1. SoloInv /\ UNCHANGED <<stream, running, handle>>
    BY <1>3, <1>7 DEF IInv, flags
  <2>2. excused \subseteq excused'
    BY <1>4, <1>7 DEF Excuse
  <2>3. Placed(c)'
    BY <1>1, <1>5, <1>s, <2>1 DEF SoloInv, PlaceInv, Placed, Goes2, Argued
  <2>4. Quiet(s)'
    <3> SUFFICES ASSUME NEW t \in Tasks, Lives(t), StreamOf(t[1]) = s PROVE t \in excused'
      BY <1>3 DEF Quiet, Lives
    <3>1. Held(s)
      BY <1>1, <2>1, NoHandleNoTask DEF SoloInv
    <3> QED
      BY <1>4, <1>7, <3>1 DEF Excuse, Living
  <2>5. MemoryInv'
    <3>1. ASSUME NEW i \in {1, 2}, task[<<"buffered", i>>] \in {"receive", "decode"}
          PROVE  packet'
      <4>1. /\ <<"buffered", i>> \in Tasks /\ StreamOf(<<"buffered", i>>[1]) = "buffered"
            /\ Lives(<<"buffered", i>>) /\ "buffered" \in Streams
        BY <3>1, TaskIs DEF Kinds, StreamOf, Lives, Streams
      <4>2. s = "buffered" => Held(s)
        BY <2>1, <4>1, NoHandleNoTask DEF SoloInv
      <4> QED
        BY <1>2, <1>4, <2>1, <3>1, <4>1, <4>2 DEF SoloInv, MemoryInv
    <3> QED
      BY <1>3, <2>1, <2>2, <3>1 DEF SoloInv, MemoryInv
  <2> QED
    BY <1>s, <2>2, <2>3, <2>4, <2>5
<1> QED
  BY <1>1, <1>2, <1>3, <1>5, <1>6, <1>7, MemoryStep

(* The decoder is freed, and another one created: no task uses the freed   *)
(* one that has not been given up on.                                      *)
THEOREM DecoderKeeps ==
  ASSUME IInv, NEW r \in Rtsp, Destroy(r) \/ Format(r) \/ FormatCreates(r)
  PROVE  IInv'
<1>1. ~At(r, "idle") /\ ~At(r, "wait")
  BY DEF Destroy, Format, FormatCreates, At
<1>2. /\ packet \in BOOLEAN /\ excused \subseteq Tasks
      /\ decoder \in Decoders \cup {NoDecoder} /\ heap \subseteq Decoders
      /\ \A t \in Tasks : using[t] # NoDecoder <=> task[t] = "decode"
  BY DEF IInv, TypeOK
<1>3. UNCHANGED <<flags, packet, task, using, requests, overlap, started>>
  BY DEF Destroy, Format, FormatCreates, history
<1>4. \E c \in CallSet : /\ call' = [call EXCEPT ![r] = c] /\ Argued(c)
                         /\ c.pc \in Names \cup {"idle", "begin", "format2"}
  BY ReturnIs, ToIs DEF Destroy, Format, FormatCreates
<1>5. PICK c \in CallSet : /\ call' = [call EXCEPT ![r] = c] /\ Argued(c)
                           /\ c.pc \in Names \cup {"idle", "begin", "format2"}
  BY <1>4
<1>6. Placed(c)'
  BY <1>5, NothingPlaced
<1>7. ASSUME decoder' \in Decoders \cup {NoDecoder}, heap' \subseteq Decoders,
             excused' \subseteq Tasks, ~overlap => excused \subseteq excused',
             decoder' # NoDecoder => decoder' \in heap',
             ~overlap => \A t \in Tasks \ excused' : using[t] # NoDecoder => using[t] \in heap'
      PROVE  IInv'
  <2>1. ~overlap => MemoryInv'
    BY <1>3, <1>7 DEF IInv, SoloInv, MemoryInv
  <2> QED
    BY <1>1, <1>2, <1>3, <1>5, <1>6, <1>7, <2>1, MemoryStep
<1>8. CASE Destroy(r)
  <2>1. /\ heap' = heap \ {decoder} /\ decoder' = NoDecoder /\ excused' = excused
    BY <1>8 DEF Destroy, history
  <2>2. ASSUME ~overlap, NEW t \in Tasks \ excused PROVE using[t] = NoDecoder
    <3>1. Quiet("realtime") /\ Quiet("buffered")
      <4>1. ~running["realtime"] /\ ~running["buffered"]
        BY <1>8, <2>2 DEF Destroy, At, IInv, SoloInv, PlaceInv, Placed, Goes2
      <4>2. "realtime" \in Streams /\ "buffered" \in Streams
        BY DEF Streams
      <4> QED
        BY <1>1, <2>2, <4>1, <4>2, QuietUnlessRuns DEF IInv
    <3>2. StreamOf(t[1]) \in {"realtime", "buffered"}
      BY DEF StreamOf
    <3>3. ~Lives(t)
      BY <2>2, <3>1, <3>2 DEF Quiet
    <3> QED
      BY <1>2, <3>3 DEF Lives
  <2> QED
    BY <1>2, <1>7, <2>1, <2>2
<1>9. CASE Format(r)
  <2>1. /\ heap' = heap \ {decoder} /\ decoder' = NoDecoder
        /\ excused' = IF overlap THEN {} ELSE excused \cup {t \in Tasks : Lives(t)}
    BY <1>9 DEF Format, Excuse
  <2>2. \A t \in Tasks : using[t] # NoDecoder => Lives(t)
    BY <1>2 DEF Lives
  <2> QED
    BY <1>2, <1>7, <2>1, <2>2
<1>10. CASE FormatCreates(r)
  <2>1. /\ heap \subseteq heap' /\ heap' \subseteq Decoders
        /\ decoder' \in Decoders \cup {NoDecoder}
        /\ decoder' # NoDecoder => decoder' \in heap'
        /\ excused' = excused
    BY <1>2, <1>10 DEF FormatCreates, history
  <2>2. ~overlap => \A t \in Tasks \ excused : using[t] # NoDecoder => using[t] \in heap
    BY DEF IInv, SoloInv, MemoryInv
  <2> QED
    BY <1>2, <1>7, <2>1, <2>2
<1> QED
  BY <1>8, <1>9, <1>10

(* A request comes while no other is served, or calls overlap from now on. *)
THEOREM RequestKeeps ==
  ASSUME IInv, NEW r \in Rtsp, Request(r)
  PROVE  IInv'
<1>1. At(r, "idle") /\ requests < MaxRequests
  BY DEF Request
<1>2. PICK p \in Programs : call' = [call EXCEPT ![r] = Load(p)]
  BY DEF Request
<1>3. p \in Seq(Calls)
  <2>1. /\ {Call(n) : n \in Names \ {"type"}} \subseteq Calls
        /\ SetType("realtime") \in Calls /\ SetType("buffered") \in Calls
    BY DEF Call, SetType, Calls, Names, Streams
  <2>2. /\ Call("format") \in Calls /\ Call("start") \in Calls /\ Call("stop") \in Calls
        /\ Call("keep") \in Calls /\ Call("restart") \in Calls
    BY <2>1 DEF Names
  <2>3. Record \in Seq(Calls) /\ Start("buffered") \in Seq(Calls)
    BY <2>1, <2>2 DEF Record, Start
  <2>4. Announce \in Seq(Calls) /\ SetupTransport \in Seq(Calls) /\ Teardown \in Seq(Calls)
    BY <2>1, <2>2 DEF Announce, SetupTransport, Teardown
  <2>5. <<SetType("realtime"), Call("format")>> \in Seq(Calls)
    BY <2>1, <2>2
  <2>6. /\ <<SetType("buffered"), Call("format")>> \in Seq(Calls)
        /\ <<SetType("buffered"), Call("start")>> \in Seq(Calls)
    BY <2>1, <2>2
  <2>7. SetupRealtime \in Seq(Calls)
    BY <2>3, <2>5 DEF SetupRealtime
  <2>8. SetupBuffered \in Seq(Calls)
    BY <2>3, <2>6 DEF SetupBuffered
  <2> QED
    BY <2>3, <2>4, <2>7, <2>8 DEF Programs
<1>4. PICK c \in CallSet : /\ call' = [call EXCEPT ![r] = c] /\ Argued(c)
                           /\ c.pc \in Names \cup {"idle", "begin", "format2"}
  BY <1>2, <1>3, LoadIs
<1>5. Placed(c)'
  BY <1>4, NothingPlaced
<1>6. /\ UNCHANGED <<stream, running, handle, decoder, heap, packet, task, using>>
      /\ requests' = requests + 1 /\ started' = "none"
      /\ overlap' = (overlap \/ \E o \in Rtsp \ {r} : ~At(o, "idle"))
      /\ excused' = IF overlap' THEN {} ELSE excused
  BY DEF Request, flags, memory
<1>7. TypeOK'
  <2>1. requests' \in 0..MaxRequests
    BY <1>1, <1>6, StreamControlAssumption DEF IInv, TypeOK
  <2> QED
    BY <1>4, <1>6, <2>1, Moves DEF IInv, TypeOK, CallSet
<1>8. ArgInv'
  BY <1>4, <1>6, MovesArgued DEF IInv
<1>9. ASSUME ~overlap' PROVE SoloInv'
  <2>1. /\ TypeOK /\ SoloInv /\ ~overlap
        /\ \A o \in Rtsp : At(o, "idle")
        /\ excused' = excused
    BY <1>1, <1>6, <1>9 DEF IInv
  <2>2. /\ call'[r] = c /\ \A o \in Rtsp \ {r} : call'[o] = call[o]
    BY <1>4, <2>1, Moves
  <2>3. \A o \in Rtsp \ {r} : call'[o].pc = "idle"
    BY <2>1, <2>2 DEF At
  <2>4. Alone'
    BY <2>3 DEF Alone, At
  <2>5. PlaceInv'
    <3> SUFFICES ASSUME NEW o \in Rtsp PROVE Placed(call[o])'
      BY DEF PlaceInv
    <3>1. CASE o = r
      BY <1>4, <1>5, <2>2, <3>1 DEF Placed, Goes2, Held
    <3>2. CASE o # r
      BY <2>3, <3>2 DEF Placed, Goes2
    <3> QED
      BY <3>1, <3>2
  <2>6. WaitInv'
    <3>1. \A s \in Streams : ~Waits(s)
      BY <2>1 DEF Waits, At
    <3> QED
      BY <1>6, <2>1, <3>1 DEF SoloInv, WaitInv, Quiet, Lives
  <2>7. HandleInv' /\ RunInv' /\ OldInv' /\ MemoryInv'
    BY <1>6, <2>1 DEF SoloInv, HandleInv, RunInv, OldInv, MemoryInv, Lives
  <2> QED
    BY <2>4, <2>5, <2>6, <2>7 DEF SoloInv
<1> QED
  BY <1>7, <1>8, <1>9 DEF IInv

-----------------------------------------------------------------------------
(* The invariant and what follows from it *)

(* It holds at first.                                                      *)
THEOREM InitHolds == Init => IInv
<1> SUFFICES ASSUME Init PROVE IInv
  OBVIOUS
<1>1. /\ stream = "realtime" /\ running = [s \in Streams |-> FALSE] /\ handle = {}
      /\ task = [t \in Tasks |-> "none"] /\ using = [t \in Tasks |-> NoDecoder]
      /\ decoder = NoDecoder /\ heap = {} /\ packet = FALSE
      /\ call = [r \in Rtsp |-> Idle] /\ requests = 0
      /\ excused = {} /\ overlap = FALSE /\ started = "none"
  BY DEF Init
<1>2. Idle \in CallSet /\ Idle.pc = "idle"
  BY DEF Idle, CallSet, Places
<1>3. TypeOK
  <2>1. call \in [Rtsp -> CallSet]
    BY <1>1, <1>2
  <2>2. stream \in Streams /\ running \in [Streams -> BOOLEAN]
    BY <1>1 DEF Streams
  <2>3. /\ task \in [Tasks -> {"none", "accept", "receive", "decode"}]
        /\ using \in [Tasks -> Decoders \cup {NoDecoder}]
        /\ \A t \in Tasks : using[t] # NoDecoder <=> task[t] = "decode"
    BY <1>1
  <2>4. requests \in 0..MaxRequests
    BY <1>1, StreamControlAssumption
  <2>5. packet \in BOOLEAN /\ overlap \in BOOLEAN
    BY <1>1
  <2> QED
    BY <1>1, <2>1, <2>2, <2>3, <2>4, <2>5 DEF TypeOK, CallSet
<1>4. ArgInv
  BY <1>1, <1>2 DEF ArgInv, Argued
<1>5. \A t \in Tasks : ~Lives(t)
  BY <1>1 DEF Lives
<1>6. Alone /\ PlaceInv
  BY <1>1, <1>2 DEF Alone, At, PlaceInv, Placed, Goes2
<1>7. HandleInv /\ RunInv /\ OldInv /\ WaitInv
  BY <1>1, <1>5, TaskIs DEF HandleInv, RunInv, OldInv, WaitInv, Quiet
<1>8. MemoryInv
  <2>1. \A i \in {1, 2} : <<"buffered", i>> \in Tasks
    BY TaskIs DEF Kinds
  <2> QED
    BY <1>1, <2>1 DEF MemoryInv
<1> QED
  BY <1>3, <1>4, <1>6, <1>7, <1>8 DEF IInv, SoloInv

(* No step breaks it.                                                      *)
THEOREM StepKeeps == IInv /\ [Next]_vars => IInv'
<1> SUFFICES ASSUME IInv, [Next]_vars PROVE IInv'
  OBVIOUS
<1>1. CASE UNCHANGED vars
  BY <1>1 DEF vars, flags, memory, history, IInv, TypeOK, ArgInv, Argued, SoloInv, Alone,
     HandleInv, RunInv, OldInv, WaitInv, Waits, Quiet, PlaceInv, Placed, Goes2, MemoryInv,
     Lives, Held, At
<1>2. ASSUME NEW t \in Tasks, TaskStep(t) PROVE IInv'
  BY <1>2, TaskKeeps
<1>3. ASSUME NEW r \in Rtsp, Request(r) PROVE IInv'
  BY <1>3, RequestKeeps
<1>4. ASSUME NEW r \in Rtsp, RtspStep(r) PROVE IInv'
  BY <1>4, WaitKeeps, StopKeeps, DecoderKeeps, TypeKeeps, StartKeeps, BeginKeeps,
     CreateKeeps, ControlKeeps DEF RtspStep
<1> QED
  BY <1>1, <1>2, <1>3, <1>4 DEF Next

(* So it holds throughout.                                                 *)
THEOREM Invariance == Spec => []IInv
BY InitHolds, StepKeeps, PTL DEF Spec

(* Every variable has its type, and a call its record, also where the      *)
(* calls of two RTSP tasks overlap.                                        *)
THEOREM TypeCorrect == Spec => []TypeOK
<1>1. IInv => TypeOK
  BY DEF IInv
<1> QED
  BY <1>1, Invariance, PTL

(* While calls come one after the other, a handle stands for a task, no    *)
(* stream has two tasks of a kind, one stream runs, and at most one task   *)
(* that was not given up on decodes: audio_receiver needs no lock then.    *)
THEOREM OneTaskOfEachKind == Spec => []OneOfEach
<1>1. IInv => OneOfEach
  <2> SUFFICES ASSUME IInv, ~overlap
               PROVE  /\ handle = {t[1] : t \in {u \in Tasks : Lives(u)}}
                      /\ \A k \in Kinds : ~Lives(<<k, 2>>)
                      /\ ~\A s \in Streams : running[s]
                      /\ Cardinality({t \in Tasks : task[t] = "decode"} \ excused) <= 1
    BY DEF OneOfEach
  <2>1. TypeOK /\ ArgInv /\ HandleInv /\ RunInv /\ OldInv
    BY DEF IInv, SoloInv
  <2>2. \A t \in Tasks : Lives(t) => t = <<t[1], 1>> /\ t[1] \in handle
    <3> SUFFICES ASSUME NEW t \in Tasks, Lives(t) PROVE t = <<t[1], 1>> /\ t[1] \in handle
      OBVIOUS
    <3>1. t[1] \in Kinds /\ t[2] \in {1, 2} /\ t = <<t[1], t[2]>>
      BY TaskIs
    <3> QED
      BY <2>1, <3>1 DEF HandleInv
  <2>3. handle = {t[1] : t \in {u \in Tasks : Lives(u)}}
    <3>1. \A k \in handle : <<k, 1>> \in Tasks /\ Lives(<<k, 1>>) /\ <<k, 1>>[1] = k
      BY <2>1, TaskIs DEF TypeOK, HandleInv
    <3> QED
      BY <2>2, <3>1
  <2>4. ~\A s \in Streams : running[s]
    BY <2>1 DEF RunInv, Streams
  <2>5. Cardinality({t \in Tasks : task[t] = "decode"} \ excused) <= 1
    <3> DEFINE D == {t \in Tasks : task[t] = "decode"} \ excused
               x == <<IF stream = "buffered" THEN "buffered" ELSE "data", 1>>
    <3>1. ASSUME NEW t \in D PROVE t = x
      <4>1. t \in Tasks /\ Lives(t) /\ t \notin excused /\ t[1] # "control"
        BY <2>1, <3>1 DEF Lives, ArgInv
      <4>2. t = <<t[1], 1>> /\ StreamOf(t[1]) = stream /\ t[1] \in Kinds
        BY <2>1, <2>2, <4>1, TaskIs DEF OldInv
      <4>3. t[1] = IF stream = "buffered" THEN "buffered" ELSE "data"
        BY <4>1, <4>2 DEF StreamOf, Kinds
      <4> QED
        BY <4>2, <4>3
    <3> HIDE DEF D, x
    <3>2. D \subseteq {x}
      BY <3>1
    <3>3. IsFiniteSet({x}) /\ Cardinality({x}) = 1
      BY FS_Singleton
    <3>4. Cardinality(D) <= 1
      BY <3>2, <3>3, FS_Subset
    <3> QED
      BY <3>4 DEF D
  <2> QED
    BY <2>1, <2>3, <2>4, <2>5 DEF HandleInv
<1> QED
  BY <1>1, Invariance, PTL

(* While calls come one after the other, what a task decodes with and the  *)
(* buffer it fills are not freed under it, but for a task a wait gave up   *)
(* on and a decoder replaced by a new format.                              *)
THEOREM NothingFreedInUse == Spec => []InUseIsAllocated
<1>1. IInv => InUseIsAllocated
  BY DEF IInv, SoloInv, MemoryInv, InUseIsAllocated
<1> QED
  BY <1>1, Invariance, PTL

-----------------------------------------------------------------------------
(* A start that is granted: what each place says of the calls to come      *)

(* What SETUP of a buffered stream still does once the stream is started.  *)
Again == <<SetType("buffered"), Call("start")>>

(* The calls that can be left when a type, or a format, is set.            *)
AfterType(s) ==
  IF s = "realtime"
  THEN {<<>>, <<Call("start")>>, <<Call("format"), SetType("realtime"), Call("start")>>,
        <<Call("restart")>>}
  ELSE {<<Call("format"), SetType("buffered"), Call("keep"), SetType("buffered"), Call("start")>>,
        <<Call("keep"), SetType("buffered"), Call("start")>>,
        <<Call("start")>>, <<Call("keep")>>}
AfterFormat ==
  {<<>>, <<SetType("realtime")>>, <<SetType("realtime"), Call("start")>>,
   <<SetType("buffered"), Call("keep"), SetType("buffered"), Call("start")>>}

Starts(c) ==
  Goes2(c, "begin") \/ c.pc \in {"ending", "create", "created", "control", "controlled"}
Last(c) ==
  c.pc \in {"idle", "start", "restart"} \/ \E l \in {"stop", "stop2", "destroy", "idle"} : Goes2(c, l)

(* The calls that are left at each place: this holds for calls that        *)
(* overlap as well.                                                        *)
Ahead(c) ==
  /\ c.pc = "type" => c.todo \in AfterType(c.on)
  /\ Goes2(c, "typed") => c.todo \in AfterType(Other(c.on))
  /\ c.pc \in {"format", "format2"} => c.todo \in AfterFormat
  /\ c.pc = "keep" \/ Starts(c) => c.todo \in {<<>>, Again}
  /\ Last(c) => c.todo = <<>>
AheadInv == \A r \in Rtsp : Ahead(call[r])

(* A start that is not the last of a request's calls is one of the         *)
(* buffered stream.                                                        *)
Kept(c) == c.pc = "keep" \/ (Starts(c) /\ c.todo # <<>>) => stream = "buffered"
KeptInv == ~overlap => \A r \in Rtsp : Kept(call[r])

(* A buffered stream marked as running has a task, or is getting one.      *)
Created1 == Lives(<<"buffered", 1>>)
Creating(c) == c.pc = "create" /\ c.on = "buffered"
LiveInv == running["buffered"] => Created1 \/ \E r \in Rtsp : Creating(call[r])

(* What a request does after its start was granted leaves the stream alone.*)
Rest(c) ==
  \/ c.pc = "type" /\ c.on = "buffered" /\ c.todo \in {<<Call("start")>>, <<Call("keep")>>}
  \/ c.pc \in {"start", "keep"} /\ c.todo = <<>>
StartInv ==
  started # "none" =>
    /\ ~overlap /\ stream = started /\ running[started]
    /\ \A r \in Rtsp : At(r, "idle") \/ (started = "buffered" /\ Rest(call[r]))

GrantInv == AheadInv /\ KeptInv /\ LiveInv /\ StartInv

(* What is made of a sequence of calls: the first is begun, the others are *)
(* left.                                                                   *)
BeginsWith(td, a, rest) ==
  Load(td).pc = a.name /\ Load(td).on = a.on /\ Load(td).todo = rest
LEMMA LoadBegins == ASSUME NEW td, td # <<>> PROVE BeginsWith(td, Head(td), Tail(td))
BY DEF BeginsWith, Load, Idle

(* The same for each of their lengths.                                     *)
LEMMA Load1 ==
  \A a : BeginsWith(<<a>>, a, <<>>)
<1> SUFFICES ASSUME NEW a
             PROVE  BeginsWith(<<a>>, a, <<>>)
  OBVIOUS
<1>1. <<a>> # <<>> /\ Head(<<a>>) = a /\ Tail(<<a>>) = <<>>
  OBVIOUS
<1> QED
  BY <1>1, LoadBegins

(* ... two calls...                                                       *)
LEMMA Load2 ==
  \A a, b : BeginsWith(<<a, b>>, a, <<b>>)
<1> SUFFICES ASSUME NEW a, NEW b
             PROVE  BeginsWith(<<a, b>>, a, <<b>>)
  OBVIOUS
<1>1. <<a, b>> # <<>> /\ Head(<<a, b>>) = a /\ Tail(<<a, b>>) = <<b>>
  OBVIOUS
<1> QED
  BY <1>1, LoadBegins

(* ... three calls...                                                     *)
LEMMA Load3 ==
  \A a, b, c : BeginsWith(<<a, b, c>>, a, <<b, c>>)
<1> SUFFICES ASSUME NEW a, NEW b, NEW c
             PROVE  BeginsWith(<<a, b, c>>, a, <<b, c>>)
  OBVIOUS
<1>1. <<a, b, c>> # <<>> /\ Head(<<a, b, c>>) = a /\ Tail(<<a, b, c>>) = <<b, c>>
  OBVIOUS
<1> QED
  BY <1>1, LoadBegins

(* ... four calls...                                                      *)
LEMMA Load4 ==
  \A a, b, c, d : BeginsWith(<<a, b, c, d>>, a, <<b, c, d>>)
<1> SUFFICES ASSUME NEW a, NEW b, NEW c, NEW d
             PROVE  BeginsWith(<<a, b, c, d>>, a, <<b, c, d>>)
  OBVIOUS
<1>1. <<a, b, c, d>> # <<>> /\ Head(<<a, b, c, d>>) = a /\ Tail(<<a, b, c, d>>) = <<b, c, d>>
  OBVIOUS
<1> QED
  BY <1>1, LoadBegins

(* ... five calls...                                                      *)
LEMMA Load5 ==
  \A a, b, c, d, e : BeginsWith(<<a, b, c, d, e>>, a, <<b, c, d, e>>)
<1> SUFFICES ASSUME NEW a, NEW b, NEW c, NEW d, NEW e
             PROVE  BeginsWith(<<a, b, c, d, e>>, a, <<b, c, d, e>>)
  OBVIOUS
<1>1. <<a, b, c, d, e>> # <<>> /\ Head(<<a, b, c, d, e>>) = a /\ Tail(<<a, b, c, d, e>>) = <<b, c, d, e>>
  OBVIOUS
<1> QED
  BY <1>1, LoadBegins

(* ... six calls...                                                       *)
LEMMA Load6 ==
  \A a, b, c, d, e, f : BeginsWith(<<a, b, c, d, e, f>>, a, <<b, c, d, e, f>>)
<1> SUFFICES ASSUME NEW a, NEW b, NEW c, NEW d, NEW e, NEW f
             PROVE  BeginsWith(<<a, b, c, d, e, f>>, a, <<b, c, d, e, f>>)
  OBVIOUS
<1>1. <<a, b, c, d, e, f>> # <<>> /\ Head(<<a, b, c, d, e, f>>) = a /\ Tail(<<a, b, c, d, e, f>>) = <<b, c, d, e, f>>
  OBVIOUS
<1> QED
  BY <1>1, LoadBegins


(* Two sequences one after the other.                                      *)
LEMMA Joins ==
  /\ \A a, b : <<a, b>> \o <<>> = <<a, b>>
  /\ \A a, b, c, d : <<a, b>> \o <<c, d>> = <<a, b, c, d>>
  /\ \A a, b, c, d, e, f : <<a, b, c, d>> \o <<e, f>> = <<a, b, c, d, e, f>>
<1>1. ASSUME NEW a, NEW b PROVE <<a, b>> \o <<>> = <<a, b>>
  <2>1. <<a, b>> \in Seq({a, b})
    OBVIOUS
  <2> QED
    BY <2>1, ConcatEmptySeq
<1>2. ASSUME NEW a, NEW b, NEW c, NEW d PROVE <<a, b>> \o <<c, d>> = <<a, b, c, d>>
  <2> DEFINE S == {a, b, c, d}
             l == <<a, b>> \o <<c, d>>
  <2>1. <<a, b>> \in Seq(S) /\ <<c, d>> \in Seq(S) /\ <<a, b, c, d>> \in Seq(S)
    OBVIOUS
  <2>2. l \in Seq(S) /\ Len(l) = 4 /\ l[1] = a /\ l[2] = b /\ l[3] = c /\ l[4] = d
    <3> HIDE DEF S
    <3> QED
      BY <2>1, ConcatProperties
  <2> HIDE DEF S, l
  <2>3. Len(l) = Len(<<a, b, c, d>>) /\ \A i \in 1 .. Len(l) : l[i] = <<a, b, c, d>>[i]
    BY <2>2
  <2> QED
    BY <2>1, <2>2, <2>3, SeqEqual DEF l
<1>3. ASSUME NEW a, NEW b, NEW c, NEW d, NEW e, NEW f
      PROVE  <<a, b, c, d>> \o <<e, f>> = <<a, b, c, d, e, f>>
  <2> DEFINE S == {a, b, c, d, e, f}
             l == <<a, b, c, d>> \o <<e, f>>
  <2>1. <<a, b, c, d>> \in Seq(S) /\ <<e, f>> \in Seq(S) /\ <<a, b, c, d, e, f>> \in Seq(S)
    OBVIOUS
  <2>2. /\ l \in Seq(S) /\ Len(l) = 6 /\ l[1] = a /\ l[2] = b /\ l[3] = c /\ l[4] = d
        /\ l[5] = e /\ l[6] = f
    <3> HIDE DEF S
    <3> QED
      BY <2>1, ConcatProperties
  <2> HIDE DEF S, l
  <2>3. Len(l) = Len(<<a, b, c, d, e, f>>) /\ \A i \in 1 .. Len(l) : l[i] = <<a, b, c, d, e, f>>[i]
    BY <2>2
  <2> QED
    BY <2>1, <2>2, <2>3, SeqEqual DEF l
<1> QED
  BY <1>1, <1>2, <1>3

(* What is known of a call that has just been loaded.                      *)
Fresh(c) ==
  Ahead(c) /\ c.pc \in {"idle", "format", "type", "start", "restart", "stop", "keep"}

(* The calls are named and have their stream.                              *)
LEMMA CallIs ==
  /\ \A n : Call(n).name = n /\ Call(n).on = "none"
  /\ \A s : SetType(s).name = "type" /\ SetType(s).on = s
BY DEF Call, SetType

(* The next call has the calls to come that its place allows: after the    *)
(* type was set...                                                         *)
LEMMA AfterTypeIs ==
  ASSUME NEW s \in Streams, NEW td \in AfterType(s)
  PROVE  /\ Fresh(Load(td)) /\ Load(td).pc # "stop"
         /\ Load(td).pc = "keep" => s = "buffered"
<1> DEFINE c == Load(td)
<1>1. CASE s = "realtime"
  <2>1. \/ td = <<>> \/ td = <<Call("start")>> \/ td = <<Call("restart")>>
        \/ td = <<Call("format"), SetType("realtime"), Call("start")>>
    BY <1>1 DEF AfterType
  <2>2. \/ c.pc = "idle" /\ c.todo = <<>>
        \/ c.pc = "start" /\ c.todo = <<>>
        \/ c.pc = "restart" /\ c.todo = <<>>
        \/ c.pc = "format" /\ c.todo = <<SetType("realtime"), Call("start")>>
    <3> HIDE DEF c
    <3>1. ASSUME td = <<>> PROVE c.pc = "idle" /\ c.todo = <<>>
      BY <3>1 DEF c, Load, Idle
    <3>2. ASSUME td = <<Call("start")>> PROVE c.pc = "start" /\ c.todo = <<>>
      BY <3>2, Load1, CallIs DEF BeginsWith, c
    <3>3. ASSUME td = <<Call("restart")>> PROVE c.pc = "restart" /\ c.todo = <<>>
      BY <3>3, Load1, CallIs DEF BeginsWith, c
    <3>4. ASSUME td = <<Call("format"), SetType("realtime"), Call("start")>>
          PROVE  c.pc = "format" /\ c.todo = <<SetType("realtime"), Call("start")>>
      BY <3>4, Load3, CallIs DEF BeginsWith, c
    <3> QED
      BY <2>1, <3>1, <3>2, <3>3, <3>4
  <2> HIDE DEF c
  <2>3. Ahead(c)
    BY <2>2 DEF Ahead, AfterFormat, Starts, Last, Goes2
  <2> QED
    BY <2>2, <2>3 DEF Fresh, c
<1>2. CASE s = "buffered"
  <2>1. \/ td = <<Call("start")>> \/ td = <<Call("keep")>>
        \/ td = <<Call("keep"), SetType("buffered"), Call("start")>>
        \/ td = <<Call("format"), SetType("buffered"), Call("keep"), SetType("buffered"),
                  Call("start")>>
    BY <1>2 DEF AfterType
  <2>2. \/ c.pc = "start" /\ c.todo = <<>>
        \/ c.pc = "keep" /\ c.todo \in {<<>>, Again}
        \/ /\ c.pc = "format"
           /\ c.todo = <<SetType("buffered"), Call("keep"), SetType("buffered"), Call("start")>>
    <3> HIDE DEF c
    <3>1. ASSUME td = <<Call("start")>> PROVE c.pc = "start" /\ c.todo = <<>>
      BY <3>1, Load1, CallIs DEF BeginsWith, c
    <3>2. ASSUME td = <<Call("keep")>> PROVE c.pc = "keep" /\ c.todo = <<>>
      BY <3>2, Load1, CallIs DEF BeginsWith, c
    <3>3. ASSUME td = <<Call("keep"), SetType("buffered"), Call("start")>>
          PROVE  c.pc = "keep" /\ c.todo = Again
      BY <3>3, Load3, CallIs DEF BeginsWith, c, Again
    <3>4. ASSUME td = <<Call("format"), SetType("buffered"), Call("keep"), SetType("buffered"),
                        Call("start")>>
          PROVE  /\ c.pc = "format"
                 /\ c.todo = <<SetType("buffered"), Call("keep"), SetType("buffered"), Call("start")>>
      BY <3>4, Load5, CallIs DEF BeginsWith, c
    <3> QED
      BY <2>1, <3>1, <3>2, <3>3, <3>4
  <2> HIDE DEF c
  <2>3. Ahead(c)
    BY <2>2 DEF Ahead, AfterFormat, Starts, Last, Goes2
  <2> QED
    BY <1>2, <2>2, <2>3 DEF Fresh, c
<1> QED
  BY <1>1, <1>2 DEF Streams

(* ... after the format was set...                                         *)
LEMMA AfterFormatIs ==
  ASSUME NEW td \in AfterFormat
  PROVE  Fresh(Load(td)) /\ Load(td).pc \in {"idle", "type"}
<1> DEFINE c == Load(td)
<1>1. \/ td = <<>> \/ td = <<SetType("realtime")>>
      \/ td = <<SetType("realtime"), Call("start")>>
      \/ td = <<SetType("buffered"), Call("keep"), SetType("buffered"), Call("start")>>
  BY DEF AfterFormat
<1> HIDE DEF c
<1>2. \/ c.pc = "idle" /\ c.todo = <<>>
      \/ c.pc = "type" /\ c.on = "realtime" /\ c.todo \in {<<>>, <<Call("start")>>}
      \/ /\ c.pc = "type" /\ c.on = "buffered"
         /\ c.todo = <<Call("keep"), SetType("buffered"), Call("start")>>
  <2>1. ASSUME td = <<>> PROVE c.pc = "idle" /\ c.todo = <<>>
    BY <2>1 DEF c, Load, Idle
  <2>2. ASSUME td = <<SetType("realtime")>>
        PROVE  c.pc = "type" /\ c.on = "realtime" /\ c.todo = <<>>
    BY <2>2, Load1, CallIs DEF BeginsWith, c
  <2>3. ASSUME td = <<SetType("realtime"), Call("start")>>
        PROVE  c.pc = "type" /\ c.on = "realtime" /\ c.todo = <<Call("start")>>
    BY <2>3, Load2, CallIs DEF BeginsWith, c
  <2>4. ASSUME td = <<SetType("buffered"), Call("keep"), SetType("buffered"), Call("start")>>
        PROVE  /\ c.pc = "type" /\ c.on = "buffered"
               /\ c.todo = <<Call("keep"), SetType("buffered"), Call("start")>>
    BY <2>4, Load4, CallIs DEF BeginsWith, c
  <2> QED
    BY <1>1, <2>1, <2>2, <2>3, <2>4
<1>3. Ahead(c)
  BY <1>2 DEF Ahead, AfterType, Starts, Last, Goes2
<1> QED
  BY <1>2, <1>3 DEF Fresh, c

(* ... after the buffered stream was started...                            *)
LEMMA AgainIs ==
  ASSUME NEW td \in {<<>>, Again}
  PROVE  /\ Fresh(Load(td))
         /\ \/ td = <<>> /\ Load(td).pc = "idle"
            \/ td = Again /\ Load(td).pc = "type" /\ Rest(Load(td))
<1> DEFINE c == Load(td)
<1> HIDE DEF c
<1>1. ASSUME td = <<>> PROVE c.pc = "idle" /\ c.todo = <<>>
  BY <1>1 DEF c, Load, Idle
<1>2. ASSUME td = Again
      PROVE  c.pc = "type" /\ c.on = "buffered" /\ c.todo = <<Call("start")>>
  BY <1>2, Load2, CallIs DEF BeginsWith, c, Again
<1>3. \/ td = <<>> /\ c.pc = "idle" /\ c.todo = <<>>
      \/ td = Again /\ c.pc = "type" /\ c.on = "buffered" /\ c.todo = <<Call("start")>>
  BY <1>1, <1>2
<1>4. Ahead(c)
  BY <1>3 DEF Ahead, AfterType, Starts, Last, Goes2
<1> QED
  BY <1>3, <1>4 DEF Fresh, Rest, c

(* ... when the current stream is to be started...                         *)
LEMMA StartIs ==
  ASSUME NEW s \in Streams
  PROVE  /\ Fresh(Load(Start(s) \o <<>>)) /\ Load(Start(s) \o <<>>).pc = "type"
         /\ s = "buffered" => Rest(Load(Start(s) \o <<>>))
<1> DEFINE c == Load(Start(s) \o <<>>)
           k == Call(IF s = "buffered" THEN "keep" ELSE "restart")
<1>1. Start(s) \o <<>> = <<SetType(s), k>>
  BY Joins DEF Start
<1> HIDE DEF c, k
<1>2. c.pc = "type" /\ c.on = s /\ c.todo = <<k>>
  BY <1>1, Load2, CallIs DEF BeginsWith, c
<1>3. /\ s = "buffered" => k = Call("keep")
      /\ s = "realtime" => k = Call("restart")
  BY DEF k
<1>4. c.todo \in AfterType(s) /\ (s = "buffered" => c.todo = <<Call("keep")>>)
  BY <1>2, <1>3 DEF AfterType, Streams
<1>5. Ahead(c)
  BY <1>2, <1>4 DEF Ahead, Starts, Last, Goes2
<1> QED
  BY <1>2, <1>4, <1>5 DEF Fresh, Rest, c

(* ... and at the beginning of a request.                                  *)
LEMMA ProgramIs ==
  ASSUME NEW p \in Programs
  PROVE  Fresh(Load(p)) /\ Load(p).pc \in {"format", "type", "stop"}
<1> DEFINE c == Load(p)
<1>1. SetupRealtime = <<SetType("realtime"), Call("format"), SetType("realtime"), Call("start")>>
  BY Joins DEF SetupRealtime, Record
<1>2. SetupBuffered = <<SetType("buffered"), Call("format"), SetType("buffered"), Call("keep"),
                        SetType("buffered"), Call("start")>>
  <2>1. Start("buffered") = <<SetType("buffered"), Call("keep")>>
    BY DEF Start
  <2>2. SetupBuffered = <<SetType("buffered"), Call("format")>>
                          \o <<SetType("buffered"), Call("keep")>>
                          \o <<SetType("buffered"), Call("start")>>
    BY <2>1 DEF SetupBuffered
  <2>3. <<SetType("buffered"), Call("format")>> \o <<SetType("buffered"), Call("keep")>>
          = <<SetType("buffered"), Call("format"), SetType("buffered"), Call("keep")>>
    BY Joins
  <2>4. <<SetType("buffered"), Call("format"), SetType("buffered"), Call("keep")>>
          \o <<SetType("buffered"), Call("start")>>
          = <<SetType("buffered"), Call("format"), SetType("buffered"), Call("keep"),
              SetType("buffered"), Call("start")>>
    BY Joins
  <2> QED
    BY <2>2, <2>3, <2>4
<1> HIDE DEF c
<1>3. ASSUME p = Announce PROVE c.pc = "format" /\ c.todo = <<>>
  BY <1>3, Load1, CallIs DEF BeginsWith, c, Announce
<1>4. ASSUME p = SetupTransport PROVE c.pc = "format" /\ c.todo = <<SetType("realtime")>>
  BY <1>4, Load2, CallIs DEF BeginsWith, c, SetupTransport
<1>5. ASSUME p = Record
      PROVE  c.pc = "type" /\ c.on = "realtime" /\ c.todo = <<Call("start")>>
  BY <1>5, Load2, CallIs DEF BeginsWith, c, Record
<1>6. ASSUME p = SetupRealtime
      PROVE  /\ c.pc = "type" /\ c.on = "realtime"
             /\ c.todo = <<Call("format"), SetType("realtime"), Call("start")>>
  BY <1>1, <1>6, Load4, CallIs DEF BeginsWith, c
<1>7. ASSUME p = SetupBuffered
      PROVE  /\ c.pc = "type" /\ c.on = "buffered"
             /\ c.todo = <<Call("format"), SetType("buffered"), Call("keep"), SetType("buffered"),
                           Call("start")>>
  BY <1>2, <1>7, Load6, CallIs DEF BeginsWith, c
<1>8. ASSUME p = Teardown PROVE c.pc = "stop" /\ c.todo = <<>>
  BY <1>8, Load1, CallIs DEF BeginsWith, c, Teardown
<1>9. \/ c.pc = "format" /\ c.todo \in AfterFormat
      \/ c.pc = "type" /\ c.on = "realtime" /\ c.todo \in AfterType("realtime")
      \/ c.pc = "type" /\ c.on = "buffered" /\ c.todo \in AfterType("buffered")
      \/ c.pc = "stop" /\ c.todo = <<>>
  BY <1>3, <1>4, <1>5, <1>6, <1>7, <1>8 DEF Programs, AfterFormat, AfterType
<1>10. Ahead(c)
  BY <1>9 DEF Ahead, Starts, Last, Goes2
<1> QED
  BY <1>9, <1>10 DEF Fresh, c


-----------------------------------------------------------------------------
(* The steps, for what starts promise *)

(* After its start was granted a request only looks at the stream: of a    *)
(* call anywhere else nothing was granted yet.                             *)
LEMMA NotStarted ==
  ASSUME GrantInv, NEW r \in Rtsp, ~At(r, "idle"), call[r].pc \notin {"type", "start", "keep"}
  PROVE  started = "none"
BY DEF GrantInv, StartInv, Rest

(* What a step of an RTSP task has to keep.                                *)
LEMMA GrantStep ==
  ASSUME IInv, GrantInv, NEW r \in Rtsp, NEW c \in CallSet, call' = [call EXCEPT ![r] = c],
         ~At(r, "idle"), Ahead(c), UNCHANGED overlap,
         ~overlap => Kept(c)',
         running'["buffered"] =>
           \/ Created1' \/ Creating(c)
           \/ running["buffered"] /\ ~Creating(call[r]) /\ (Created1 => Created1'),
         started' # "none" =>
           /\ ~overlap /\ stream' = started' /\ running'[started']
           /\ c.pc = "idle" \/ (started' = "buffered" /\ Rest(c))
  PROVE  GrantInv'
<1>1. call'[r] = c /\ \A o \in Rtsp \ {r} : call'[o] = call[o]
  BY Moves DEF IInv
<1>2. ~overlap => \A o \in Rtsp \ {r} : call[o].pc = "idle"
  BY DEF IInv, SoloInv, Alone, At
<1>3. AheadInv'
  BY <1>1 DEF GrantInv, AheadInv, Ahead, Starts, Last, Goes2
<1>4. KeptInv'
  <2> SUFFICES ASSUME ~overlap, NEW o \in Rtsp PROVE Kept(call[o])'
    BY DEF KeptInv
  <2>1. CASE o = r
    BY <1>1, <2>1 DEF Kept, Starts, Goes2
  <2>2. CASE o # r
    <3>1. call'[o].pc = "idle"
      BY <1>1, <1>2, <2>2
    <3> QED
      BY <3>1 DEF Kept, Starts, Goes2
  <2> QED
    BY <2>1, <2>2
<1>5. LiveInv'
  <2> SUFFICES ASSUME running'["buffered"], ~Created1'
               PROVE  \E o \in Rtsp : Creating(call[o])'
    BY DEF LiveInv
  <2>1. CASE Creating(c)
    BY <1>1, <2>1 DEF Creating
  <2>2. CASE running["buffered"] /\ ~Creating(call[r]) /\ (Created1 => Created1')
    <3>1. PICK o \in Rtsp : Creating(call[o])
      BY <2>2 DEF GrantInv, LiveInv
    <3>2. o # r
      BY <2>2, <3>1
    <3> QED
      BY <1>1, <3>1, <3>2 DEF Creating
  <2> QED
    BY <2>1, <2>2
<1>6. StartInv'
  <2> SUFFICES ASSUME started' # "none"
               PROVE  /\ ~overlap' /\ stream' = started' /\ running'[started']
                      /\ \A o \in Rtsp : At(o, "idle")' \/ (started' = "buffered" /\ Rest(call[o])')
    BY DEF StartInv
  <2>1. ~overlap /\ \A o \in Rtsp \ {r} : At(o, "idle")'
    BY <1>1, <1>2 DEF At
  <2>2. At(r, "idle")' \/ (started' = "buffered" /\ Rest(call[r])')
    BY <1>1 DEF At, Rest
  <2> QED
    BY <2>1, <2>2
<1> QED
  BY <1>3, <1>4, <1>5, <1>6 DEF GrantInv

(* The call goes on, with the calls that are left as they are...           *)
LEMMA ToHas ==
  ASSUME TypeOK, NEW r \in Rtsp, NEW l \in Places, To(r, l)
  PROVE  \E c \in CallSet : /\ call' = [call EXCEPT ![r] = c]
                            /\ c.pc = l /\ c.on = call[r].on /\ c.todo = call[r].todo
<1> DEFINE c == [call[r] EXCEPT !.pc = l]
<1>1. c \in CallSet /\ c.pc = l /\ c.on = call[r].on /\ c.todo = call[r].todo
  BY DEF TypeOK, CallSet
<1>2. call' = [call EXCEPT ![r] = c]
  BY DEF To
<1> HIDE DEF c
<1> QED
  BY <1>1, <1>2

(* ... also by Goto...                                                     *)
LEMMA GotoHas ==
  ASSUME TypeOK, NEW r \in Rtsp, NEW l \in Places, NEW s \in Streams, Goto(r, l, s)
  PROVE  /\ started' = started
         /\ \E c \in CallSet : /\ call' = [call EXCEPT ![r] = c]
                               /\ c.pc = l /\ c.on = s /\ c.todo = call[r].todo
<1> DEFINE c == [Idle EXCEPT !.pc = l, !.todo = call[r].todo, !.on = s]
<1>1. c \in CallSet /\ c.pc = l /\ c.on = s /\ c.todo = call[r].todo
  BY DEF TypeOK, CallSet, Idle, Places
<1>2. call' = [call EXCEPT ![r] = c] /\ started' = started
  BY DEF Goto
<1> HIDE DEF c
<1> QED
  BY <1>1, <1>2

(* ... and by Halt, which only ever turns a stream off.                    *)
LEMMA HaltHas ==
  ASSUME TypeOK, NEW r \in Rtsp, NEW s \in Streams, NEW l \in Places, l # "wait", Halt(r, s, l)
  PROVE  /\ \A o \in Streams : running'[o] => running[o]
         /\ \E c \in CallSet : /\ call' = [call EXCEPT ![r] = c] /\ c.todo = call[r].todo
                               /\ \/ c.pc = "wait" /\ c.then = l /\ c.on = s
                                  \/ c.pc = l /\ ~running[s]
<1>1. CASE running[s] \/ Held(s)
  <2> DEFINE c == [pc |-> "wait", todo |-> call[r].todo, on |-> s, then |-> l]
  <2>1. c \in CallSet /\ c.todo = call[r].todo /\ c.pc = "wait" /\ c.then = l /\ c.on = s
    BY DEF TypeOK, CallSet, Places
  <2>2. call' = [call EXCEPT ![r] = c] /\ running' = [running EXCEPT ![s] = FALSE]
    BY <1>1 DEF Halt
  <2>3. \A o \in Streams : running'[o] => running[o]
    BY <2>2 DEF TypeOK
  <2> HIDE DEF c
  <2> QED
    BY <2>1, <2>2, <2>3
<1>2. CASE ~(running[s] \/ Held(s))
  BY <1>2, ToHas DEF Halt
<1> QED
  BY <1>1, <1>2

(* Waiting, and freeing and creating the decoder: nothing was granted yet. *)
THEOREM GrantWait ==
  ASSUME IInv, GrantInv, NEW r \in Rtsp, Wait(r)
  PROVE  GrantInv'
<1>1. /\ call[r].pc = "wait" /\ ~At(r, "idle") /\ Ahead(call[r]) /\ started = "none"
      /\ call[r].then \in {"stop2", "destroy", "typed", "begin", "idle"}
  BY NotStarted DEF Wait, At, IInv, ArgInv, Argued, GrantInv, AheadInv
<1>2. /\ UNCHANGED <<stream, running, task, overlap, started>> /\ To(r, call[r].then)
      /\ call[r].then \in Places
  BY <1>1 DEF Wait, flags, Places
<1>3. PICK c \in CallSet : /\ call' = [call EXCEPT ![r] = c] /\ c.pc = call[r].then
                           /\ c.on = call[r].on /\ c.todo = call[r].todo
  BY <1>2, ToHas DEF IInv
<1>4. Ahead(c)
  BY <1>1, <1>3 DEF Ahead, Goes2, Starts, Last
<1>5. ~overlap => Kept(c)'
  <2>1. ~overlap => Kept(call[r])
    BY DEF GrantInv, KeptInv
  <2> QED
    BY <1>1, <1>2, <1>3, <2>1 DEF Kept, Starts, Goes2
<1>6. (Created1 => Created1') /\ ~Creating(call[r])
  BY <1>1, <1>2 DEF Created1, Lives, Creating
<1> QED
  BY <1>1, <1>2, <1>3, <1>4, <1>5, <1>6, GrantStep

(* The two streams are halted one after the other.                         *)
THEOREM GrantStop ==
  ASSUME IInv, GrantInv, NEW r \in Rtsp, Stop(r) \/ StopBuffered(r)
  PROVE  GrantInv'
<1>1. /\ call[r].pc \in {"stop", "stop2"} /\ ~At(r, "idle") /\ call[r].todo = <<>>
      /\ started = "none"
  BY NotStarted DEF Stop, StopBuffered, At, GrantInv, AheadInv, Ahead, Last, Goes2
<1>2. UNCHANGED <<task, overlap, started>>
  BY DEF Stop, StopBuffered, OnlyCall, history
<1>3. PICK s \in Streams, l \in {"stop2", "destroy"} : Halt(r, s, l)
  BY DEF Stop, StopBuffered, Streams
<1>4. l \in Places /\ l # "wait"
  BY DEF Places
<1>5. \A o \in Streams : running'[o] => running[o]
  BY <1>3, <1>4, HaltHas DEF IInv
<1>6. PICK c \in CallSet : /\ call' = [call EXCEPT ![r] = c] /\ c.todo = call[r].todo
                           /\ (c.pc = "wait" /\ c.then = l) \/ c.pc = l
  BY <1>3, <1>4, HaltHas DEF IInv
<1>7. Ahead(c) /\ Kept(c)'
  BY <1>1, <1>6 DEF Ahead, Kept, Goes2, Starts, Last
<1>8. /\ Created1 => Created1'
      /\ ~Creating(call[r]) /\ "buffered" \in Streams
  BY <1>1, <1>2 DEF Created1, Lives, Creating, Streams
<1> QED
  BY <1>1, <1>2, <1>5, <1>6, <1>7, <1>8, GrantStep

(* The decoder is freed or created.                                        *)
THEOREM GrantDecoder ==
  ASSUME IInv, GrantInv, NEW r \in Rtsp, Destroy(r) \/ Format(r) \/ FormatCreates(r)
  PROVE  GrantInv'
<1>1. /\ call[r].pc \in {"destroy", "format", "format2"} /\ ~At(r, "idle") /\ Ahead(call[r])
      /\ started = "none"
  BY NotStarted DEF Destroy, Format, FormatCreates, At, GrantInv, AheadInv
<1>2. UNCHANGED <<stream, running, task, overlap, started>>
  BY DEF Destroy, Format, FormatCreates, flags, history
<1>3. (Created1 => Created1') /\ ~Creating(call[r])
  BY <1>1, <1>2 DEF Created1, Lives, Creating
<1>4. ASSUME NEW c \in CallSet, call' = [call EXCEPT ![r] = c], Fresh(c), c.pc # "keep"
      PROVE  GrantInv'
  <2>1. Ahead(c) /\ Kept(c)'
    BY <1>4 DEF Fresh, Kept, Starts, Goes2
  <2> QED
    BY <1>1, <1>2, <1>3, <1>4, <2>1, GrantStep
<1>5. Load(call[r].todo) \in CallSet
  BY NextCall
<1>6. CASE Destroy(r) \/ FormatCreates(r)
  <2>1. call' = [call EXCEPT ![r] = Load(call[r].todo)]
    BY <1>6 DEF Destroy, FormatCreates, Return
  <2>2. call[r].todo \in AfterFormat
    BY <1>1, <1>6 DEF Destroy, FormatCreates, At, Ahead, Last, Goes2, AfterFormat
  <2>3. Fresh(Load(call[r].todo)) /\ Load(call[r].todo).pc # "keep"
    BY <2>2, AfterFormatIs
  <2> QED
    BY <1>4, <1>5, <2>1, <2>3
<1>7. CASE Format(r)
  <2>1. To(r, "format2") /\ "format2" \in Places /\ call[r].todo \in AfterFormat
    BY <1>1, <1>7 DEF Format, Places, At, Ahead
  <2>2. PICK c \in CallSet : /\ call' = [call EXCEPT ![r] = c] /\ c.pc = "format2"
                             /\ c.todo = call[r].todo
    BY <2>1, ToHas DEF IInv
  <2>3. Ahead(c) /\ Kept(c)'
    BY <2>1, <2>2 DEF Ahead, Kept, Starts, Last, Goes2
  <2> QED
    BY <1>1, <1>2, <1>3, <2>2, <2>3, GrantStep
<1> QED
  BY <1>6, <1>7


(* The type is set; for the stream that was started, again.                *)
THEOREM GrantType ==
  ASSUME IInv, GrantInv, NEW r \in Rtsp, Type(r) \/ Typed(r)
  PROVE  GrantInv'
<1>1. /\ call[r].pc \in {"type", "typed"} /\ ~At(r, "idle") /\ Ahead(call[r])
      /\ call[r].on \in Streams /\ stream \in Streams
  BY DEF Type, Typed, At, GrantInv, AheadInv, IInv, ArgInv, Argued, TypeOK
<1>2. UNCHANGED <<task, overlap, started>>
  BY DEF Type, Typed, OnlyCall, history
<1>3. (Created1 => Created1') /\ ~Creating(call[r])
  BY <1>1, <1>2 DEF Created1, Lives, Creating
<1>4. Load(call[r].todo) \in CallSet
  BY NextCall
<1>5. ASSUME NEW s \in Streams, call[r].todo \in AfterType(s), stream' = s, Return(r),
             UNCHANGED running,
             started # "none" =>
               s = stream /\ started = "buffered" /\ Rest(Load(call[r].todo))
      PROVE  GrantInv'
  <2>1. PICK c \in CallSet : c = Load(call[r].todo)
    BY <1>4
  <2>2. call' = [call EXCEPT ![r] = c] /\ Fresh(c) /\ (c.pc = "keep" => s = "buffered")
    BY <1>5, <2>1, AfterTypeIs DEF Return
  <2>3. Ahead(c) /\ Kept(c)'
    BY <1>5, <2>2 DEF Fresh, Kept, Starts, Goes2
  <2>4. started' # "none" => /\ ~overlap /\ stream' = started' /\ running'[started']
                             /\ started' = "buffered" /\ Rest(c)
    BY <1>2, <1>5, <2>1 DEF GrantInv, StartInv
  <2> QED
    BY <1>1, <1>2, <1>3, <1>5, <2>2, <2>3, <2>4, GrantStep
<1>6. CASE Type(r) /\ stream # call[r].on /\ running[stream]
  <2>1. Halt(r, stream, "typed") /\ "typed" \in Places
    BY <1>6 DEF Type, Places
  <2>2. started = "none"
    BY <1>1, <1>6 DEF GrantInv, StartInv, Rest, Type, At
  <2>3. \A o \in Streams : running'[o] => running[o]
    BY <1>1, <2>1, HaltHas DEF IInv
  <2>4. PICK c \in CallSet : /\ call' = [call EXCEPT ![r] = c] /\ c.todo = call[r].todo
                             /\ c.pc = "wait" /\ c.then = "typed" /\ c.on = stream
    BY <1>1, <1>6, <2>1, HaltHas DEF IInv
  <2>5. Other(stream) = call[r].on
    BY <1>1, <1>6, OtherIs DEF Streams
  <2>6. Ahead(c) /\ Kept(c)'
    BY <1>1, <1>6, <2>4, <2>5 DEF Ahead, Kept, Starts, Last, Goes2, Type, At
  <2>7. "buffered" \in Streams
    BY DEF Streams
  <2> QED
    BY <1>1, <1>2, <1>3, <2>2, <2>3, <2>4, <2>6, <2>7, GrantStep
<1>7. CASE Type(r) /\ ~(stream # call[r].on /\ running[stream])
  <2>1. /\ stream' = call[r].on /\ Return(r) /\ UNCHANGED running
        /\ call[r].todo \in AfterType(call[r].on) /\ call[r].pc = "type"
    BY <1>1, <1>7 DEF Type, At, Ahead
  <2>2. ASSUME started # "none"
        PROVE  call[r].on = stream /\ started = "buffered" /\ Rest(Load(call[r].todo))
    <3>1. /\ started = "buffered" /\ stream = "buffered" /\ call[r].on = "buffered"
          /\ call[r].todo \in {<<Call("start")>>, <<Call("keep")>>}
      BY <1>1, <2>1, <2>2 DEF GrantInv, StartInv, Rest
    <3>2. BeginsWith(call[r].todo, Call("start"), <<>>) \/ BeginsWith(call[r].todo, Call("keep"), <<>>)
      BY <3>1, Load1
    <3> QED
      BY <3>1, <3>2, CallIs DEF BeginsWith, Rest
  <2> QED
    BY <1>1, <1>5, <2>1, <2>2
<1>8. CASE Typed(r)
  <2>1. /\ stream' = Other(call[r].on) /\ Return(r) /\ UNCHANGED running
        /\ call[r].todo \in AfterType(Other(call[r].on)) /\ call[r].pc = "typed"
    BY <1>1, <1>8 DEF Typed, At, Ahead, Goes2
  <2>2. started = "none"
    BY <1>1, <2>1, NotStarted
  <2> QED
    BY <1>1, <1>5, <2>1, <2>2, OtherIs
<1> QED
  BY <1>6, <1>7, <1>8

(* Whether a stream that runs is kept or begun anew.                       *)
THEOREM GrantStart ==
  ASSUME IInv, GrantInv, NEW r \in Rtsp, StartStream(r) \/ Restart(r) \/ Keep(r)
  PROVE  GrantInv'
<1>1. /\ call[r].pc \in {"start", "restart", "keep"} /\ ~At(r, "idle") /\ Ahead(call[r])
      /\ stream \in Streams /\ (~overlap => Kept(call[r]))
  BY DEF StartStream, Restart, Keep, At, GrantInv, AheadInv, KeptInv, IInv, TypeOK
<1>2. UNCHANGED <<stream, task, overlap>>
  BY DEF StartStream, Restart, Keep, OnlyCall, OnlyStart, history, flags
<1>3. (Created1 => Created1') /\ ~Creating(call[r]) /\ "buffered" \in Streams
  BY <1>1, <1>2 DEF Created1, Lives, Creating, Streams
<1>4. CASE StartStream(r)
  <2> DEFINE d == Load(Start(stream) \o call[r].todo)
  <2>1. call[r].todo = <<>> /\ call[r].pc = "start"
    BY <1>1, <1>4 DEF StartStream, At, Ahead, Last
  <2>2. Fresh(d) /\ d.pc = "type" /\ (stream = "buffered" => Rest(d))
    BY <1>1, <2>1, StartIs
  <2>3. call' = [call EXCEPT ![r] = d] /\ started' = started /\ UNCHANGED running
    BY <1>4 DEF StartStream, OnlyCall, history, flags
  <2>4. d \in CallSet
    <3>1. SetType(stream) \in Calls /\ Call("keep") \in Calls /\ Call("restart") \in Calls
      BY <1>1 DEF SetType, Call, Calls, Names
    <3>2. Start(stream) \in Seq(Calls)
      BY <3>1 DEF Start
    <3>3. call[r].todo \in Seq(Calls)
      BY NextCall
    <3>4. Start(stream) \o call[r].todo \in Seq(Calls)
      BY <3>2, <3>3
    <3> QED
      BY <3>4, LoadIs
  <2> HIDE DEF d
  <2>5. PICK c \in CallSet : c = d
    BY <2>4
  <2>6. Ahead(c) /\ Kept(c)'
    BY <2>2, <2>5 DEF Fresh, Kept, Starts, Goes2
  <2>7. started' # "none" => /\ ~overlap /\ stream' = started' /\ running'[started']
                             /\ started' = "buffered" /\ Rest(c)
    BY <1>1, <1>2, <2>2, <2>3, <2>5 DEF GrantInv, StartInv
  <2> QED
    BY <1>1, <1>2, <1>3, <2>3, <2>5, <2>6, <2>7, GrantStep
<1>5. CASE Restart(r)
  <2>1. call[r].todo = <<>> /\ started = "none" /\ started' = started
    BY <1>1, <1>5, NotStarted DEF Restart, At, Ahead, Last, OnlyCall, history
  <2>2. /\ \A o \in Streams : running'[o] => running[o]
        /\ \E c \in CallSet : /\ call' = [call EXCEPT ![r] = c] /\ c.todo = call[r].todo
                              /\ Goes2(c, "begin")
    <3>1. "begin" \in Places
      BY DEF Places
    <3>2. CASE running[stream]
      <4>1. Halt(r, stream, "begin")
        BY <1>5, <3>2 DEF Restart
      <4> QED
        BY <1>1, <3>1, <4>1, HaltHas DEF IInv, Goes2
    <3>3. CASE ~running[stream]
      <4>1. To(r, "begin") /\ UNCHANGED running
        BY <1>5, <3>3 DEF Restart
      <4> QED
        BY <3>1, <4>1, ToHas DEF IInv, Goes2
    <3> QED
      BY <3>2, <3>3
  <2>3. PICK c \in CallSet : /\ call' = [call EXCEPT ![r] = c] /\ c.todo = call[r].todo
                             /\ Goes2(c, "begin")
    BY <2>2
  <2>4. Ahead(c) /\ Kept(c)'
    BY <2>1, <2>3 DEF Ahead, Kept, Starts, Last, Goes2
  <2> QED
    BY <1>1, <1>2, <1>3, <2>1, <2>2, <2>3, <2>4, GrantStep
<1>6. CASE Keep(r)
  <2>1. /\ call[r].todo \in {<<>>, Again} /\ UNCHANGED running
        /\ ~overlap => stream = "buffered"
    BY <1>1, <1>6 DEF Keep, At, Ahead, Kept
  <2>2. CASE running[stream]
    <3>1. PICK c \in CallSet : c = Load(call[r].todo)
      BY NextCall
    <3>2. /\ call' = [call EXCEPT ![r] = c] /\ started' = IF overlap THEN "none" ELSE stream
          /\ Fresh(c) /\ (c.pc = "idle" \/ (c.pc = "type" /\ Rest(c)))
      BY <1>6, <2>1, <2>2, <3>1, AgainIs DEF Keep, Granted, Return
    <3>3. Ahead(c) /\ Kept(c)'
      BY <3>2 DEF Fresh, Kept, Starts, Goes2
    <3> QED
      BY <1>1, <1>2, <1>3, <2>1, <2>2, <3>2, <3>3, GrantStep
  <2>3. CASE ~running[stream]
    <3>1. Goto(r, "begin", stream) /\ "begin" \in Places
      BY <1>6, <2>3 DEF Keep, Places
    <3>2. started' = started /\ started = "none"
      BY <1>1, <2>3, <3>1, GotoHas DEF IInv, GrantInv, StartInv
    <3>3. PICK c \in CallSet : /\ call' = [call EXCEPT ![r] = c]
                               /\ c.pc = "begin" /\ c.on = stream /\ c.todo = call[r].todo
      BY <1>1, <3>1, GotoHas DEF IInv
    <3>4. Ahead(c) /\ (~overlap => Kept(c)')
      BY <1>2, <2>1, <3>3 DEF Ahead, Kept, Starts, Last, Goes2
    <3> QED
      BY <1>1, <1>2, <1>3, <2>1, <3>2, <3>3, <3>4, GrantStep
  <2> QED
    BY <2>2, <2>3
<1> QED
  BY <1>4, <1>5, <1>6

(* A call that starts a stream.                                            *)
LEMMA Starting ==
  ASSUME IInv, GrantInv, NEW r \in Rtsp,
         call[r].pc \in {"begin", "ending", "create", "created", "control", "controlled"}
  PROVE  /\ ~At(r, "idle") /\ started = "none" /\ call[r].todo \in {<<>>, Again}
         /\ ~overlap /\ call[r].todo # <<>> => stream = "buffered"
         /\ stream \in Streams
<1>1. ~At(r, "idle") /\ call[r].pc \notin {"type", "start", "keep"} /\ Starts(call[r])
  BY DEF At, Starts, Goes2
<1> QED
  BY <1>1, NotStarted DEF GrantInv, AheadInv, KeptInv, Ahead, Kept, IInv, TypeOK

(* Its start is granted...                                                 *)
LEMMA GrantedStep ==
  ASSUME IInv, GrantInv, NEW r \in Rtsp, NEW s \in Streams,
         call[r].pc \in {"begin", "created", "controlled"}, Granted(r, s),
         UNCHANGED <<stream, running, task, overlap>>,
         ~overlap => s = stream /\ running[stream]
  PROVE  GrantInv'
<1> PICK c \in CallSet : c = Load(call[r].todo)
  BY NextCall
<1>1. call' = [call EXCEPT ![r] = c] /\ started' = IF overlap THEN "none" ELSE s
  BY DEF Granted, Return
<1>2. call[r].todo \in {<<>>, Again} /\ (~overlap /\ call[r].todo # <<>> => s = "buffered")
  BY Starting
<1>3. /\ Fresh(c) /\ c.pc \in {"idle", "type"}
      /\ ~overlap => c.pc = "idle" \/ (s = "buffered" /\ Rest(c))
  <2>1. /\ Fresh(c)
        /\ (call[r].todo = <<>> /\ c.pc = "idle") \/ (call[r].todo = Again /\ c.pc = "type" /\ Rest(c))
    BY <1>2, AgainIs
  <2>2. Again # <<>>
    BY DEF Again
  <2> QED
    BY <1>2, <2>1, <2>2
<1>4. Ahead(c) /\ Kept(c)'
  BY <1>3 DEF Fresh, Kept, Starts, Goes2
<1>5. (Created1 => Created1') /\ ~Creating(call[r])
  BY DEF Created1, Lives, Creating
<1> QED
  BY <1>1, <1>2, <1>3, <1>4, <1>5, Starting, GrantStep

(* ... or refused, or given up...                                          *)
LEMMA RefusedStep ==
  ASSUME IInv, GrantInv, NEW r \in Rtsp, NEW c \in CallSet, call' = [call EXCEPT ![r] = c],
         call[r].pc \in {"begin", "ending", "create", "created", "control", "controlled"},
         c.pc = "idle" \/ (c.pc = "wait" /\ c.then = "idle"), c.todo = <<>>,
         UNCHANGED <<stream, overlap, started>>,
         running'["buffered"] =>
           running["buffered"] /\ ~Creating(call[r]) /\ (Created1 => Created1')
  PROVE  GrantInv'
<1>1. Ahead(c) /\ Kept(c)'
  BY DEF Ahead, Kept, Starts, Last, Goes2, AfterFormat
<1> QED
  BY <1>1, Starting, GrantStep

(* ... or it goes on.                                                      *)
LEMMA GotoStep ==
  ASSUME IInv, GrantInv, NEW r \in Rtsp, NEW s \in Streams,
         call[r].pc \in {"begin", "ending", "create", "created", "control", "controlled"},
         NEW l \in {"ending", "create", "created", "control", "controlled"}, Goto(r, l, s),
         UNCHANGED <<stream, overlap>>,
         running'["buffered"] =>
           \/ Created1' \/ (l = "create" /\ s = "buffered")
           \/ running["buffered"] /\ ~Creating(call[r]) /\ (Created1 => Created1')
  PROVE  GrantInv'
<1>1. l \in Places
  BY DEF Places
<1>2. PICK c \in CallSet : /\ call' = [call EXCEPT ![r] = c]
                           /\ c.pc = l /\ c.on = s /\ c.todo = call[r].todo
  BY <1>1, GotoHas DEF IInv
<1>3. Ahead(c) /\ (~overlap => Kept(c)')
  BY <1>2, Starting DEF Ahead, Kept, Starts, Last, Goes2
<1>4. started' = started
  BY <1>1, GotoHas DEF IInv
<1>5. l = "create" /\ s = "buffered" => Creating(c)
  BY <1>2 DEF Creating
<1> QED
  BY <1>2, <1>3, <1>4, <1>5, Starting, GrantStep


(* A start begins: the stream runs already, is waited for or gets its      *)
(* sockets; with these it is marked as running before it has a task.       *)
THEOREM GrantBegin ==
  ASSUME IInv, GrantInv, NEW r \in Rtsp, Begin(r) \/ Ending(r)
  PROVE  GrantInv'
<1>1. /\ call[r].pc \in {"begin", "ending"} /\ stream \in Streams
      /\ call[r].pc = "ending" => call[r].on \in Streams
      /\ running \in [Streams -> BOOLEAN]
  BY DEF Begin, Ending, At, IInv, TypeOK, ArgInv, Argued
<1>2. UNCHANGED <<stream, task, overlap>>
  BY DEF Begin, Ending, OnlyStart
<1>3. (Created1 => Created1') /\ ~Creating(call[r])
  BY <1>1, <1>2 DEF Created1, Lives, Creating
<1>4. ASSUME Refused(r), UNCHANGED running PROVE GrantInv'
  <2>1. /\ Idle \in CallSet /\ Idle.pc = "idle" /\ Idle.todo = <<>>
        /\ call' = [call EXCEPT ![r] = Idle] /\ started' = started
    BY <1>4 DEF Idle, CallSet, Places, Refused
  <2> QED
    BY <1>1, <1>2, <1>3, <1>4, <2>1, RefusedStep
<1>5. ASSUME NEW s \in Streams, Bind(r, s) PROVE GrantInv'
  <2>1. CASE Refused(r) /\ UNCHANGED running
    BY <1>4, <2>1
  <2>2. CASE running' = [running EXCEPT ![s] = TRUE] /\ Goto(r, "create", s)
    <3>1. running'["buffered"] => s = "buffered" \/ running["buffered"]
      BY <1>1, <2>2 DEF Streams
    <3> QED
      BY <1>1, <1>2, <1>3, <2>2, <3>1, GotoStep
  <2> QED
    BY <1>5, <2>1, <2>2 DEF Bind
<1>6. CASE Begin(r)
  <2>1. CASE running[stream]
    <3>1. Granted(r, stream) /\ UNCHANGED running /\ call[r].pc = "begin"
      BY <1>6, <2>1 DEF Begin, At
    <3> QED
      BY <1>1, <1>2, <2>1, <3>1, GrantedStep
  <2>2. CASE ~running[stream] /\ Held(stream)
    <3>1. Goto(r, "ending", stream) /\ UNCHANGED running
      BY <1>6, <2>2 DEF Begin
    <3> QED
      BY <1>1, <1>2, <1>3, <3>1, GotoStep
  <2>3. CASE ~running[stream] /\ ~Held(stream)
    BY <1>1, <1>5, <1>6, <2>3 DEF Begin
  <2> QED
    BY <2>1, <2>2, <2>3
<1>7. CASE Ending(r)
  <2>1. call[r].on \in Streams
    BY <1>1, <1>7 DEF Ending, At
  <2>2. CASE Held(call[r].on)
    BY <1>4, <1>7, <2>2 DEF Ending
  <2>3. CASE ~Held(call[r].on)
    BY <1>5, <1>7, <2>1, <2>3 DEF Ending
  <2> QED
    BY <2>2, <2>3
<1> QED
  BY <1>6, <1>7

(* Tasks are only added.                                                   *)
LEMMA CreatesAdds ==
  ASSUME TypeOK, NEW k \in Kinds, Creates(k)
  PROVE  (Created1 => Created1') /\ (k = "buffered" => Created1')
<1>1. PICK t \in Tasks :
        /\ task' = [task EXCEPT ![t] = IF k = "buffered" THEN "accept" ELSE "receive"]
        /\ t = <<k, 1>> \/ Lives(<<k, 1>>)
  BY TaskIs DEF Creates
<1>2. task'[t] # "none" /\ \A u \in Tasks \ {t} : task'[u] = task[u]
  BY <1>1 DEF TypeOK
<1>3. Lives(t)' /\ \A u \in Tasks : Lives(u) => Lives(u)'
  BY <1>2 DEF Lives
<1>4. <<"buffered", 1>> \in Tasks
  BY TaskIs DEF Kinds
<1> QED
  BY <1>1, <1>3, <1>4 DEF Created1

(* The first task is created, and the stream marked as stopped if it is    *)
(* not.                                                                    *)
THEOREM GrantCreate ==
  ASSUME IInv, GrantInv, NEW r \in Rtsp, Create(r) \/ Created(r)
  PROVE  GrantInv'
<1> DEFINE s == call[r].on
<1>1. /\ call[r].pc \in {"create", "created"} /\ s \in Streams
      /\ running \in [Streams -> BOOLEAN] /\ First(s) \in Kinds
      /\ ~overlap => s = stream /\ running[stream]
  BY DEF Create, Created, At, IInv, TypeOK, ArgInv, Argued, SoloInv, PlaceInv, Placed, First,
     Kinds, Streams
<1>2. UNCHANGED <<stream, overlap>>
  BY DEF Create, Created, OnlyStart
<1>3. ASSUME Refused(r), Off(s), UNCHANGED task PROVE GrantInv'
  <2>1. /\ Idle \in CallSet /\ Idle.pc = "idle" /\ Idle.todo = <<>>
        /\ call' = [call EXCEPT ![r] = Idle] /\ started' = started
    BY <1>3 DEF Idle, CallSet, Places, Refused
  <2>2. running'["buffered"] => running["buffered"] /\ s # "buffered"
    BY <1>1, <1>3 DEF Off, Streams
  <2>3. (Created1 => Created1') /\ (s # "buffered" => ~Creating(call[r]))
    BY <1>3 DEF Created1, Lives, Creating
  <2> QED
    BY <1>1, <1>2, <2>1, <2>2, <2>3, RefusedStep
<1>4. CASE Create(r)
  <2>1. CASE Creates(First(s)) /\ Goto(r, "created", s) /\ UNCHANGED running
    <3>1. (Created1 => Created1') /\ (s = "buffered" => Created1')
      BY <1>1, <2>1, CreatesAdds DEF IInv, First
    <3>2. s # "buffered" => ~Creating(call[r])
      BY DEF Creating
    <3> QED
      BY <1>1, <1>2, <2>1, <3>1, <3>2, GotoStep
  <2>2. CASE CreatesNot(First(s)) /\ Refused(r) /\ Off(s)
    BY <1>3, <2>2 DEF CreatesNot
  <2> QED
    BY <1>4, <2>1, <2>2 DEF Create
<1>5. CASE Created(r)
  <2>1. UNCHANGED task /\ call[r].pc = "created"
    BY <1>5 DEF Created, At
  <2>2. CASE First(s) \notin handle
    BY <1>3, <1>5, <2>1, <2>2 DEF Created
  <2>3. CASE First(s) \in handle /\ s = "buffered"
    <3>1. Granted(r, s) /\ UNCHANGED running
      BY <1>5, <2>3 DEF Created
    <3> QED
      BY <1>1, <1>2, <2>1, <3>1, GrantedStep
  <2>4. CASE First(s) \in handle /\ s # "buffered"
    <3>1. Goto(r, "control", "realtime") /\ UNCHANGED running /\ "realtime" \in Streams
      BY <1>5, <2>4 DEF Created, Streams
    <3>2. (Created1 => Created1') /\ ~Creating(call[r])
      BY <2>1 DEF Created1, Lives, Creating
    <3> QED
      BY <1>1, <1>2, <3>1, <3>2, GotoStep
  <2> QED
    BY <2>2, <2>3, <2>4
<1> QED
  BY <1>4, <1>5

(* The control task is created, or the realtime stream stopped again.      *)
THEOREM GrantControl ==
  ASSUME IInv, GrantInv, NEW r \in Rtsp, Control(r) \/ Controlled(r)
  PROVE  GrantInv'
<1>1. /\ call[r].pc \in {"control", "controlled"} /\ running \in [Streams -> BOOLEAN]
      /\ ~overlap => stream = "realtime" /\ running[stream]
      /\ "realtime" \in Streams /\ "control" \in Kinds
  BY DEF Control, Controlled, At, IInv, TypeOK, ArgInv, Argued, SoloInv, PlaceInv, Placed,
     Kinds, Streams
<1>2. UNCHANGED <<stream, overlap>> /\ ~Creating(call[r])
  BY <1>1 DEF Control, Controlled, OnlyStart, Creating
<1>3. ASSUME Abort(r), UNCHANGED task PROVE GrantInv'
  <2> DEFINE c == [pc |-> "wait", todo |-> <<>>, on |-> "realtime", then |-> "idle"]
  <2>1. /\ c \in CallSet /\ c.pc = "wait" /\ c.then = "idle" /\ c.todo = <<>>
        /\ call' = [call EXCEPT ![r] = c] /\ started' = started
    BY <1>1, <1>3 DEF CallSet, Places, Abort
  <2> HIDE DEF c
  <2>2. running'["buffered"] => running["buffered"]
    BY <1>1, <1>3 DEF Abort, Off, Streams
  <2>3. Created1 => Created1'
    BY <1>3 DEF Created1, Lives
  <2> QED
    BY <1>1, <1>2, <2>1, <2>2, <2>3, RefusedStep
<1>4. CASE Control(r)
  <2>1. CASE Creates("control") /\ Goto(r, "controlled", "realtime") /\ UNCHANGED running
    <3>1. Created1 => Created1'
      BY <1>1, <2>1, CreatesAdds DEF IInv
    <3> QED
      BY <1>1, <1>2, <2>1, <3>1, GotoStep
  <2>2. CASE CreatesNot("control") /\ Abort(r)
    BY <1>3, <2>2 DEF CreatesNot
  <2> QED
    BY <1>4, <2>1, <2>2 DEF Control
<1>5. CASE Controlled(r)
  <2>1. UNCHANGED task /\ call[r].pc = "controlled"
    BY <1>5 DEF Controlled, At
  <2>2. CASE Granted(r, "realtime") /\ UNCHANGED running
    BY <1>1, <1>2, <2>1, <2>2, GrantedStep
  <2>3. CASE Abort(r)
    BY <1>3, <2>1, <2>3
  <2> QED
    BY <1>5, <2>2, <2>3 DEF Controlled
<1> QED
  BY <1>4, <1>5

(* The task of a buffered stream that runs does not end.                   *)
THEOREM GrantTask ==
  ASSUME IInv, GrantInv, NEW t \in Tasks, TaskStep(t)
  PROVE  GrantInv'
<1>1. UNCHANGED <<stream, running, call, overlap, started>>
  BY DEF TaskStep, Fails, Skips, Disconnected, Accept, Decodes, Decoded, Onward, Goes, Exit,
     OnlyTask, flags, history
<1>2. task \in [Tasks -> {"none", "accept", "receive", "decode"}]
  BY DEF IInv, TypeOK
<1>3. \/ \E to \in {"accept", "receive", "decode"} : task' = [task EXCEPT ![t] = to]
      \/ task' = [task EXCEPT ![t] = "none"] /\ (t[1] # "buffered" \/ ~running["buffered"])
  BY DEF TaskStep, Fails, Skips, Disconnected, Accept, Decodes, Decoded, Onward, Goes, Exit,
     StreamOf
<1>4. running["buffered"] /\ Created1 => Created1'
  <2>1. <<"buffered", 1>> \in Tasks /\ <<"buffered", 1>>[1] = "buffered"
    BY TaskIs DEF Kinds
  <2>2. task'[<<"buffered", 1>>] = task[<<"buffered", 1>>]
        \/ task'[<<"buffered", 1>>] # "none" \/ ~running["buffered"]
    BY <1>2, <1>3, <2>1
  <2> QED
    BY <2>2 DEF Created1, Lives
<1>5. AheadInv' /\ KeptInv' /\ StartInv'
  BY <1>1 DEF GrantInv, AheadInv, Ahead, KeptInv, Kept, StartInv, Rest, Starts, Last, Goes2, At
<1>6. LiveInv'
  BY <1>1, <1>4 DEF GrantInv, LiveInv, Creating
<1> QED
  BY <1>5, <1>6 DEF GrantInv

(* A request begins with a call that grants nothing.                       *)
THEOREM GrantRequest ==
  ASSUME IInv, GrantInv, NEW r \in Rtsp, Request(r)
  PROVE  GrantInv'
<1>1. /\ UNCHANGED <<stream, running, task>> /\ started' = "none" /\ At(r, "idle")
      /\ ~overlap' => ~overlap
  BY DEF Request, flags
<1>2. PICK p \in Programs : call' = [call EXCEPT ![r] = Load(p)]
  BY DEF Request
<1>3. Fresh(Load(p)) /\ Load(p).pc \in {"format", "type", "stop"}
  BY ProgramIs
<1>4. PICK c : c = Load(p)
  OBVIOUS
<1>5. call'[r] = c /\ \A o \in Rtsp \ {r} : call'[o] = call[o]
  BY <1>2, <1>4 DEF IInv, TypeOK
<1>6. AheadInv'
  BY <1>3, <1>4, <1>5 DEF Fresh, GrantInv, AheadInv, Ahead, Starts, Last, Goes2
<1>7. KeptInv'
  <2> SUFFICES ASSUME ~overlap', NEW o \in Rtsp PROVE Kept(call[o])'
    BY DEF KeptInv
  <2>1. CASE o = r
    BY <1>3, <1>4, <1>5, <2>1 DEF Kept, Starts, Goes2
  <2>2. CASE o # r
    BY <1>1, <1>5, <2>2 DEF GrantInv, KeptInv, Kept, Starts, Goes2
  <2> QED
    BY <2>1, <2>2
<1>8. LiveInv'
  <2> SUFFICES ASSUME running["buffered"], ~Created1
               PROVE  \E o \in Rtsp : Creating(call[o])'
    BY <1>1 DEF LiveInv, Created1, Lives
  <2>1. PICK o \in Rtsp : Creating(call[o])
    BY DEF GrantInv, LiveInv
  <2>2. o # r
    BY <1>1, <2>1 DEF Creating, At
  <2> QED
    BY <1>5, <2>1, <2>2 DEF Creating
<1>9. StartInv'
  BY <1>1 DEF StartInv
<1> QED
  BY <1>6, <1>7, <1>8, <1>9 DEF GrantInv

(* Nothing is granted at first.                                            *)
THEOREM GrantInit == Init => GrantInv
<1> SUFFICES ASSUME Init PROVE GrantInv
  OBVIOUS
<1>1. \A r \in Rtsp : call[r].pc = "idle" /\ call[r].todo = <<>>
  BY DEF Init, Idle
<1>2. ~running["buffered"] /\ started = "none"
  BY DEF Init, Streams
<1>3. AheadInv
  BY <1>1 DEF AheadInv, Ahead, Starts, Last, Goes2
<1>4. KeptInv
  BY <1>1 DEF KeptInv, Kept, Starts, Goes2
<1> QED
  BY <1>2, <1>3, <1>4 DEF GrantInv, LiveInv, StartInv

(* No step breaks what starts promise.                                     *)
THEOREM GrantKeeps == IInv /\ GrantInv /\ [Next]_vars => GrantInv'
<1> SUFFICES ASSUME IInv, GrantInv, [Next]_vars PROVE GrantInv'
  OBVIOUS
<1>1. CASE UNCHANGED vars
  BY <1>1 DEF vars, flags, memory, history, GrantInv, AheadInv, Ahead, KeptInv, Kept, LiveInv,
     Created1, Lives, Creating, StartInv, Rest, Starts, Last, Goes2, At
<1>2. ASSUME NEW t \in Tasks, TaskStep(t) PROVE GrantInv'
  BY <1>2, GrantTask
<1>3. ASSUME NEW r \in Rtsp, Request(r) PROVE GrantInv'
  BY <1>3, GrantRequest
<1>4. ASSUME NEW r \in Rtsp, RtspStep(r) PROVE GrantInv'
  BY <1>4, GrantWait, GrantStop, GrantDecoder, GrantType, GrantStart, GrantBegin, GrantCreate,
     GrantControl DEF RtspStep
<1> QED
  BY <1>1, <1>2, <1>3, <1>4 DEF Next

(* A stream whose start was granted runs and the other does not; and a     *)
(* buffered stream marked as running has a task whenever no call is under  *)
(* way, however the calls before overlapped.                               *)
THEOREM GrantedStartReceives == Spec => []StartedReceives
<1>1. Spec => []GrantInv
  BY GrantInit, GrantKeeps, Invariance, PTL DEF Spec
<1>2. IInv /\ GrantInv => StartedReceives
  <2> SUFFICES ASSUME IInv, GrantInv PROVE StartedReceives
    OBVIOUS
  <2>1. ASSUME started # "none"
        PROVE  stream = started /\ running[started] /\ ~running[Other(started)]
    <3>1. ~overlap /\ stream = started /\ running[started] /\ stream \in Streams
      BY <2>1 DEF GrantInv, StartInv, IInv, TypeOK
    <3>2. Other(started) \in Streams /\ Other(started) # stream
      BY <3>1, OtherIs
    <3> QED
      BY <3>1, <3>2 DEF IInv, SoloInv, RunInv
  <2>2. ASSUME started = "buffered" \/ (running["buffered"] /\ \A r \in Rtsp : At(r, "idle"))
        PROVE  Living("buffered") # {}
    <3>1. running["buffered"] /\ \A r \in Rtsp : ~Creating(call[r])
      BY <2>2 DEF GrantInv, StartInv, Creating, Rest, At
    <3>2. Created1
      BY <3>1 DEF GrantInv, LiveInv
    <3>3. <<"buffered", 1>> \in Tasks /\ StreamOf(<<"buffered", 1>>[1]) = "buffered"
      BY TaskIs DEF Kinds, StreamOf
    <3> QED
      BY <3>2, <3>3 DEF Created1, Living
  <2> QED
    BY <2>1, <2>2 DEF StartedReceives
<1> QED
  BY <1>1, <1>2, Invariance, PTL
=============================================================================
