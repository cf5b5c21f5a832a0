------------------------------ MODULE Receiver ------------------------------
(***************************************************************************)
(* Track changes on a buffered (TCP) stream: main/audio/audio_receiver.c   *)
(* (seek_flush, set_anchor_time, pause) as the RTSP task runs it, against  *)
(* the RTP gates of main/audio/audio_stream.c as the stream task runs them.*)
(* No lock is shared: a gate is tested, disarmed and armed on its own, so  *)
(* each function is a sequence of steps; words written back to back that   *)
(* the other task cannot tell apart are written in one.                    *)
(*                                                                         *)
(* Time and timestamps are in units of the seek threshold (5 s of audio).  *)
(* A frame carries, for the properties, the segment of the sender's        *)
(* timeline it belongs to: a seek starts a new segment.                    *)
(***************************************************************************)
EXTENDS RtpTime, FiniteSets, Sequences

CONSTANTS
  Starts,         (* timestamps a segment may start at                     *)
  First,          (* that of the first segment                             *)
  MaxSegment,     (* seeks the sender makes                                *)
  MaxPauses,      (* pauses the sender makes                               *)
  Patient,        (* the sender seeks only when the last seek has settled  *)
  SeekThreshold,  (* 5 s                                                   *)
  GateWindow,     (* 10 s                                                  *)
  Lead,           (* frames of a segment sent before its anchor is set     *)
  SegmentSize,    (* frames of a segment                                   *)
  RingSize,       (* back-pressure stops the stream task here              *)
  BacklogSize,    (* frames the TCP connection holds                       *)
  MaxElapsed      (* time since an anchor, in units                        *)

ASSUME ReceiverAssumption ==
  /\ Starts \subseteq AllTimestamps /\ First \in Starts
  /\ {MaxSegment, MaxPauses, SeekThreshold, GateWindow, Lead, SegmentSize, MaxElapsed} \subseteq Nat
  /\ Patient \in BOOLEAN
  /\ {RingSize, BacklogSize} \subseteq Nat \ {0}
  /\ Lead <= GateWindow + 1 /\ Lead < SegmentSize

(* A seek goes further than playback, read-ahead and the gates reach, and  *)
(* less than half of the range ("a real track-change or seek gives a huge  *)
(* delta (many minutes)", audio_receiver.c).                               *)
Apart == GateWindow + SeekThreshold + SegmentSize + (MaxPauses + 1) * MaxElapsed

Later(s, t) == Apart <= TsCmp(s, t) /\ TsCmp(s, t) <= TsMod \div 2 - Apart

ASSUME SeekAssumption ==
  \A s, t \in Starts : s # t => Later(s, t) \/ Later(t, s)

VARIABLES
  sender,    (* [seg, start, sent]: its segment and how much of it is sent *)
  pauses,    (* pauses made so far                                         *)
  backlog,   (* frames in the TCP connection, in order                     *)
  rtsp,      (* requests on the control connection, in order               *)
  ring,      (* the jitter buffer                                          *)
  gates,     (* the gate words of audio_receiver_state_t                   *)
  anchor,    (* timing.anchor_valid, anchor_rtp_time, and its segment      *)
  elapsed,   (* time since the anchor was set                              *)
  played,    (* of it, the time spent playing                              *)
  playing,   (* timing.playing                                             *)
  stream,    (* [pc, frame]: the stream task                               *)
  task,      (* [pc, req, armed]: the RTSP task                            *)
  heard,     (* history: segments of which a frame reached the ring        *)
  masked     (* history: when an anchor last looked at the oldest frame, a *)
             (* frame of its own segment lay before those of an older one  *)

vars == <<sender, pauses, backlog, rtsp, ring, gates, anchor, elapsed, played,
          playing, stream, task, heard, masked>>

Segments == 0 .. MaxSegment
Frames == [ts : AllTimestamps, seg : Segments]
NoFrame == [ts |-> 0, seg |-> 0]
Request(op, rtp, seg) == [op |-> op, rtp |-> rtp, seg |-> seg]
Ops == {"none", "flush", "anchor", "pause", "resume"}
NoRequest == Request("none", 0, 0)

Far(a, b) == TsCmp(a, b) > SeekThreshold \/ TsCmp(b, a) > SeekThreshold

IsOldest(f) == f \in ring /\ \A g \in ring : TsCmp(f.ts, g.ts) <= 0

OpenGates ==
  [all |-> FALSE, arm |-> FALSE,
   before |-> 0, beforeOn |-> FALSE, above |-> 0, aboveOn |-> FALSE]

(* Mutant: the upper bound does not wrap. *)
UpperBoundNoWrap(rtp) == rtp + GateWindow

(* discard_above_rtp for an anchor. *)
UpperBound(rtp) == TsAdd(rtp, GateWindow)

Init ==
  /\ sender = [seg |-> 0, start |-> First, sent |-> 0]
  /\ rtsp = <<Request("anchor", First, 0)>>
  /\ pauses = 0
  /\ backlog = <<>>
  /\ ring = {}
  /\ gates = OpenGates
  /\ anchor = [valid |-> FALSE, rtp |-> 0, seg |-> 0]
  /\ elapsed = 0
  /\ played = 0
  /\ playing = TRUE
  /\ stream = [pc |-> "read", frame |-> NoFrame]
  /\ task = [pc |-> "idle", req |-> NoRequest, armed |-> FALSE]
  /\ heard = {}
  /\ masked = FALSE

-----------------------------------------------------------------------------
(* The sender (external) *)

AnchorIsSet == anchor.valid /\ anchor.seg = sender.seg

(* The next frame of the segment.  Before its anchor is set the sender     *)
(* runs at most Lead frames ahead.                                         *)
SendFrame ==
  /\ Len(backlog) < BacklogSize
  /\ sender.sent < IF AnchorIsSet THEN SegmentSize ELSE Lead
  /\ backlog' = Append(backlog, [ts |-> TsAdd(sender.start, sender.sent), seg |-> sender.seg])
  /\ sender' = [sender EXCEPT !.sent = @ + 1]
  /\ UNCHANGED <<pauses, rtsp, ring, gates, anchor, elapsed, played, playing,
                 stream, task, heard, masked>>

(* The seek before has settled: its anchor is set, a frame of its segment  *)
(* has disarmed the gates and no older frame is left in the connection.    *)
InFlight == {backlog[i] : i \in DOMAIN backlog}
              \cup IF stream.pc = "read" THEN {} ELSE {stream.frame}
Settled ==
  /\ rtsp = <<>> /\ task.pc = "idle" /\ ~gates.beforeOn /\ ~gates.aboveOn
  /\ \A f \in InFlight : f.seg = sender.seg

(* The user seeks or skips: FLUSHBUFFERED, then SETRATEANCHORTIME; some    *)
(* senders leave the flush out.                                            *)
Seek ==
  /\ sender.seg < MaxSegment /\ (Patient => Settled)
  /\ \E s \in Starts \ {sender.start}, flush \in {<<>>, <<Request("flush", 0, sender.seg + 1)>>} :
       /\ sender' = [seg |-> sender.seg + 1, start |-> s, sent |-> 0]
       /\ rtsp' = rtsp \o flush \o <<Request("anchor", s, sender.seg + 1)>>
  /\ UNCHANGED <<pauses, backlog, ring, gates, anchor, elapsed, played, playing,
                 stream, task, heard, masked>>

(* The user pauses; later the sender resumes from where playback stopped.  *)
Pause ==
  /\ pauses < MaxPauses
  /\ rtsp = <<>> /\ task.pc = "idle" /\ AnchorIsSet /\ playing
  /\ pauses' = pauses + 1
  /\ rtsp' = <<Request("pause", 0, sender.seg)>>
  /\ UNCHANGED <<sender, backlog, ring, gates, anchor, elapsed, played, playing,
                 stream, task, heard, masked>>

Resume ==
  /\ rtsp = <<>> /\ task.pc = "idle" /\ AnchorIsSet /\ ~playing
  /\ rtsp' = <<Request("resume", TsAdd(anchor.rtp, played), sender.seg)>>
  /\ UNCHANGED <<sender, pauses, backlog, ring, gates, anchor, elapsed, played,
                 playing, stream, task, heard, masked>>

(* Time passes; while playing, the frames that are due leave the ring.     *)
Tick ==
  /\ anchor.valid /\ elapsed < MaxElapsed
  /\ elapsed' = elapsed + 1
  /\ IF playing
     THEN /\ played' = played + 1
          /\ ring' = {f \in ring : TsCmp(f.ts, TsAdd(anchor.rtp, played + 1)) >= 0}
     ELSE UNCHANGED <<played, ring>>
  /\ UNCHANGED <<sender, pauses, backlog, rtsp, gates, anchor, playing,
                 stream, task, heard, masked>>

-----------------------------------------------------------------------------
(* The stream task: buffered_audio_task *)

StreamAt(l, f) == stream' = [pc |-> l, frame |-> f]

(* Back-pressure, one packet and the blanket gate of                       *)
(* audio_stream_accept_timestamp.                                          *)
ReadPacket ==
  /\ stream.pc = "read"
  /\ Cardinality(ring) < RingSize
  /\ backlog # <<>>
  /\ IF gates.all THEN UNCHANGED stream ELSE StreamAt("lower", Head(backlog))
  /\ backlog' = Tail(backlog)
  /\ UNCHANGED <<sender, pauses, rtsp, ring, gates, anchor, elapsed, played,
                 playing, task, heard, masked>>

BelowLower == gates.beforeOn /\ TsCmp(stream.frame.ts, gates.before) < 0
AboveUpper == gates.aboveOn /\ TsCmp(stream.frame.ts, gates.above) > 0

(* The lower gate.  The test and the disarming are two accesses: the RTSP  *)
(* task may arm the gate anew between them.                                *)
CheckLower ==
  /\ stream.pc = "lower"
  /\ IF BelowLower THEN StreamAt("read", NoFrame)
     ELSE StreamAt(IF gates.beforeOn THEN "passLower" ELSE "upper", stream.frame)
  /\ UNCHANGED <<sender, pauses, backlog, rtsp, ring, gates, anchor, elapsed,
                 played, playing, task, heard, masked>>

DisarmLower ==
  /\ stream.pc = "passLower"
  /\ gates' = [gates EXCEPT !.beforeOn = FALSE]
  /\ StreamAt("upper", stream.frame)
  /\ UNCHANGED <<sender, pauses, backlog, rtsp, ring, anchor, elapsed, played,
                 playing, task, heard, masked>>

(* The upper gate, likewise. *)
CheckUpper ==
  /\ stream.pc = "upper"
  /\ IF AboveUpper THEN StreamAt("read", NoFrame)
     ELSE StreamAt(IF gates.aboveOn THEN "passUpper" ELSE "decode", stream.frame)
  /\ UNCHANGED <<sender, pauses, backlog, rtsp, ring, gates, anchor, elapsed,
                 played, playing, task, heard, masked>>

DisarmUpper ==
  /\ stream.pc = "passUpper"
  /\ gates' = [gates EXCEPT !.aboveOn = FALSE]
  /\ StreamAt("decode", stream.frame)
  /\ UNCHANGED <<sender, pauses, backlog, rtsp, ring, anchor, elapsed, played,
                 playing, task, heard, masked>>

(* After decrypting and decoding: timestamp_is_gated, which disarms        *)
(* nothing.                                                                *)
Recheck ==
  /\ stream.pc = "decode"
  /\ IF gates.all \/ BelowLower \/ AboveUpper
     THEN StreamAt("read", NoFrame)
     ELSE StreamAt("queue", stream.frame)
  /\ UNCHANGED <<sender, pauses, backlog, rtsp, ring, gates, anchor, elapsed,
                 played, playing, task, heard, masked>>

(* audio_buffer_queue_decoded *)
QueueFrame ==
  /\ stream.pc = "queue"
  /\ ring' = ring \cup {stream.frame}
  /\ heard' = heard \cup {stream.frame.seg}
  /\ StreamAt("read", NoFrame)
  /\ UNCHANGED <<sender, pauses, backlog, rtsp, gates, anchor, elapsed, played,
                 playing, task, masked>>

-----------------------------------------------------------------------------
(* The RTSP task *)

TaskAt(l) == task' = [task EXCEPT !.pc = l]

Receive(ops, l) ==
  /\ task.pc = "idle" /\ rtsp # <<>> /\ Head(rtsp).op \in ops
  /\ task' = [pc |-> l, req |-> Head(rtsp), armed |-> FALSE]
  /\ rtsp' = Tail(rtsp)

(* handle_flushbuffered, immediate: audio_receiver_seek_flush.  First      *)
(* audio_receiver_flush empties the buffer and resets the timing ...       *)
FlushBuffered ==
  /\ Receive({"flush"}, "disarm")
  /\ ring' = {}
  /\ anchor' = [anchor EXCEPT !.valid = FALSE]
  /\ elapsed' = 0
  /\ played' = 0
  /\ UNCHANGED <<sender, pauses, backlog, gates, playing, stream, heard, masked>>

(* ... and disarms every gate, the blanket gate of an earlier seek too ... *)
DisarmGates ==
  /\ task.pc = "disarm"
  /\ gates' = OpenGates
  /\ TaskAt("close")
  /\ UNCHANGED <<sender, pauses, backlog, rtsp, ring, anchor, elapsed, played,
                 playing, stream, heard, masked>>

(* Mutant: seek_flush rejects frames but forgets to ask for the gates. *)
CloseGateOnly ==
  /\ task.pc = "close"
  /\ gates' = [gates EXCEPT !.all = TRUE]
  /\ TaskAt("idle")
  /\ UNCHANGED <<sender, pauses, backlog, rtsp, ring, anchor, elapsed, played,
                 playing, stream, heard, masked>>

(* ... then seek_flush rejects every frame until the next anchor.          *)
CloseGate ==
  /\ task.pc = "close"
  /\ gates' = [gates EXCEPT !.arm = TRUE, !.all = TRUE]
  /\ TaskAt("idle")
  /\ UNCHANGED <<sender, pauses, backlog, rtsp, ring, anchor, elapsed, played,
                 playing, stream, heard, masked>>

(* SETRATEANCHORTIME rate 0: audio_receiver_pause.                         *)
PauseStream ==
  /\ Receive({"pause"}, "idle")
  /\ playing' = FALSE
  /\ UNCHANGED <<sender, pauses, backlog, ring, gates, anchor, elapsed, played,
                 stream, heard, masked>>

(* SETRATEANCHORTIME rate 1: audio_receiver_set_anchor_time.               *)
BeginAnchor ==
  /\ Receive({"anchor", "resume"}, "anchor")
  /\ UNCHANGED <<sender, pauses, backlog, ring, gates, anchor, elapsed, played,
                 playing, stream, heard, masked>>

(* Path A: a seek_flush asked for the gates. *)
ArmOnAnchor ==
  /\ task.pc = "anchor" /\ gates.arm
  /\ gates' = [gates EXCEPT !.arm = FALSE]
  /\ task' = [task EXCEPT !.pc = "lower", !.armed = TRUE]
  /\ UNCHANGED <<sender, pauses, backlog, rtsp, ring, anchor, elapsed, played,
                 playing, stream, heard, masked>>

(* Path B: the anchor is far from where playback should be.  The pause     *)
(* snapshot is never valid here: only set_playing(false) takes one, and    *)
(* its one caller stops the receiver, which drops it.  So the reference is *)
(* the old anchor plus the wall-clock time since.                          *)
Reference == TsAdd(anchor.rtp, elapsed)
AnchorJumps == anchor.valid /\ Far(task.req.rtp, Reference)

FlushOnJump ==
  /\ task.pc = "anchor" /\ ~gates.arm /\ AnchorJumps
  /\ ring' = {}
  /\ task' = [task EXCEPT !.pc = "lower", !.armed = TRUE]
  /\ UNCHANGED <<sender, pauses, backlog, rtsp, gates, anchor, elapsed, played,
                 playing, stream, heard, masked>>

(* The window gates around the anchor, one after the other: on paths A and *)
(* B before the blanket gate opens, else after stale frames were found.    *)
ArmLower ==
  /\ task.pc = "lower"
  /\ gates' = [gates EXCEPT !.before = task.req.rtp, !.beforeOn = TRUE]
  /\ TaskAt("upper")
  /\ UNCHANGED <<sender, pauses, backlog, rtsp, ring, anchor, elapsed, played,
                 playing, stream, heard, masked>>

ArmUpper ==
  /\ task.pc = "upper"
  /\ gates' = [gates EXCEPT !.above = UpperBound(task.req.rtp), !.aboveOn = TRUE]
  /\ TaskAt(IF task.armed THEN "open" ELSE "set")
  /\ UNCHANGED <<sender, pauses, backlog, rtsp, ring, anchor, elapsed, played,
                 playing, stream, heard, masked>>

SameTrack ==
  /\ task.pc = "anchor" /\ ~gates.arm /\ ~AnchorJumps
  /\ TaskAt("open")
  /\ UNCHANGED <<sender, pauses, backlog, rtsp, ring, gates, anchor, elapsed,
                 played, playing, stream, heard, masked>>

(* Mutant: the blanket gate stays closed. *)
OpenGateForgotten ==
  /\ task.pc = "open"
  /\ TaskAt("check")
  /\ UNCHANGED <<sender, pauses, backlog, rtsp, ring, gates, anchor, elapsed,
                 played, playing, stream, heard, masked>>

(* The window gates are active: the blanket gate may open. *)
OpenGate ==
  /\ task.pc = "open"
  /\ gates' = [gates EXCEPT !.all = FALSE]
  /\ TaskAt("check")
  /\ UNCHANGED <<sender, pauses, backlog, rtsp, ring, anchor, elapsed, played,
                 playing, stream, heard, masked>>

OldestIsFar == \E f \in ring : IsOldest(f) /\ Far(f.ts, task.req.rtp)

(* Only the oldest frame is looked at: one of the new track, sent ahead of *)
(* its anchor, hides stale frames with later timestamps.                   *)
Masked ==
  \E f, g \in ring :
    g.seg = task.req.seg /\ f.seg < g.seg /\ TsCmp(g.ts, f.ts) < 0

(* Phase 2: stale frames got in anyway.  Flush, and arm the gates unless   *)
(* path A or B did.                                                        *)
FlushStale ==
  /\ task.pc = "check" /\ OldestIsFar
  /\ ring' = {}
  /\ masked' = FALSE
  /\ TaskAt(IF task.armed THEN "set" ELSE "lower")
  /\ UNCHANGED <<sender, pauses, backlog, rtsp, gates, anchor, elapsed, played,
                 playing, stream, heard>>

KeepRing ==
  /\ task.pc = "check" /\ ~OldestIsFar
  /\ masked' = Masked
  /\ TaskAt("set")
  /\ UNCHANGED <<sender, pauses, backlog, rtsp, ring, gates, anchor, elapsed,
                 played, playing, stream, heard>>

(* audio_timing_set_anchor and audio_receiver_set_playing(true). *)
SetAnchor ==
  /\ task.pc = "set"
  /\ anchor' = [valid |-> TRUE, rtp |-> task.req.rtp, seg |-> task.req.seg]
  /\ elapsed' = 0
  /\ played' = 0
  /\ playing' = TRUE
  /\ task' = [pc |-> "idle", req |-> NoRequest, armed |-> FALSE]
  /\ UNCHANGED <<sender, pauses, backlog, rtsp, ring, gates, stream, heard, masked>>

-----------------------------------------------------------------------------

User == Seek \/ Pause \/ Resume
StreamTask ==
  \/ ReadPacket \/ CheckLower \/ DisarmLower \/ CheckUpper \/ DisarmUpper
  \/ Recheck \/ QueueFrame
SetAnchorTime ==
  \/ BeginAnchor \/ ArmOnAnchor \/ FlushOnJump \/ SameTrack \/ ArmLower
  \/ ArmUpper \/ OpenGate \/ FlushStale \/ KeepRing \/ SetAnchor
RtspTask == FlushBuffered \/ DisarmGates \/ CloseGate \/ PauseStream \/ SetAnchorTime

Next == User \/ SendFrame \/ Tick \/ StreamTask \/ RtspTask

Spec == Init /\ [][Next]_vars

(* The tasks run and the sender sends; nobody has to seek or pause.        *)
FairSpec ==
  Spec /\ WF_vars(SendFrame) /\ WF_vars(Tick) /\ WF_vars(StreamTask) /\ WF_vars(RtspTask)

-----------------------------------------------------------------------------
(* Properties *)

(* The variables have their types. *)
TypeOK ==
  /\ sender \in [seg : Segments, start : Starts, sent : 0 .. SegmentSize]
  /\ backlog \in Seq(Frames) /\ Len(backlog) <= BacklogSize
  /\ rtsp \in Seq([op : Ops, rtp : AllTimestamps, seg : Segments])
  /\ ring \in SUBSET Frames
  /\ gates \in [all : BOOLEAN, arm : BOOLEAN, before : AllTimestamps,
                beforeOn : BOOLEAN, above : AllTimestamps, aboveOn : BOOLEAN]
  /\ anchor \in [valid : BOOLEAN, rtp : AllTimestamps, seg : Segments]
  /\ elapsed \in 0 .. MaxElapsed /\ played \in 0 .. elapsed
  /\ playing \in BOOLEAN /\ pauses \in 0 .. MaxPauses
  /\ stream \in [pc : {"read", "lower", "passLower", "upper", "passUpper", "decode", "queue"},
                 frame : Frames]
  /\ task \in [pc : {"idle", "disarm", "close", "anchor", "lower", "upper", "open", "check", "set"},
               req : [op : Ops, rtp : AllTimestamps, seg : Segments], armed : BOOLEAN]
  /\ heard \subseteq Segments /\ masked \in BOOLEAN

(* Frames of an earlier segment that the new anchor does not cover. *)
Stale == {f \in ring : f.seg < anchor.seg /\ Far(f.ts, anchor.rtp)}

(* When each seek has settled before the next, at most the one frame       *)
(* that was between its last gate check and the insert survives a track    *)
(* change: flush, blanket gate, window gates and the oldest-frame check    *)
(* catch every other, in whatever order the two tasks run.  The exception  *)
(* is that check itself, when a frame of the new track is older than the   *)
(* stale ones (a seek back): then it does not see them.                    *)
AtMostOneStale ==
  anchor.valid /\ task.pc = "idle" /\ ~masked => Cardinality(Stale) <= 1

(* The new track is heard: gates that are closed for the old one never     *)
(* lock out the segment they were closed for.                              *)
SegmentHeard ==
  \A s \in Segments :
    anchor.valid /\ anchor.seg = s ~> s \in heard \/ anchor.seg # s \/ ~anchor.valid

(* audio_receiver.c on the pause snapshot: a resume from where playback    *)
(* was paused is not taken for a seek, however long the pause.             *)
ResumeKeepsBuffer == task.armed => task.req.op # "resume"
=============================================================================
