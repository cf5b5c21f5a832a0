------------------------------ MODULE Playout ------------------------------
(***************************************************************************)
(* When a frame is played: audio_timing_read of main/audio/audio_timing.c, *)
(* called by the playback task of main/audio/audio_output.c, against the   *)
(* flushes, pauses and anchors of the RTSP task.  The two share the fields *)
(* of audio_timing_t without a lock.                                       *)
(*                                                                         *)
(* Time is in ticks, a frame lasts Period of them; timestamps count        *)
(* frames.  Every pass of the playback task writes one frame, of audio or  *)
(* of silence, into the DMA ring, which paces it.                          *)
(***************************************************************************)
EXTENDS RtpTime, FiniteSets

CONSTANTS
  Starts,        (* first timestamps of segments, far apart                *)
  First,         (* that of the first segment                              *)
  SegmentSize,   (* frames of a segment                                    *)
  Leads,         (* how far in the future a new anchor may lie             *)
  ClockSteps,    (* how far the clock offset may jump                      *)
  Period,        (* ticks of a frame, 2 or more                            *)
  Threshold,     (* TIMING_THRESHOLD_US or RT_TIMING_THRESHOLD_US          *)
  DmaSize,       (* ticks of audio the DMA ring holds                      *)
  Target,        (* target_buffer_frames                                   *)
  ReadyWait,     (* 1 s: the wait for an anchor                            *)
  IslandGap,     (* 100 ms, in frames                                      *)
  MaxEarly,      (* MAX_CONSECUTIVE_EARLY                                  *)
  MaxLate,       (* how late the model lets an anchor become               *)
  MaxRequests    (* requests of the sender                                 *)

ASSUME PlayoutAssumption ==
  /\ Starts \subseteq AllTimestamps /\ First \in Starts
  /\ Leads \subseteq Nat /\ ClockSteps \subseteq Int
  /\ \E m \in Leads : \A l \in Leads : l <= m
  /\ 2 * SegmentSize <= TsMod
  /\ {SegmentSize, Threshold, Target, IslandGap, MaxEarly, ReadyWait,
      MaxLate, MaxRequests} \subseteq Nat
  /\ Period \in Nat \ {0, 1} /\ DmaSize \in Nat /\ DmaSize >= Period

(* Where a timestamp lies, counted from the start of the first track.      *)
Position(ts) == TsCmp(ts, First)

(* The tracks of a session lie within a quarter of the timestamp range of  *)
(* the first, and are farther apart than playback can be late.  An anchor  *)
(* can become so late that all of its track is.  Half a frame, 12 ms at    *)
(* most, is no more than the threshold of 25 or 50 ms.                     *)
ASSUME ScheduleAssumption ==
  /\ \A s \in Starts : Position(s) > -(TsMod \div 4) /\ Position(s) + SegmentSize < TsMod \div 4
  /\ \A s, t \in Starts : Position(s) > Position(t) =>
       Period * (Position(s) - Position(t) - SegmentSize) > MaxLate + Threshold
  /\ Period * SegmentSize <= MaxLate + Threshold
  /\ Period \div 2 <= Threshold

VARIABLES
  segment,   (* [start, sent]: the track and which of its frames arrived   *)
  requests,  (* requests made                                              *)
  buffer,    (* timestamps in the jitter buffer                            *)
  timing,    (* audio_timing_t                                             *)
  lead,      (* ticks until the anchor's frame is due                      *)
  dma,       (* ticks of audio in the DMA ring                             *)
  flushing,  (* flush_requested: the DMA ring is to be emptied             *)
  reader,    (* [pc, ts, held, dropped, early, dma]: audio_timing_read     *)
  rtsp,      (* the RTSP task's place in a request                         *)
  moved,     (* history: the schedule moved under a running stream         *)
  old        (* history: frames of an earlier segment played since a flush *)

vars == <<segment, requests, buffer, timing, lead, dma, flushing,
          reader, rtsp, moved, old>>

None == TsMod
MaybeTs == AllTimestamps \cup {None}
Unset == ReadyWait + 1
MaxLead == CHOOSE m \in Leads : \A l \in Leads : l <= m

FreshTiming ==
  [anchorValid |-> FALSE, anchorRtp |-> 0, pending |-> None, expected |-> None,
   started |-> FALSE, quick |-> FALSE, playing |-> TRUE, until |-> None,
   early |-> 0, ready |-> Unset]

IdleReader == [pc |-> "begin", ts |-> 0, held |-> FALSE, dropped |-> FALSE,
               early |-> 0, dma |-> 0]

(* The first anchor came before the first packet. *)
Init ==
  /\ segment = [start |-> First, sent |-> {}]
  /\ timing = [FreshTiming EXCEPT !.anchorValid = TRUE, !.anchorRtp = First]
  /\ lead \in Leads
  /\ requests = 0
  /\ buffer = {}
  /\ dma = DmaSize
  /\ flushing = FALSE
  /\ reader = IdleReader
  /\ rtsp = "idle"
  /\ moved = FALSE
  /\ old = 0

-----------------------------------------------------------------------------
(* Time, clock and network *)

(* The DMA ring drains and the anchor comes nearer.  A pass of the loop    *)
(* itself takes no time: what delays the task delays the start of one.     *)
Tick ==
  /\ reader.pc \in {"begin", "write"}
  /\ lead > -MaxLate \/ dma > 0 \/ timing.ready \in 1 .. ReadyWait
  /\ lead' = IF timing.anchorValid /\ lead > -MaxLate THEN lead - 1 ELSE lead
  /\ dma' = IF dma > 0 THEN dma - 1 ELSE 0
  /\ timing' = [timing EXCEPT !.ready = IF @ \in 1 .. ReadyWait THEN @ - 1 ELSE @]
  /\ UNCHANGED <<segment, requests, buffer, reader, rtsp, moved, old, flushing>>

(* A packet of the track arrives, at most one place out of order or after  *)
(* one that is lost.                                                       *)
Missing == 0 .. SegmentSize - 1 \ segment.sent
Arrive ==
  /\ \E k \in Missing :
       /\ Cardinality({j \in Missing : j < k}) <= 1
       /\ segment' = [segment EXCEPT !.sent = @ \cup {k}]
       /\ buffer' = buffer \cup {TsAdd(segment.start, k)}
  /\ UNCHANGED <<requests, timing, lead, dma, reader, rtsp, moved, old, flushing>>

(* The PTP or NTP offset is corrected, or lock is won or lost: every due   *)
(* time of compute_early_us moves.                                         *)
ClockMoves ==
  /\ timing.anchorValid /\ requests < MaxRequests
  /\ \E d \in ClockSteps : lead + d \in -MaxLate .. MaxLead /\ lead' = lead + d
  /\ requests' = requests + 1
  /\ moved' = TRUE
  /\ UNCHANGED <<segment, buffer, timing, dma, reader, rtsp, old, flushing>>

-----------------------------------------------------------------------------
(* The playback task: audio_timing_read *)

ReaderAt(l) == reader' = [reader EXCEPT !.pc = l]
Finish == reader' = [IdleReader EXCEPT !.pc = "write"]

(* How early a frame is: compute_early_us. *)
Early(ts) == lead + Period * TsCmp(ts, timing.anchorRtp)

Required == IF timing.quick THEN 1 ELSE Target
Gated == ~timing.started /\ timing.pending = None
NoAnchor == ~timing.anchorValid /\ timing.ready # 0 /\ ReadyWait > 0
Waiting == Gated /\ (Cardinality(buffer) < Required \/ NoAnchor)

(* playback_task: the I2S channel is restarted on request, which empties   *)
(* the DMA ring, before the next frame is read.  What a running stream has *)
(* written there is not heard, and the rest of it comes forward by as much.*)
FlushOutput ==
  /\ reader.pc = "begin" /\ flushing
  /\ flushing' = FALSE
  /\ dma' = 0
  /\ moved' = (moved \/ timing.expected # None)
  /\ UNCHANGED <<segment, requests, buffer, timing, lead, reader, rtsp, old>>

(* The start-up gate: nothing to do, or too little buffered, or no anchor  *)
(* yet: silence.                                                           *)
NotReady ==
  /\ reader.pc = "begin" /\ ~flushing /\ (~timing.playing \/ Waiting)
  /\ timing' = IF timing.playing /\ Cardinality(buffer) >= Required /\ timing.ready = Unset
                  /\ NoAnchor
               THEN [timing EXCEPT !.ready = ReadyWait] ELSE timing
  /\ Finish
  /\ UNCHANGED <<segment, requests, buffer, lead, dma, rtsp, moved, old, flushing>>

Begin ==
  /\ reader.pc = "begin" /\ ~flushing /\ timing.playing /\ ~Waiting
  /\ reader' = [IdleReader EXCEPT !.pc = "fetch"]
  /\ UNCHANGED <<segment, requests, buffer, timing, lead, dma, rtsp, moved, old, flushing>>

Oldest == CHOOSE t \in buffer : \A u \in buffer : TsCmp(t, u) <= 0

(* Mutant: the buffer is asked before the pending frame. *)
FetchBuffered ==
  /\ reader.pc = "fetch"
  /\ IF buffer = {} THEN Finish /\ UNCHANGED buffer
     ELSE /\ reader' = [reader EXCEPT !.pc = "judge", !.ts = Oldest, !.held = FALSE]
          /\ buffer' = buffer \ {Oldest}
  /\ UNCHANGED <<segment, requests, timing, lead, dma, rtsp, moved, old, flushing>>

(* The pending frame, or the oldest one buffered. *)
Fetch ==
  /\ reader.pc = "fetch"
  /\ IF timing.pending # None
     THEN /\ reader' = [reader EXCEPT !.pc = "judge", !.ts = timing.pending, !.held = TRUE]
          /\ UNCHANGED buffer
     ELSE IF buffer = {} THEN Finish /\ UNCHANGED buffer
     ELSE /\ reader' = [reader EXCEPT !.pc = "judge", !.ts = Oldest, !.held = FALSE]
          /\ buffer' = buffer \ {Oldest}
  /\ UNCHANGED <<segment, requests, timing, lead, dma, rtsp, moved, old, flushing>>

Released == IF reader.held THEN [timing EXCEPT !.pending = None] ELSE timing

FlushReached == timing.until # None /\ TsCmp(reader.ts, timing.until) >= 0

(* A deferred flush falls due. *)
DeferredFlush ==
  /\ reader.pc = "judge" /\ FlushReached
  /\ buffer' = {}
  /\ timing' = [Released EXCEPT !.until = None, !.expected = None, !.started = FALSE,
                                !.ready = Unset, !.early = 0, !.quick = TRUE]
  /\ Finish
  /\ UNCHANGED <<segment, requests, lead, dma, rtsp, moved, old, flushing>>

(* audio_buffer_bulk_start_rtp: where the run that ends at the newest      *)
(* frame begins.                                                           *)
BulkStart ==
  CHOOSE b \in buffer :
    /\ \A t \in buffer : TsCmp(t, b) > 0 => TsAdd(t, TsMod - 1) \in buffer
    /\ TsAdd(b, TsMod - 1) \notin buffer
OnIsland == ~timing.started /\ buffer # {} /\ TsCmp(BulkStart, reader.ts) > IslandGap

(* A stale frame in front of the stream is skipped before it starts; the   *)
(* loop goes on unless its time is up.                                     *)
SkipIsland ==
  /\ reader.pc = "judge" /\ ~FlushReached /\ OnIsland
  /\ timing' = Released
  /\ Finish \/ ReaderAt("fetch")
  /\ UNCHANGED <<segment, requests, buffer, lead, dma, rtsp, moved, old, flushing>>

(* Continuity with the frame played last. *)
Fresh == ~reader.held /\ timing.started /\ timing.expected # None
(* Mutant: a frame after a gap counts as continuous. *)
ContinuousAfterGap == Fresh

Continuous == Fresh /\ TsCmp(reader.ts, timing.expected) <= 0
Gap == Fresh /\ TsCmp(reader.ts, timing.expected) > 0

Release == IF reader.held \/ reader.dropped \/ Gap THEN Period \div 2 ELSE Threshold
TooEarly == timing.anchorValid /\ ~Continuous /\ Early(reader.ts) > Release
TooLate == timing.anchorValid /\ ~TooEarly /\ Early(reader.ts) < -Threshold
Judging == reader.pc = "judge" /\ ~FlushReached /\ ~OnIsland

NextExpected(ts) ==
  IF timing.expected = None \/ TsCmp(TsAdd(ts, 1), timing.expected) > 0
  THEN TsAdd(ts, 1) ELSE timing.expected

Counted == IF reader.held THEN timing.early ELSE timing.early + 1

(* An early frame is to be kept pending, unless so many were early that    *)
(* the anchor is given up ...                                              *)
Hold ==
  /\ Judging /\ TooEarly
  /\ IF Counted > MaxEarly
     THEN /\ timing' = [timing EXCEPT !.anchorValid = FALSE, !.early = 0]
          /\ reader' = [reader EXCEPT !.pc = "commit", !.early = 0, !.dma = dma]
     ELSE /\ timing' = [timing EXCEPT !.early = Counted]
          /\ IF reader.held THEN Finish ELSE ReaderAt("store")
  /\ UNCHANGED <<segment, requests, buffer, lead, dma, rtsp, moved, old, flushing>>

(* ... and its copy is made the pending one; silence is written.           *)
Store ==
  /\ reader.pc = "store"
  /\ timing' = [timing EXCEPT !.pending = reader.ts]
  /\ Finish
  /\ UNCHANGED <<segment, requests, buffer, lead, dma, rtsp, moved, old, flushing>>

(* A late frame is dropped; the loop goes on unless its time is up. *)
DropLate ==
  /\ Judging /\ TooLate
  /\ timing' = [Released EXCEPT !.early = 0, !.expected = NextExpected(reader.ts)]
  /\ Finish \/ reader' = [reader EXCEPT !.pc = "fetch", !.dropped = TRUE]
  /\ UNCHANGED <<segment, requests, buffer, lead, dma, rtsp, moved, old, flushing>>

(* A frame on time is copied to the output ... *)
Play ==
  /\ Judging /\ ~TooEarly /\ ~TooLate
  /\ timing' = [timing EXCEPT !.early = 0]
  /\ reader' = [reader EXCEPT !.pc = "commit", !.dma = dma,
                              !.early = IF timing.anchorValid THEN Early(reader.ts) ELSE 0]
  /\ UNCHANGED <<segment, requests, buffer, lead, dma, rtsp, moved, old, flushing>>

OfSegment(ts) == TsCmp(ts, segment.start) \in 0 .. SegmentSize - 1

(* ... and then the stream's position is written back. *)
Commit ==
  /\ reader.pc = "commit"
  /\ timing' = [Released EXCEPT !.expected = NextExpected(reader.ts),
                                !.started = TRUE, !.quick = FALSE]
  /\ old' = IF OfSegment(reader.ts) \/ old = 2 THEN old ELSE old + 1
  /\ Finish
  /\ UNCHANGED <<segment, requests, buffer, lead, dma, rtsp, moved, flushing>>

(* Mutant: the task does not wait for room in the DMA ring. *)
WriteUnpaced ==
  /\ reader.pc = "write"
  /\ dma' = dma + Period
  /\ reader' = IdleReader
  /\ UNCHANGED <<segment, requests, buffer, timing, lead, rtsp, moved, old, flushing>>

(* i2s_channel_write blocks until a frame fits. *)
Write ==
  /\ reader.pc = "write" /\ dma + Period <= DmaSize
  /\ dma' = dma + Period
  /\ reader' = IdleReader
  /\ UNCHANGED <<segment, requests, buffer, timing, lead, rtsp, moved, old, flushing>>

-----------------------------------------------------------------------------
(* The RTSP task *)

Request(l) == /\ rtsp = "idle" /\ requests < MaxRequests
              /\ rtsp' = l /\ requests' = requests + 1

(* Mutant: a flush keeps the buffered frames. *)
FlushNothing ==
  /\ Request("reset")
  /\ \E s \in Starts \ {segment.start} : segment' = [start |-> s, sent |-> {}]
  /\ old' = 0
  /\ UNCHANGED <<buffer, timing, lead, dma, reader, moved, flushing>>

(* FLUSH and FLUSHBUFFERED: audio_receiver_seek_flush empties the buffer,  *)
FlushBuffer ==
  /\ Request("reset")
  /\ \E s \in Starts \ {segment.start} : segment' = [start |-> s, sent |-> {}]
  /\ old' = 0
  /\ buffer' = {}
  /\ UNCHANGED <<timing, lead, dma, reader, moved, flushing>>

InRead == reader.pc \in {"judge", "commit"}

(* resets the timing, *)
ResetTiming ==
  /\ rtsp = "reset"
  /\ timing' = [FreshTiming EXCEPT !.anchorRtp = timing.anchorRtp, !.playing = timing.playing]
  /\ moved' = InRead
  /\ rtsp' = "quick"
  /\ UNCHANGED <<segment, requests, buffer, lead, dma, reader, old, flushing>>

(* and asks for a quick start; then audio_output_flush asks the playback   *)
(* task to empty the DMA ring.                                             *)
QuickStart ==
  /\ rtsp = "quick"
  /\ timing' = [timing EXCEPT !.quick = TRUE]
  /\ flushing' = TRUE
  /\ rtsp' = "idle"
  /\ UNCHANGED <<segment, requests, buffer, lead, dma, reader, moved, old>>

(* An anchor for the track's first frame or for where playback stands: its *)
(* timestamp,                                                              *)
AnchorRtp ==
  /\ Request("anchor")
  /\ \E t \in {segment.start, timing.expected} :
       /\ t # None /\ OfSegment(t)
       /\ timing' = [timing EXCEPT !.anchorRtp = t]
  /\ moved' = (moved \/ timing.expected # None \/ timing.anchorValid)
  /\ UNCHANGED <<segment, buffer, lead, dma, reader, old, flushing>>

(* then its instant; and playback is on. *)
AnchorTime ==
  /\ rtsp = "anchor"
  /\ lead' \in Leads
  /\ timing' = [timing EXCEPT !.anchorValid = TRUE, !.early = 0, !.playing = TRUE]
  /\ rtsp' = "idle"
  /\ moved' = (moved \/ timing.expected # None \/ reader.pc = "commit")
  /\ UNCHANGED <<segment, requests, buffer, dma, reader, old, flushing>>

(* PAUSE, SETRATEANCHORTIME rate 0: audio_timing_set_playing(false) and    *)
(* audio_output_flush.                                                     *)
Pause ==
  /\ timing.playing /\ rtsp = "idle" /\ requests < MaxRequests
  /\ requests' = requests + 1
  /\ timing' = [timing EXCEPT !.playing = FALSE, !.pending = None]
  /\ flushing' = TRUE
  /\ UNCHANGED <<segment, buffer, lead, dma, reader, rtsp, moved, old>>

(* FLUSHBUFFERED for later: audio_receiver_set_deferred_flush.             *)
DeferFlush ==
  /\ rtsp = "idle" /\ requests < MaxRequests
  /\ requests' = requests + 1
  /\ \E k \in 1 .. SegmentSize - 1 :
       timing' = [timing EXCEPT !.until = TsAdd(segment.start, k)]
  /\ UNCHANGED <<segment, buffer, lead, dma, reader, rtsp, moved, old, flushing>>

-----------------------------------------------------------------------------

Read ==
  \/ FlushOutput \/ NotReady \/ Begin \/ Fetch \/ DeferredFlush \/ SkipIsland \/ Hold
  \/ Store \/ DropLate \/ Play \/ Commit \/ Write
Rtsp ==
  \/ FlushBuffer \/ ResetTiming \/ QuickStart \/ AnchorRtp \/ AnchorTime
  \/ Pause \/ DeferFlush

Next == Tick \/ Arrive \/ ClockMoves \/ Read \/ Rtsp

Spec == Init /\ [][Next]_vars

(* Time passes and both tasks run to the end of what they began.           *)
FairSpec == /\ Spec /\ WF_vars(Tick) /\ WF_vars(Read)
            /\ WF_vars(ResetTiming \/ QuickStart \/ AnchorTime)

-----------------------------------------------------------------------------
(* Properties *)

(* The variables have their types. *)
TypeOK ==
  /\ segment.start \in Starts /\ segment.sent \subseteq 0 .. SegmentSize - 1
  /\ requests \in 0 .. MaxRequests
  /\ buffer \subseteq AllTimestamps
  /\ timing \in [anchorValid : BOOLEAN, anchorRtp : AllTimestamps, pending : MaybeTs,
                 expected : MaybeTs, started : BOOLEAN, quick : BOOLEAN,
                 playing : BOOLEAN, until : MaybeTs, early : 0 .. MaxEarly,
                 ready : 0 .. Unset]
  /\ lead \in -MaxLate .. MaxLead
  /\ dma \in 0 .. DmaSize /\ flushing \in BOOLEAN
  /\ reader.pc \in {"begin", "fetch", "judge", "store", "commit", "write"}
  /\ rtsp \in {"idle", "reset", "quick", "anchor"}
  /\ moved \in BOOLEAN /\ old \in 0 .. 2

(* While neither the schedule moves under the stream nor the DMA ring is   *)
(* emptied under it, no frame is played early by more than the threshold   *)
(* plus what the ring holds: a continuous frame skips the early test, and  *)
(* its being on time rests on the frame before it and on the ring pacing   *)
(* the task.                                                               *)
PlayedOnSchedule ==
  reader.pc = "commit" /\ ~moved => reader.early <= Threshold + reader.dma

(* Of a track that was flushed at most the frame in flight is still played. *)
OneOldFrame == old <= 1

(* A frame of the track held because it is early is played, dropped or     *)
(* discarded in the end, unless the sender pauses: it does not block the   *)
(* stream for ever.                                                        *)
Held == timing.pending # None /\ OfSegment(timing.pending) /\ timing.playing
HeldIsReleased == Held ~> ~Held
=============================================================================
