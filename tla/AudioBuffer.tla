---------------------------- MODULE AudioBuffer ----------------------------
(***************************************************************************)
(* main/audio/audio_buffer.c: the jitter buffer between the tasks that     *)
(* receive audio (Producers), the playback task (Consumer) and the tasks   *)
(* that flush it (Flushers: RTSP, control channel, and the playback task   *)
(* itself for a deferred flush).                                           *)
(*                                                                         *)
(* The index arrays are guarded by a spinlock, so a critical section is    *)
(* one action.  The counting semaphore data_ready is NOT guarded by it:    *)
(* the producer gives after unlocking, the consumer takes before locking,  *)
(* flush drains after unlocking.  Those are separate actions here.         *)
(*                                                                         *)
(* Timestamps are counted in chunks of AAC_FRAMES_PER_PACKET samples.      *)
(***************************************************************************)
EXTENDS RtpTime, FiniteSets, SequencesExt

CONSTANTS
  Slots,          (* the slots of the PSRAM pool                           *)
  NoSlot,         (* "no item taken"                                       *)
  Producers,      (* receive tasks that queue decoded frames               *)
  Consumer,       (* the playback task                                     *)
  Flushers,       (* tasks that call audio_buffer_flush                    *)
  Timestamps,     (* chunk timestamps in circulation                       *)
  MaxChunks,      (* chunks a decoded frame is split into, at most         *)
  HighWater       (* capacity * 9 / 10                                     *)

Capacity == Cardinality(Slots)

Tasks == Producers \cup {Consumer} \cup Flushers

ASSUME BufferAssumption ==
  /\ IsFiniteSet(Slots) /\ NoSlot \notin Slots
  /\ IsFiniteSet(Producers) /\ Consumer \notin Producers
  /\ Producers \cap Flushers = {}
  /\ Cardinality(Producers) < Cardinality(Slots)
  /\ Comparable(Timestamps)
  /\ MaxChunks \in Nat \ {0}
  /\ HighWater \in Nat

(* The tenth of the pool above the mark is more than the chunks of a       *)
(* packet: with 400 slots and 12 chunks, 360 + 12 < 400.                   *)
ASSUME RoomAssumption == HighWater + MaxChunks < Cardinality(Slots)

VARIABLES
  sorted,      (* slot indices in ascending timestamp order                *)
  free,        (* the free stack, as a set: which slot is popped is not    *)
               (* observable                                               *)
  slotTs,      (* rtp_timestamp in each slot's header                      *)
  dataReady,   (* value of the counting semaphore                          *)
  held,        (* slot taken by the consumer and not yet returned          *)
  todo,        (* per producer: its decoded frame [ts, done, of]: first    *)
               (* timestamp, chunks queued, chunks in all                  *)
  pc,          (* where each task is inside this file                      *)
  buffered,    (* the producers that are a buffered (TCP) stream and test  *)
               (* is_nearly_full; a realtime (UDP) stream does not         *)
  overlapped   (* history: some flush ran while a producer or the consumer *)
               (* was between its critical section and the semaphore       *)

vars == <<sorted, free, slotTs, dataReady, held, todo, pc, buffered, overlapped>>

NoFrame == [ts |-> 0, done |-> 0, of |-> 0]

Goto(t, l) == pc' = [pc EXCEPT ![t] = l]

At(l) == {t \in Tasks : pc[t] = l}

(* The timestamps of the n chunks of a frame that starts at ts. *)
ChunkStamps(ts, n) == {TsAdd(ts, k) : k \in 0 .. n - 1}

(* chunk_timestamp of the chunk p is about to queue, and how many are left. *)
ChunkTs(p) == TsAdd(todo[p].ts, todo[p].done)
Left(p) == todo[p].of - todo[p].done

Init ==
  /\ sorted = <<>>
  /\ free = Slots
  /\ slotTs = [s \in Slots |-> 0]
  /\ dataReady = 0
  /\ held = NoSlot
  /\ todo = [p \in Producers |-> NoFrame]
  /\ pc = [t \in Tasks |-> "idle"]
  /\ buffered \in SUBSET Producers
  /\ overlapped = FALSE

-----------------------------------------------------------------------------
(* Producers *)

(* Mutant: compares timestamps as plain integers, ignoring the wrap. *)
InsertPositionsNoWrap(q, ts) ==
  {pos \in 0 .. Len(q) :
     /\ pos > 0 => slotTs[q[pos]] < ts
     /\ pos < Len(q) => slotTs[q[pos + 1]] >= ts}

(* Where sorted_insert_pos may stop: everything just below the position is *)
(* before ts, everything from it on is not.                                *)
InsertPositions(q, ts) ==
  {pos \in 0 .. Len(q) :
     /\ pos > 0 => TsCmp(slotTs[q[pos]], ts) < 0
     /\ pos < Len(q) => TsCmp(slotTs[q[pos + 1]], ts) >= 0}

(* Mutant: goes right of equal timestamps. *)
BinarySearchPastEqual(q, ts) ==
  LET search[r \in [lo : 0 .. Len(q), hi : 0 .. Len(q)]] ==
        LET mid == r.lo + (r.hi - r.lo) \div 2
        IN  IF r.lo >= r.hi THEN r.lo
            ELSE IF TsCmp(slotTs[q[mid + 1]], ts) <= 0
            THEN search[[lo |-> mid + 1, hi |-> r.hi]]
            ELSE search[[lo |-> r.lo, hi |-> mid]]
  IN  search[[lo |-> 0, hi |-> Len(q)]]

(* The loop of sorted_insert_pos. *)
BinarySearch(q, ts) ==
  LET search[r \in [lo : 0 .. Len(q), hi : 0 .. Len(q)]] ==
        LET mid == r.lo + (r.hi - r.lo) \div 2
        IN  IF r.lo >= r.hi THEN r.lo
            ELSE IF TsCmp(slotTs[q[mid + 1]], ts) < 0
            THEN search[[lo |-> mid + 1, hi |-> r.hi]]
            ELSE search[[lo |-> r.lo, hi |-> mid]]
  IN  search[[lo |-> 0, hi |-> Len(q)]]

(* Mutant: leaves room for the chunks, but not for the player's slot. *)
IsNearlyFullForChunks == Len(sorted) > Capacity - MaxChunks

IsNearlyFull == Len(sorted) > HighWater

(* A producer has a decoded frame and enters audio_buffer_queue_decoded.   *)
(* The buffered task tested is_nearly_full before it read the packet.      *)
BeginFrame(p) ==
  /\ pc[p] = "idle"
  /\ p \in buffered => ~IsNearlyFull
  /\ \E ts \in Timestamps, n \in 1 .. MaxChunks :
       /\ ChunkStamps(ts, n) \subseteq Timestamps
       /\ todo' = [todo EXCEPT ![p] = [ts |-> ts, done |-> 0, of |-> n]]
  /\ Goto(p, "insert")
  /\ UNCHANGED <<sorted, free, slotTs, dataReady, held, buffered, overlapped>>

(* The state of the index arrays after the overflow loop of queue_chunk:   *)
(* at capacity the oldest frame is dropped.                                *)
Overflowing == Len(sorted) >= Capacity /\ sorted # <<>>
Kept == IF Overflowing THEN Tail(sorted) ELSE sorted
Pool == IF Overflowing THEN free \cup {Head(sorted)} ELSE free

(* Mutant: the overflow loop forgets the victim's token. *)
InsertChunkKeepToken(p) ==
  /\ pc[p] = "insert"
  /\ \E slot \in Pool, pos \in InsertPositions(Kept, ChunkTs(p)) :
       /\ sorted' = InsertAt(Kept, pos + 1, slot)
       /\ free' = Pool \ {slot}
       /\ slotTs' = [slotTs EXCEPT ![slot] = ChunkTs(p)]
  /\ Goto(p, "give")
  /\ overlapped' = (overlapped \/ At("drain") # {})
  /\ UNCHANGED <<dataReady, held, todo, buffered>>

(* The critical section of audio_buffer_queue_chunk when a slot is found.  *)
InsertChunk(p) ==
  /\ pc[p] = "insert"
  /\ \E slot \in Pool, pos \in InsertPositions(Kept, ChunkTs(p)) :
       /\ sorted' = InsertAt(Kept, pos + 1, slot)
       /\ free' = Pool \ {slot}
       /\ slotTs' = [slotTs EXCEPT ![slot] = ChunkTs(p)]
  /\ dataReady' = IF Overflowing /\ dataReady > 0 THEN dataReady - 1 ELSE dataReady
  /\ Goto(p, "give")
  /\ overlapped' = (overlapped \/ At("drain") # {})
  /\ UNCHANGED <<held, todo, buffered>>

(* The same critical section when no slot is free: the buffer is one short *)
(* of full and the player holds the last slot.  The rest of the frame is   *)
(* abandoned.                                                              *)
DropChunk(p) ==
  /\ pc[p] = "insert"
  /\ Pool = {}
  /\ todo' = [todo EXCEPT ![p] = NoFrame]
  /\ Goto(p, "idle")
  /\ UNCHANGED <<sorted, free, slotTs, dataReady, held, buffered, overlapped>>

(* The loop of audio_buffer_queue_decoded: the next chunk, or back to the  *)
(* receive loop.                                                           *)
NextChunk(p) ==
  IF Left(p) > 1
  THEN todo' = [todo EXCEPT ![p].done = @ + 1] /\ Goto(p, "insert")
  ELSE todo' = [todo EXCEPT ![p] = NoFrame] /\ Goto(p, "idle")

(* Mutant: signals once per decoded frame instead of once per chunk. *)
GiveTokenPerFrame(p) ==
  /\ pc[p] = "give"
  /\ dataReady' = IF dataReady < Capacity /\ Left(p) = 1
                  THEN dataReady + 1 ELSE dataReady
  /\ NextChunk(p)
  /\ UNCHANGED <<sorted, free, slotTs, held, buffered, overlapped>>

(* xSemaphoreGive after the unlock; a give at the maximum count fails and  *)
(* is ignored.                                                             *)
GiveToken(p) ==
  /\ pc[p] = "give"
  /\ dataReady' = IF dataReady < Capacity THEN dataReady + 1 ELSE dataReady
  /\ NextChunk(p)
  /\ UNCHANGED <<sorted, free, slotTs, held, buffered, overlapped>>

-----------------------------------------------------------------------------
(* Consumer *)

(* Mutant: ignores the result of xSemaphoreTake. *)
TakeTokenUnchecked ==
  /\ pc[Consumer] = "idle"
  /\ dataReady' = dataReady - 1
  /\ Goto(Consumer, "take")
  /\ overlapped' = (overlapped \/ At("drain") # {})
  /\ UNCHANGED <<sorted, free, slotTs, held, todo, buffered>>

(* xSemaphoreTake at the head of audio_buffer_take. *)
TakeToken ==
  /\ pc[Consumer] = "idle"
  /\ dataReady > 0
  /\ dataReady' = dataReady - 1
  /\ Goto(Consumer, "take")
  /\ overlapped' = (overlapped \/ At("drain") # {})
  /\ UNCHANGED <<sorted, free, slotTs, held, todo, buffered>>

(* Mutant: takes the newest frame. *)
TakeNewest ==
  /\ pc[Consumer] = "take"
  /\ sorted # <<>>
  /\ held' = Last(sorted)
  /\ sorted' = Front(sorted)
  /\ Goto(Consumer, "hold")
  /\ UNCHANGED <<free, slotTs, dataReady, todo, buffered, overlapped>>

(* The critical section of audio_buffer_take. *)
TakeOldest ==
  /\ pc[Consumer] = "take"
  /\ sorted # <<>>
  /\ held' = Head(sorted)
  /\ sorted' = Tail(sorted)
  /\ Goto(Consumer, "hold")
  /\ UNCHANGED <<free, slotTs, dataReady, todo, buffered, overlapped>>

(* The guard that "shouldn't happen if semaphore is in sync". *)
TakeNothing ==
  /\ pc[Consumer] = "take"
  /\ sorted = <<>>
  /\ Goto(Consumer, "idle")
  /\ UNCHANGED <<sorted, free, slotTs, dataReady, held, todo, buffered, overlapped>>

(* audio_buffer_return *)
ReturnSlot ==
  /\ pc[Consumer] = "hold"
  /\ free' = free \cup {held}
  /\ held' = NoSlot
  /\ Goto(Consumer, "idle")
  /\ UNCHANGED <<sorted, slotTs, dataReady, todo, buffered, overlapped>>

-----------------------------------------------------------------------------
(* Flushers *)

(* Mutant: also frees the frame the player is reading. *)
FlushSlotsAll(f) ==
  /\ pc[f] = "idle"
  /\ free' = Slots
  /\ sorted' = <<>>
  /\ Goto(f, "drain")
  /\ overlapped' = (overlapped \/ At("give") \cup At("take") # {})
  /\ UNCHANGED <<slotTs, dataReady, held, todo, buffered>>

(* The critical section of audio_buffer_flush. *)
FlushSlots(f) ==
  /\ pc[f] = "idle"
  /\ free' = free \cup ToSet(sorted)
  /\ sorted' = <<>>
  /\ Goto(f, "drain")
  /\ overlapped' = (overlapped \/ At("give") \cup At("take") # {})
  /\ UNCHANGED <<slotTs, dataReady, held, todo, buffered>>

(* One turn of the drain loop, which runs outside the lock. *)
DrainToken(f) ==
  /\ pc[f] = "drain"
  /\ dataReady > 0
  /\ dataReady' = dataReady - 1
  /\ UNCHANGED <<sorted, free, slotTs, held, todo, pc, buffered, overlapped>>

DrainDone(f) ==
  /\ pc[f] = "drain"
  /\ dataReady = 0
  /\ Goto(f, "idle")
  /\ UNCHANGED <<sorted, free, slotTs, dataReady, held, todo, buffered, overlapped>>

-----------------------------------------------------------------------------

Produce(p) == BeginFrame(p) \/ InsertChunk(p) \/ DropChunk(p) \/ GiveToken(p)
Consume == TakeToken \/ TakeOldest \/ TakeNothing \/ ReturnSlot
Flush(f) == FlushSlots(f) \/ DrainToken(f) \/ DrainDone(f)

Next ==
  \/ \E p \in Producers : Produce(p)
  \/ Consume
  \/ \E f \in Flushers : Flush(f)

Spec == Init /\ [][Next]_vars

(* A task inside this file keeps running, and the playback task polls the  *)
(* buffer on every output period.                                          *)
Fairness ==
  /\ WF_vars(Consume)
  /\ \A p \in Producers : WF_vars(InsertChunk(p) \/ DropChunk(p) \/ GiveToken(p))
  /\ \A f \in Flushers : WF_vars(DrainToken(f) \/ DrainDone(f))

FairSpec == Spec /\ Fairness

-----------------------------------------------------------------------------
(* Properties *)

(* The variables have their types. *)
TypeOK ==
  /\ sorted \in Seq(Slots)
  /\ free \in SUBSET Slots
  /\ slotTs \in [Slots -> AllTimestamps]
  /\ dataReady \in 0 .. Capacity
  /\ held \in Slots \cup {NoSlot}
  /\ todo \in [Producers -> [ts : AllTimestamps, done : 0 .. MaxChunks, of : 0 .. MaxChunks]]
  /\ pc \in [Tasks -> {"idle", "insert", "give", "take", "hold", "drain"}]
  /\ buffered \in SUBSET Producers
  /\ overlapped \in BOOLEAN

(* Every slot of the pool is in exactly one place: in sorted[] (once), on  *)
(* the free stack, or with the player.  So no slot leaks, none is pushed   *)
(* twice, and a flush or an overflow never frees the frame being read.     *)
SlotsPartitioned ==
  /\ IsInjective(sorted)
  /\ ToSet(sorted) \cap free = {}
  /\ held \notin ToSet(sorted) \cup free
  /\ Slots = ToSet(sorted) \cup free \cup ({held} \ {NoSlot})

(* sorted[] is in timestamp order, across the 32-bit wrap. *)
PlayOrder ==
  \A i, j \in 1 .. Len(sorted) :
    i < j => TsCmp(slotTs[sorted[i]], slotTs[sorted[j]]) <= 0

(* The binary search stops at the one position that keeps sorted[] sorted. *)
SearchFindsPosition ==
  \A ts \in Timestamps : InsertPositions(sorted, ts) = {BinarySearch(sorted, ts)}

(* As long as no flush overlapped a producer or the player, and none is    *)
(* draining, the semaphore counts the queued frames: each one has its      *)
(* token, its producer is about to give it, or the player has taken it.    *)
SemaphoreBalanced ==
  ~overlapped /\ At("drain") = {} =>
    dataReady + Cardinality(At("give")) + Cardinality(At("take")) = Len(sorted)

(* With one buffered stream as the only producer, testing is_nearly_full   *)
(* before a packet leaves a free slot for every chunk of it, also while    *)
(* the player holds one: the overflow loop drops nothing and no chunk is   *)
(* refused.                                                                *)
BackpressureSuffices ==
  buffered = Producers /\ Cardinality(Producers) = 1 =>
    \A p \in Producers : pc[p] = "insert" => Left(p) <= Cardinality(free)

(* The buffer implements FrameQueue. *)
FrameIn(s) == [slot |-> s, ts |-> slotTs[s]]

Abstract == INSTANCE FrameQueue WITH
  queue <- {FrameIn(s) : s \in ToSet(sorted)},
  playing <- IF held = NoSlot THEN {} ELSE {FrameIn(held)}

ImplementsFrameQueue == Abstract!Spec

(* A queued frame does not wait for ever: if no flush ever overlaps,       *)
(* whenever frames are queued the player gets one or they are flushed.     *)
QueuedAudioIsPlayed ==
  []~overlapped => (sorted # <<>> ~> held # NoSlot \/ sorted = <<>>)
=============================================================================
