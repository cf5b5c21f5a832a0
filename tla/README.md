# A TLA+ verification project for airplay-moon-speaker

The firmware in `src/` turns an ESP32 into an AirPlay 1 and AirPlay 2 speaker with
an LED ring. Its tasks share a handful of singletons, mostly without locks: one
jitter buffer, one set of timing fields, one receiver, one PTP clock, one event
port task, one Bluetooth radio, one remote-control session. This project models that concurrent core,
checks it with TLC and proves its main invariants with TLAPS.

Contents: [system](#1-the-system) · [modules and code](#2-modules-and-the-code-they-model) ·
[runs](#3-runs) · [where code and comments disagree](#4-where-the-code-and-its-comments-disagree) ·
[proofs](#5-proofs) · [not modelled](#6-not-modelled) · [plan](#7-plan) · [how to run](#8-how-to-run)

## 1. The system

### 1.1 The audio path and who touches it

```
 sender ──TCP control──▶ server_task ─accept─▶ client_task (slot 0 / slot 1)   RTSP requests
   │                                               │ SETUP RECORD FLUSH PAUSE SETRATEANCHORTIME TEARDOWN
   │                                               ▼
   │                         audio_receiver: gates, anchor, start/stop ── audio_timing: anchor, playing
   │                                               │ flush                        │ (plain fields)
   ├──TCP audio──▶ buffered stream task ─┐         ▼                              │
   └──UDP audio──▶ realtime stream task ─┴─▶ AudioBuffer ◀── take / return ── playback task ──▶ I2S DMA
                   control-port task (sync packets: anchor; resent packets)
```

| Part | State it keeps | Operations | Talks to |
|---|---|---|---|
| Jitter buffer (`audio_buffer.c`) | sorted index array, free stack, pool, counting semaphore | queue a decoded frame in chunks, take, return, flush, nearly-full test | called by the stream tasks, the playback task and every task that flushes |
| Receiver (`audio_receiver.c`, `audio_stream.c`) | four gate words, anchor, playing flag, the two streams | flush, seek flush, set anchor, pause, start, stop; per packet: gate checks | RTSP task writes the gates, stream tasks read and disarm them |
| Timing (`audio_timing.c`) and I2S output (`audio_output.c`) | `audio_timing_t`: anchor, held frame, expected timestamp, started/playing flags, deferred flush; DMA ring | read one frame: hold, drop, play or silence; reset; set anchor | the playback task runs it, the RTSP and control tasks change the fields under it |
| RTSP server (`rtsp_server.c`, `rtsp_conn.c`) | two client slots with `should_stop`, `is_old`; current slot; the accept loop | accept, take over, refuse; a client task with clean-up and grace period | starts and stops receiver, NTP, PTP, DACP session, event port |
| RTSP handlers (`rtsp_handlers.c`) | per-connection state; the event port task | ANNOUNCE, SETUP, RECORD, SETRATEANCHORTIME, FLUSH*, PAUSE, TEARDOWN, the rest | all of the above, RTSP events |
| Realtime stream (`audio_stream_realtime.c`) | window of 64 missing packets, sequence numbers | receive, request resends, sync packets | buffer, anchor |
| Stream start and stop (`audio_receiver.c`, `audio_stream_*.c`) | `running` flag, task handles and sockets of each stream; the one decoder; the packet buffer | start, stop, set type, set format; create the tasks, wait for them | RTSP tasks call it, stream tasks poll the flag and clear their handle |
| PTP clock (`ptp_clock.c`) | named master, last SYNC, filtered offset, sample count, lock | SYNC, FOLLOW_UP, smoothing, lock and expiry; name a master, clear, resume | its task writes, RTSP tasks reset, timing reads the offset and the lock |
| Bluetooth (`a2dp_sink.c`, `bt_coex.c`) | connected, suspended, discoverable flags; queues of the application and the coexistence task; state of the latter | connection events; suspend and resume of the radio; retry and delayed resume | callbacks into `main.c`, events of AirPlay clients |
| Start-up (`main.c`) | `s_airplay_started`, whether the network was up | start and stop the AirPlay services, poll the network | RTSP server, playback task, Bluetooth |
| DACP client (`dacp_client.c`) | session, port, command queue, worker | set/clear session, discover, send a command, probe | RTSP tasks, grace period; its commands have no caller |
| NTP clock, playback control, RTSP events | offsets; a listener table | time exchange; emit | LEDs, display, amplifier, settings |
| Everything else | see [section 6](#6-not-modelled) | | |

`PROJECT.json` lists all 29 components with their files.

### 1.2 What is hard about it

* **Critical sections that end too early.** The buffer's index arrays sit behind a
  spinlock, its semaphore does not: tokens are given, taken and drained outside.
* **No critical sections at all.** Gates and timing fields are plain words, tested,
  disarmed and armed by two tasks; only the order of the writes protects them.
* **Data in flight.** A packet passes its gates, is decrypted and decoded, and only
  then queued; a frame is taken from the buffer, judged, and only then stored or
  played. A seek, pause or flush may come in between.
* **Take-over.** A new sender replaces the old one while the old one's task is in a
  request, in its clean-up or in a grace period of unbounded length; both tasks start
  and stop the same singletons.
* **Waits that give up.** Whoever stops a stream polls for its task for a second and then
  goes on; whoever is still inside a receive or the decoder is then on its own.
* **State in two places.** The coexistence task, the application task, the radio and the
  services each have an opinion of who plays, and learn of changes by messages that cross,
  get dropped or come twice.
* **Wrap-around.** RTP timestamps are 32-bit sample counters that start anywhere.
* **Guesses from time.** Whether an anchor is a seek or a resume is derived from
  wall-clock time since the last one.

`PROJECT.json` has the hazards at their lines, each with the properties that would
catch it, or with the reason why none does yet.

### 1.3 What makes each part correct

* Buffer: every slot of the pool is in one place; frames leave in timestamp order
  across the wrap; the semaphore does not lose a queued frame; a test of the fill
  level before a packet is enough for all chunks of it, the slot in the player's hands included.
* Receiver: after a track change at most the one frame in flight is of the old track,
  whatever the interleaving; the gates never lock out the track they were closed for.
* Playout: nothing is played earlier than the threshold allows unless the schedule
  moved or what was written ahead was thrown away; at most the frame in flight survives a flush; a held frame never blocks the
  stream for ever.
* Server: two senders never both hold a session; nothing outlives the session it was
  started for; a client that is told to stop ends.
* Resend window: it holds what is missing and nothing else, no packet is decoded twice,
  and every hole is filled or given up.
* Streams: no second task of a kind, nothing freed under a task that nobody gave up on, a
  granted start receives, every request is answered and stopped tasks end.
* PTP clock: offset and lock are of the master that was named; jitter does not cost the
  lock; a clock whose samples are near its estimate locks.
* Bluetooth: the coexistence task knows the radio; the radio comes back when AirPlay is
  gone and stays off while AirPlay plays; AirPlay comes back when the phone has gone.

## 2. Modules and the code they model

| Module | Models | Lines of code it stands for |
|---|---|---|
| `RtpTime` | timestamps modulo `TsMod` and `ts_cmp` | `audio_buffer.c:24-27` |
| `FrameQueue` | what the buffer promises (abstract) | — |
| `AudioBuffer` | all of `audio_buffer.c`, with the tasks that call it | `audio_buffer.c`, the back-pressure test of `audio_stream_buffered.c` |
| `Receiver` | seeks, pauses and anchors against the gates | `audio_receiver.c`, `audio_stream.c`, `audio_stream_buffered.c`, FLUSHBUFFERED and SETRATEANCHORTIME of `rtsp_handlers.c` |
| `Playout` | `audio_timing_read` against flush, pause and anchor | `audio_timing.c`, the loop of `audio_output.c` |
| `ResendWindow` | missing packets of a realtime stream, requests and answers, against a reset | `audio_stream_realtime.c`, `audio_receiver_reset_resend_state` |
| `RtspServer` | accept loop, client tasks, shared services | `rtsp_server.c`, `rtsp_conn.c`, the handlers that start and stop services |
| `StreamControl` | starting, stopping and reconfiguring the two streams against their tasks | `audio_receiver.c`, `audio_stream_realtime.c`, `audio_stream_buffered.c`, the handlers that call them |
| `PtpClock` | the PTP listener against resets by the RTSP task | `ptp_clock.c` |
| `BtCoex` | Bluetooth beside AirPlay: radio, connection, services, network | `bt_coex.c`, the control part of `a2dp_sink.c`, the callbacks and the monitor of `main.c` |
| `AudioBufferProofs`, `ReceiverProofs`, `PlayoutProofs`, `ResendWindowProofs`, `RtspServerProofs`, `StreamControlProofs`, `PtpClockProofs`, `BtCoexProofs` | theorems | — |
| `MC*` | instances for TLC | — |

Each definition's lines are in the `map` of `PROJECT.json`. Definitions whose name ends
like another one with a suffix, under a comment "Mutant:", are variations of the
code that each property must detect.

### AudioBuffer

One action per critical section, one per semaphore operation. `InsertChunk` is
`audio_buffer_queue_chunk` from lock to unlock: eviction at capacity (with the
non-blocking take of a token), the free-stack pop, the header and the binary-searched
insert; `GiveToken` follows outside the lock. `DropChunk` is the branch where no slot is
free; the rest of the frame is then dropped too. `TakeToken`, `TakeOldest`,
`TakeNothing`, `ReturnSlot` are the playback task; `FlushSlots`, `DrainToken`,
`DrainDone` a flush by any task, the playback task itself included (a deferred flush).
The free stack is a set: which slot it pops cannot be observed. The payload is not
modelled. `BeginFrame` is the stream task deciding to decode a packet into 1 to
`MaxChunks` chunks; a buffered stream tests `audio_buffer_is_nearly_full` first.

Constant assumptions (`BufferAssumption`): the timestamps in circulation are pairwise
within half the range, as the code's signed comparison requires; fewer receive tasks
than slots. `RoomAssumption`, which only `BackpressureSuffices` needs: `HighWater + MaxChunks < Capacity`, strictly,
because the player may hold one more slot. It holds for the default
of 400 slots (360 + 12; a frame of at most 4096 samples is 12 chunks of 352) and for every option from 121 up. From 100,
the smallest capacity the build allows, to 120 (108 + 12) it does not: there the overflow loop takes over, or a chunk is
refused while the player holds the last slot.

### Receiver

Time and timestamps are in units of the 5 s threshold: only "within", "beyond the
threshold" and "beyond the 10 s window" matter. The sender is external: it streams
frames in order over TCP, seeks with or without FLUSHBUFFERED, pauses and resumes from
where playback stopped. The stream task's steps are one access each: test of the lower
gate, its disarming, test of the upper gate, its disarming, the re-check after decoding, the
insert. So are the RTSP task's: the anchor's seek test, the arming of the two gates, the
opening of the blanket gate, the look at the oldest frame, the flush, the anchor itself.
Words written back to back which the other task cannot tell apart are written in one
step. The two reads of the re-check are taken together. `Settled` is used
by a `Patient` sender only: it seeks again when the gates of its last seek have disarmed.
Constant assumption (`SeekAssumption`): two tracks are further apart than the read-ahead, the gate window,
the seek threshold and the playing time between two anchors together (`Apart`), in one
of the two directions of the signed comparison; the code's comments rest on the same ("a huge delta (many minutes)").
The ring is a set of frames; its own interleavings are `AudioBuffer`'s.

### Playout

Time is in ticks of which a frame lasts `Period`; `lead` is the number of ticks until the
anchor's frame is due, so the whole of `compute_early_us` is `lead` plus the distance of a
timestamp from the anchor. Steps of `audio_timing_read`: the early returns, the fetch of
the held frame or the buffer, the deferred flush, the island skip, the judgement, the
store of a held frame, the drop, the play, and last the write into the DMA ring, which
blocks when the ring is full and so paces the task. The pass itself takes no time;
whatever delays the task delays its start. The clock is a shift of `lead` in either
direction. `FlushOutput` empties the DMA ring, and sets `moved` if a stream is running: what was
written ahead is lost, and what follows it comes that much earlier.
Constant assumption (`ScheduleAssumption`): the tracks of a session lie within a quarter of the timestamp range,
and further apart than playback can be late, so that two of them are never mistaken for one; a track does not
outlast what playback can be late by; half a frame, the tolerance of "continuous", is within the threshold.
Early frames can always be copied to the pending frame, which is large enough for any: that its memory could not be had at
start-up is not modelled (`audio_timing.c:704-710` would then keep the slot of every early frame).
Not modelled: the drift servo (a sample in four frames), output latency
(a constant), the position-estimation log. `RT` and buffered thresholds are one constant.
Anchors are near the position playback expects: a far one is a seek, and `Receiver`'s.

### ResendWindow

The receive task handles a packet in three steps: `Load` takes it from the data port and
loads the window; one of `AcceptFirst`, `AcceptInOrder`, `AcceptAfterGap`, `AcceptMissing`
and `DropStale` stores what `track_regular_rtp_sequence` or `resend_mark_received` computed
from the loaded words, and sends the request for a new gap; `RetryIfDue` follows an accepted
packet, and also stands for a time-out of `recvfrom`. Between `Load` and the store the RTSP task may run any of
the four steps of `audio_receiver_reset_resend_state`. `Forward` is the control task, which
sends an answer on to the data port. The mask is the set of its bit positions; the two
timers are "never", "recent" or "due", and a failed `sendto` starts the back-off. The network keeps packets as
a set, so it reorders them; the sender is external and answers for every packet it sent.
Parsing, decryption and the sync packets of the control port are not part of it.

### RtspServer

Three groups of actions. The accept loop: `Accept`, `Refuse` (the needed slot is still in
use after the wait), `MarkOld` and `SignalOld` (two writes), `Start`, `StartFails`. A client
task: `Create`, one request at a time (`Dispatch`, then the handler's steps on the
shared services), and the clean-up in the order of the code down to the freed slot, with
the grace period for a client that has a remote. The event port task: listen, end. The services
are represented by the client they run for (`shared.audio`, `.ntp`, `.dacp`), PTP by
whether it runs. Timed waits (for a slot, for the event task) may end either way. The
grace period may last for ever: the phone decides. Simplifications, named: a slot is freed
in one step; TEARDOWN stops its services in one step; the comparison of event sockets in
the clean-up is one step; the resume request of a button is part of the probe; opening
the event socket is taken to succeed. The test of `should_stop` (`GiveGrace`) and the PAUSED event that follows from it
(`EmitPaused`) are two steps, since a takeover may come between them.

### StreamControl

A request of a client is the list of calls its handler makes (`Programs`), each call a few
steps; two RTSP tasks may be inside them, because one client takes over from the other.
A stream task is at accept, in its receive or in the decoder, and looks at `running` before
each receive and accept, as the code does; its last act clears its handle, whichever task that now
names. `Wait` ends when the handles are clear or after a second without that: both are
possible at any time, and what happens then is the point of the module. Every socket and
every task may fail to be created. The heap is a set of places, so that a freed decoder is seen
as freed. Sockets, formats and keys are left out. Named simplification: a stop closes its
sockets and clears `running` in one step, since a task sees either only as a reason to look at `running`. Another: a start tests
`running` and the handle, binds its sockets and sets `running` in one step (`Begin`, `Ending`), and clearing the old handle goes with the
creation of the task (`Create`). Between these no stream task reads or writes any of them, unless calls overlap; for those the properties
say little anyway (`overlap`).

### PtpClock

Offsets are integers in a unit of which the thresholds are a few. The network is any
message of any master at any time, which loses, repeats and reorders; a SYNC is late by one of
`Delays`. `update_offset` is split at each word that a reset may clear under it (`Count`, `Keep` or `Outlier`,
`SmoothSample`, `Store`, `Publish`, `KeepLock` or `LockCandidate` or `Lock`, `Declare`); so are `ptp_clock_set_master_clock_id`,
`ptp_clock_clear` and `ptp_clock_notify_resume`, which take no lock. A FOLLOW_UP that is paired with a SYNC of another
clock by its number alone gives a sample of nobody. Times are ages that stop at the value
they are compared with; no time passes inside a message or a reset, which are far shorter
than any of them. `ptp_clock_is_locked` may drop a lock that is not old: it reads the tick before it reads `last_sync_ms` again, and a sample
stored in between makes the unsigned age wrap (`AgeWraps`). Not modelled: the sockets, the counters, and start and stop of the task, which `RtspServer` has.

### BtCoex

Four kinds of tasks. `AppStep`: the application task, which takes connection events and
the operations the coexistence task asks for from one queue, stops and starts AirPlay for a phone,
and takes the stack down and up (`Suspend`, `Deinit`, `Disable`, `Resume`, `Register`), each change of
which may fail and be rolled back, or the rollback may fail too (`radio = "dead"`). `CoexStep`: the task of `bt_coex.c`, which
blocks while its operation is under way. `RtspStep(c)`: the task of an AirPlay client telling of an
event in three steps (is a phone connected; discoverable; post to the queue, or drop). `MonitorStep`: the network
monitor. The phone, the clients and the network are external. Simplifications, named: the wish
of `set_discoverable` and the scan mode that follows from it are one step; the end of a
session that a stopped server causes is told by the client's own task; the queue of the application task, 10 long, is never full: the
phone has one link and the coexistence task waits for each of its messages. Audio data, AVRCP and volume are not
part of it, so of the events the Bluetooth side emits only DISCONNECTED is there; its PLAYING and PAUSED (`a2dp_sink.c:350-354`,
`498-534`) are not.

## 3. Runs

| Run | Question | Bounds | States |
|---|---|---|---|
| `audio_buffer` | Do the buffer's invariants hold in every interleaving of one producer, the player and two flushers; is it a `FrameQueue`; is queued audio played? | 3 slots, frames of 1–2 chunks, timestamps 7, 0, 1 of 8 (across the wrap), high water 0 | 142,057 |
| `receiver` | Does a track change leave at most the frame in flight; is every track heard? | 6-bit time, tracks at 62 and 12, two seeks, one pause, ring 3, connection 2 | 297,044 |
| `receiver_resume` | Is a resume after a long pause left alone? (violation) | no seek, one pause | — |
| `playout` | Is audio on schedule, at most one old frame played, a held frame released? | 6-bit time, tracks at 62 and 8 of 3 frames, leads 1 and 3, period 2, DMA 2, threshold 2, two requests or clock steps of ±3 | 1,383,106 |
| `resend_window` | Is the window exactly what is missing; is a packet decoded once; are holes filled? | 4-bit numbers from 13, window of 3, six packets, two in flight, two losses, copies or refused requests, or one reset | 253,449 |
| `rtsp` | One session at a time; nothing left behind; a stopped client ends? | three connections: a phone with a remote (AirPlay 1) and two AirPlay 2 senders, any requests in any order | 709,692 |
| `rtsp_ptp` | Has an AirPlay 2 session its PTP clock? (violation) | same | — |
| `streams` | Is a stream's task single, its memory kept, a granted start receiving, every request answered? | two clients, three requests one after the other or two that overlap, every creation and wait failing or not | 100,933 |
| `ptp_clock` | Are offset and lock of the master that was named; does a sane clock lock? | two masters 12 apart, delays 0 and 3, thresholds 4, two requests or one and a step of a clock | 1,018,187 |
| `ptp_converge` | Do exact samples lead to a lock after one late one? (violation) | one master, delays 0, 3 and 6 | — |
| `bt_coex` | Does the coexistence task know the radio; does radio, discoverability and AirPlay come back? | two clients and four of their events, one connection of a phone, one failure of the radio or one outage, queue of 3 | 329,141 |
| `bt_exclusive` | Is AirPlay off while a phone is connected? (violation) | no failure, one outage | — |

**Why the bounds are enough.** *Buffer*: three slots are the fewest at which an
insert can be first, middle and last, with one slot held by the player and the buffer
both full and out of slots; two chunks make a frame that is half queued; a flusher that
is also the consumer and one that is not are the two kinds there are; the stamps
cross the wrap; three slots less two chunks and the player's slot leave a high-water mark of 0, so a buffered
stream queues into an empty buffer and only a realtime one overflows it. The invariants are proved for every bound. *Receiver*: two seeks are
needed for a gate to be armed anew while it is being disarmed; tracks on both sides of the
wrap and more than the window apart put each track outside the other's window, in
both directions; a ring of three is the smallest in which a new frame can hide two stale ones, and three frames
per segment with a connection of two stop the stream by back-pressure. *Playout*: three frames per track allow
a frame before, at and after a gap; the leads lie on both sides of the threshold, so that
playback starts at once or with a held frame; a clock step larger than the threshold makes
frames early and late; two requests are a flush and the anchor after it; `MaxEarly` 2 lets the
stuck-anchor counter count (the firmware's 100 is not reached by a run, only the code path
is). *Resend window*: six packets are the fewest with a gap that fits the window beside another
hole, one that does not, and one wider than the window, and they cross the wrap; the second
trouble loses the request or the answer for a packet the first one lost. A behaviour of the run
has a reset or network troubles, not both (`ResetCost` is `MaxTroubles`; the theorems have any mixture); after a reset that met the receive task, about which the properties say
nothing, `Bounded` follows it to the third packet only. Since `HolesAreFilled` allows such a behaviour
anything, the cut does not weaken it. *Server*: two slots need three connections for a slot to be used again; each kind
of session takes over from each kind. *Streams*: the third request is the first to find what a wait of the
second gave up on; two overlapping requests are every pair of calls, and of those only three things are claimed: that the tasks end, that
the requests are answered, and, once they are, that a buffered stream marked as running has its task (`StartedReceives`).
*PTP*: the masters are further apart than the outlier threshold, so an offset of the wrong one shows; delays are within it and at
its edge; after a reset that met the task nothing is claimed and `Bounded` stops there. *Bluetooth*: four events are a session of one client and the start of
another, one connection is enough for it to cross a suspension, and a queue of three fills. `Bounded`
takes the outage or the failure, and the fourth event without either: their product only multiplies
states in which nothing of the one concerns the other.

**Fairness.** Only tasks are fair, never the user or the network. `AudioBuffer`: a task
inside the file goes on, and the playback task polls every output period
(`audio_output.c` loops without end). `Receiver`: both tasks run, time passes and the
sender of a playing stream sends; it need not seek, pause or resume. `Playout`: time passes,
the playback task runs, and an RTSP request that has begun goes on. `ResendWindow`: both
tasks run, the timers expire, the sender answers and what is not lost arrives. `RtspServer`: only the
client tasks run what needs no peer; nobody has to connect, send or leave, the phone
may advertise itself for ever, and the accept loop need not run. `StreamControl`: both RTSP tasks go
on, for every wait has a timeout, and so do the stream tasks; packets need not come. `PtpClock`: the PTP task handles what it has, a
request goes on, playback asks for the lock; that time passes is strong fairness, because a tick is possible only between two
messages, and there is time between any two. Nothing is assumed of the masters: `Converges` speaks of behaviours
in which samples keep coming. `BtCoex`: the four kinds of tasks run; nothing is assumed of phone, clients, network and radio.
Weak fairness is enough in all others: no step waits for a lock that others keep taking.

**Deadlock** is checked for `AudioBuffer` and `ResendWindow`. The others may stop: the sender has sent its
tracks, all connections or requests are over, or a failed assertion has stopped the program (`aborted` in `BtCoex`).

**Histories.** Some variables exist for properties only: `overlapped` (a flush ran
while a producer or the player was between lock and semaphore; in `ResendWindow`, a reset met the receive
task between its load and its store), `accepted`, `heard`, `old`, `moved` (a
clock step, a flush inside a read, an anchor that shifts a running stream, or a DMA ring emptied under it), and `masked` in `Receiver` (when an anchor last looked
at the oldest frame, a frame of its own segment lay before those of an older one). `failed` in `RtspServer` remembers that a client task could not be created: the code
then skips the DISCONNECTED event, and `NothingOutlivesSession` says so. `late` remembers that the pause shown last at the end of a connection
came when its client had already been told to stop. `overlap` (two RTSP tasks inside the
calls of `StreamControl`), `excused` (tasks a wait gave up on, or that ran when the format was set) and `started`; `crossed` (a
reset met the PTP task inside a message) and `source`; `dropped`, `missed` and `aborted` in `BtCoex` name the cases, each of them
possible in the code, in which its liveness properties claim nothing.

## 4. Where the code and its comments disagree

Four violation runs quote a comment of the source and show a trace that contradicts it;
the details are under `findings` in `PROJECT.json`.

1. `receiver_resume` — the snapshot that should keep a long pause from looking like a seek is
   not taken on the paths by which senders pause.
2. `rtsp_ptp` — after AirPlay 2 takes over from AirPlay 1 nobody restarts PTP.
3. `ptp_converge` — the first sample is accepted unconditionally; if it was late, every exact
   sample is an outlier, and outliers neither move the estimate nor let it expire.
4. `bt_exclusive` — the network monitor starts AirPlay while a phone is connected.

What else modelling showed, without a run of its own:

* Buffer: the semaphore is not always in sync. A flush between an insert and its give,
  or between its own unlock and its drain, leaves a token too many or too few; the cost is
  a false underrun, or a frame that waits one take longer (`QueuedAudioIsPlayed`).
* Receiver: with two seeks in a row, "stale frames drain first" is not guaranteed: a late
  disarming opens the gate of the second seek. Hence the `Patient` sender. Nor is it after one seek backwards:
  a frame of the new track that was sent ahead of its anchor has an earlier timestamp than the stale frames queued between the
  flush and the arming of the gates, so the check of the oldest frame (`audio_receiver.c:323-331`) sees the new one
  and leaves two or more stale ones behind it. A ring of two cannot show this; the
  proof asked for it. `AtMostOneStale` names the case (`masked`).
* Playout: a new anchor does not re-align a running stream, since a continuous frame
  bypasses the gate (the exception `moved`). The same bypass follows a flush that
  `audio_output.c:137-142` serves after the first frame of a track was read and written: the ring is emptied with that frame in it,
  and the next one, being continuous, is played up to a frame earlier than the threshold allows. The proof of `PlayedOnSchedule`
  stopped at this step; the run had not met it because its only lead was above the threshold. A flush during a read can leave one
  frame of the flushed track held (`OneOldFrame` bounds it to one).
* Server: a replaced client's clean-up stops its successor's audio. And a client with a remote that is replaced between its
  test of `should_stop` and its PAUSED event (`rtsp_server.c:283-285`) shows the pause although its successor may be gone
  already, DISCONNECTED included; it then leaves its grace period as a replaced client, without DISCONNECTED. The last thing shown
  is a pause of nobody. `NothingOutlivesSession` names the case (`late`) and shows that it is the only one.
* PTP: the comment at `ptp_clock.c:43-46` gives 75 ms for the outlier threshold, the code
  (line 52) 50 ms. The smoothing keeps a sample at the edge from counting against the lock
  nevertheless (`KeptSampleIsStable`), so the branch of `update_offset` that reports "LOST LOCK" is not reached, resets that cross the task aside (`JitterKeepsLock`).
* Streams: `audio_receiver_set_format` frees the decoder under a running task (`excused`).
* Bluetooth: two starters of the services race and the second one's `ESP_ERROR_CHECK` stops the
  program (`aborted`); an outage shorter than the monitor's two seconds in which the
  phone leaves keeps AirPlay off (`missed`); an event dropped at a full queue keeps the radio off (`dropped`); DISCONNECTED of
  a replaced client after PLAYING of its successor resumes the radio under the stream
  (`NoCrossing`); a phone that connects while a suspension is queued is disconnected by it, and its late CONNECTED still ends AirPlay. The
  second look at `s_connected` inside a suspension (`a2dp_sink.c:904-914`) can never find it set,
  because the task that suspends is the one that sets it.

## 5. Proofs

TLAPS checks every theorem for all values of the constants that satisfy the named
assumptions.

**`AudioBufferProofs`** (from `BufferAssumption`, `RoomAssumption` and `TsModAssumption` of `RtpTime`). The invariants
`SlotsPartitioned` and `PlayOrder` are not inductive as they stand: an insert is only
known to be comparable with what is queued if all queued stamps are in circulation, and
a slot is only returned once because only a consumer that holds one is at "hold". Hence

    IInv == TypeOK /\ TaskInv /\ QueueInv /\ SlotsPartitioned /\ PlayOrder

`TaskInv` says at which places each kind of task can be and that the chunks it has left are in
circulation, `QueueInv` that queued stamps are in circulation and fit the pool. The lemmas
about `InsertAt` and `Tail` carry the sequence reasoning, `KeptProperties` and
`InsertKeepsQueue` the eviction and the insert; then one lemma per action.
`SyncInv` adds to `IInv` the balance of tokens, tasks in between and queued frames,
with `LabelStep` counting the tasks at a label before and after a step. `RoomInv` adds that with a single
buffered producer the chunks still to come and one slot more, the player's, fit beside what is queued; `FreeSlots` counts by `SlotsPartitioned`
that the free slots are the others. Only this theorem needs `RoomAssumption`.

`SearchIsCorrect` says that the binary search of the insert finds, for any queue in order, the position the
specification gives. It is a recursive function, so two things have to be shown. That its equation has a solution at all
(`SearchExists`): the least end of the queue past the timestamp, restricted to the range asked for, is one. And that every
solution is this one (`SearchFindsEnd`): of the ranges on which a solution is wrong one is shortest (`HasLeast`), and the
range it is halved to (`Halves`, `HalfEnds`) is shorter and wrong too.

For `Implements`, that the buffer is a `FrameQueue`, the abstract queue is
the set of frames `[slot, ts]` in the index array, so `QueueLength` shows by a bijection that it has as many
elements as the array has entries, `HeadIsOldest` that `PlayOrder` makes the first entry an oldest frame, and
`InsertIsPut` that eviction and insert together are one `Put`. Semaphore steps stutter.

| Theorem | States |
|---|---|
| `TypeCorrect`, `Partitioned`, `Ordered` | the type invariant, `SlotsPartitioned`, `PlayOrder` |
| `SemaphoreTracksQueue` | `SemaphoreBalanced`, overflow included |
| `RoomForWholePacket` | `BackpressureSuffices`: a free slot for every chunk, whatever the player holds |
| `SearchIsCorrect` | `SearchFindsPosition` |
| `Implements` | `ImplementsFrameQueue`: the refinement |

**`ReceiverProofs`** (from `ReceiverAssumption` and `SeekAssumption`: any width of the timestamp, any tracks that far apart, any ring,
connection, window and thresholds, any number of seeks and pauses). `StaleFrames` is `Patient => (Spec => []AtMostOneStale)`: the
sender is patient, which is a constant of the module.

    IInv    == TypeOK /\ SeekInv
    SeekInv == \E p \in Starts : (Seeking \/ Steady) /\ FramesInv(p) /\ PositionInv(p) /\ GatesInv(p) /\ RingInv(p)

`p` is the start of the track before the sender's: with a patient sender nothing of an older one is in flight any more.
`Seeking` and `Steady` are the two phases of a track change, told by which requests are under way and how
far the RTSP task is. `FramesInv`: what is in the connection and in the stream task's hands is of the two tracks, the old
one first. `PositionInv`: the anchor lies in its track, no further than pauses and playing time allow, which is what makes the
seek test of the anchor come out right. `GatesInv`: an armed gate is of the sender's track, and while old frames
are still to come, the gate on their side of it is on; which side that is, the direction of the seek decides (`Later`).
`RingInv`: of what lies in the ring or goes into it next, at most one frame is older than the anchor, unless the look at the oldest
frame was masked. `OldIsBehind` and `OldIsBeyond` say that the old track lies wholly on the refused side of a gate of the new one,
`JumpIsFar` that a new track never looks like the old one going on, `NewIsLast` that behind a new frame every frame is new, so that the
gate it disarms is not needed any more, and `RingHasNoOld` what the look at the oldest frame proves about all others.

| Theorem | States |
|---|---|
| `TypeCorrect` | `TypeOK` |
| `StaleFrames` | `AtMostOneStale` |

**`PlayoutProofs`** (from `PlayoutAssumption` and, for the schedule, `ScheduleAssumption`: any tracks that are at most half of the timestamps long, any lead, threshold,
ring and bounds, any number of requests and steps of the clock).

    IInv == TypeOK /\ RecordsOK /\ OneOutside /\ OldOnlyOutside /\ OneOldFrame

A flush empties the buffer, so what can still be played of the old track is outside it: the pending frame or the one in
the playback task's hands. `OneOutside` says these are never two: a frame is taken from the buffer only when none is pending, and only
the task itself makes one pending, although the RTSP task clears it at any point. `OldOnlyOutside`: once an old frame was
played nothing outside is old. That the oldest frame of the buffer exists (`OldestInBuffer`) rests on the signed
difference being an order on one track (`CmpInTrack`).

`FramesOnSchedule` has an invariant of its own beside it:

    ScheduleInv == PlacesInv /\ AheadInv /\ PlayingInv

Timestamps wrap, positions (`Position`, counted from the first track) do not: by `PlacesInv` everything the task computes with
is a frame or the end of a track, and for these the signed difference of the code is the difference of
positions (`CmpIsDistance`). A frame that starts a stream is held until it is early by the threshold at most. One that continues
a stream is not judged at all; `AheadInv` bounds it nevertheless: the frame expected next is early by no more than the threshold, what the DMA ring holds,
and the frame in hand. A write lengthens both sides by a frame, a tick shortens both by one,
since the ring drains as fast as the clock runs until it is empty, and then the stream is late. What breaks the balance is a step of
the clock, an anchor under a running stream, a flush inside a read, and an emptied ring, which are the cases of `moved`. A frame of another track
lies before, or so far past the anchor that it is held (`FarOrNear`). `PlayingInv` carries the
bound from the judgement to the write.

| Theorem | States |
|---|---|
| `TypeCorrect` | `TypeOK` |
| `OneOldFrameAtMost` | `OneOldFrame` |
| `FramesOnSchedule` | `PlayedOnSchedule` |
| `PendingIsNotLost` | `OneOutside`: a pending frame is never overwritten by another |

**`ResendWindowProofs`** (from `ResendAssumption`: any width of the sequence number, any window less than half of it,
a stream of any first number that is at most half of the numbers long, any number of losses, copies, refusals and resets in any mixture).

    IInv == TypeOK /\ Loaded /\ AcceptedOnce /\ (~overlapped => Empty /\ Kept)

Sequence numbers wrap, so the argument is made with places in the stream, which do not: `Places` shows that for
two packets of the stream the 16-bit differences of the code are the differences of their places, one past the newest
packet included, and `Holes` that a bit of the mask stands for the packet so many places after the first hole. On these rest what the three operations do to the
set of holes: `SlideKeepsHoles`, `MarkReceivedFillsHole`, `TrackMissingAddsHoles`. `Loaded` says that what the receive
task has read is still so; `Empty` follows a reset word by word until the window is empty again; `Kept` says that accepted packets end with
the newest one and that holes lie before it and were not accepted, which makes `AcceptedOnce` inductive: a packet
is accepted as the newest or as a hole. That the mask has a least bit is `HasLeast`. `HolesAreKept` is the action property, with `SkippedIsGap` and
`WideGap` for the numbers a packet skips.

| Theorem | States |
|---|---|
| `TypeCorrect` | `TypeOK`, where a reset met the receive task too |
| `DecodedOnce`, `MissingIsMissing` | `AcceptedOnce`, `WindowIsMissing` |
| `HolesAreKept` | `NoHoleForgotten` |

**`RtspServerProofs`** (from `RtspServerAssumption`: remotes are AirPlay 1 clients, which
are clients; the set of clients is arbitrary, also infinite).

    IInv == TypeOK /\ TakeoverInv /\ OwnersInv /\ GoodbyeInv

`TakeoverInv` ties the place of the accept loop to the slots that may be in use: until a task is
created in the new slot that slot is free, and by then the old client has been told to
stop. `OwnersInv`: what runs for a client is owned by a task that has not yet reached
the step that stops it. `GoodbyeInv`: while a remote is set or something is shown, some
task, possibly one not yet created, is still to clear it; a replaced client in its grace period, or about to enter it, does not count,
because it skips these steps — this is why the property needs the successor and not
just "some task". A replaced client that is not told to stop yet exists only while the successor's task is still to be
created, which is why a pause that it shows in time is taken back. The clean-up is proved step by step from lemmas
that say what moving a task (`GotoMoves`, `MoveKeepsTakeover`) and freeing its slot
(`FreeKeepsTakeover`) leave alone.

| Theorem | States |
|---|---|
| `TypeCorrect` | `TypeOK`: only a client with a remote is ever in a grace period |
| `SessionsExclude` | `OneSession` |
| `CleanUpIsComplete` | `NothingOutlivesSession` |

**`StreamControlProofs`** (from `StreamControlAssumption`: any RTSP tasks, any heap, any number of requests).

    IInv == TypeOK /\ ArgInv /\ (~overlap => SoloInv)

`ArgInv`, which holds also where calls overlap, says which arguments each place of a call has. `SoloInv` is what calls one after the
other rest on, and has seven parts: one call at a time (`Alone`); handles are those of the tasks (`HandleInv`); only the current stream
runs (`RunInv`), and tasks of the other have been given up (`OldInv`); a stream that does not run has no other tasks, unless it is
waited for (`WaitInv`); what has been done of a call at each of its places (`PlaceInv`); what tasks use is allocated (`MemoryInv`).
`OneOfEach` needs them all: a task is created only where `PlaceInv` knows that the wait before it found no handle. The steps fall into
four kinds, each with a lemma: those that change the flags (`FlagsStep`, and `HaltKeeps` for the stops), the memory (`MemoryStep`),
create a task (`CreatesKeeps`) or switch a stream off again after a failure (`OffKeeps`).

`GrantedStartReceives` adds `GrantInv`, in part for calls that overlap too: `AheadInv` says which calls a request still has to make at each
place, so that nothing after a granted start stops it again; `KeptInv`, that a start which is not the last call is one of the buffered
stream; `LiveInv`, that a buffered stream marked as running has its task or a request about to create it, which holds
for overlapping calls because the mark is withdrawn where the creation fails; `StartInv`, that a start stays granted while its request goes on.

| Theorem | States |
|---|---|
| `TypeCorrect` | `TypeOK` |
| `OneTaskOfEachKind` | `OneOfEach` |
| `NothingFreedInUse` | `InUseIsAllocated` |
| `GrantedStartReceives` | `StartedReceives` |

**`PtpClockProofs`** (from `PtpClockAssumption`: any masters, clocks, delays and sequence numbers; of the thresholds, that the outlier
threshold is not above the lock threshold, that the divisors of the smoothing are at most the lock threshold, the slow one at most its
clamp, and that a lock takes some time. The firmware's values, in ns and ms, are 50 000 000 each, 16, 256, 2 500 000 and 250.)

    IInv == TypeOK /\ OneEstimate /\ SmoothedInv /\ WipeInv /\ MasterInv /\ AgeInv

`MasterInv` says of the task and the words together that sample, message and estimate are of the master named, unless a
reset crossed; `WipeInv` follows a reset word by word, since between its words the state is neither old nor
clean; `SmoothedInv` and `OneEstimate` say where the two copies of the estimate
are the same, which no longer holds once a reset came between the gate and the smoothing (`Calm` excludes that). The arithmetic of the smoothing is in lemmas about
integer division, used for `KeptSampleIsStable` and for two facts that no run states:

| Theorem | States |
|---|---|
| `TypeCorrect`, `EstimateIsOfMaster`, `KeptIsStable` | `TypeOK`, `OffsetOfMaster`, `KeptSampleIsStable` |
| `EstimateIsBetween` | `NoOvershoot`: the new estimate lies between the old one and the sample |
| `JitterKeepsLock` | `LockSurvivesJitter`: a step of the PTP task never takes the lock away |

**`BtCoexProofs`** (from `BtCoexAssumption`: any clients, any queue length, any bounds).

    IInv == TypeOK /\ OneOperation /\ RadioKnown /\ StateMatches

`StateMatches` speaks of the moments when the coexistence task waits for nothing; between
asking and the answer the radio changes under it. `RadioKnown` says what is known meanwhile: which step of the operation goes with
which state of the radio, that what is queued is what was asked for, and that a result tells whether the radio is off.
`OneOperation` makes this enough: the operation is queued, runs or is done, in one of these places. Lemmas say what appending and taking
a message do to the operations in the queue; `PlainStep` covers all steps that have no part in an operation, and the
theorems named `...Keeps` go through the tasks. The proof found a branch of `Disable` which left `count` open and which no
run could reach.

| Theorem | States |
|---|---|
| `TypeCorrect` | `TypeOK`, the queue within its length included |
| `CoexKnowsRadio` | `StateMatches` |
| `OneOperationAtATime` | `OneOperation` |

**Model-checked only.** Every invariant and every action property of the passing runs is a theorem above. Liveness
(`QueuedAudioIsPlayed`, `SegmentHeard`, `HeldIsReleased`, `StoppedClientEnds`, `HolesAreFilled`, `Drains`, `Answered`,
`Converges`, `RadioReturns`, `StreamingSuspends`, `AirPlayReturns`) rests on fairness, which is out of the prover's reach,
and is checked only.

## 6. Not modelled

* *DACP client*: its worker serves a queue of commands which nothing in the firmware sends
  (`dacp_send_playpause` and its like are called by functions of `playback_control.c` which
  nobody calls); the probe, which the server does
  call, is in `RtspServer` as the phone's own choice to advertise itself.
* *NTP clock, playback control, RTSP events*: one task that averages answers; a dispatch without state
  of its own; a listener table filled at start-up. Their order relative to the sessions is in `RtspServer` and `BtCoex`.
* *In part*: `RtspServer` leaves out the server's own stop, the volume and the reading of
  requests; `BtCoex` leaves out audio data, AVRCP, volume and pairing, `PtpClock` the sockets;
  `Playout` leaves out the servo and the S/PDIF and USB drivers, which have the
  interface of the I2S one. The handlers for pairing, info, parameters, metadata
  and artwork change only their own connection.
* *Computation on one connection*: RTSP parsing and encryption, HAP pairing, property
  lists, decoding, decryption, resampling. Sequential code whose difficulty is in
  bytes and arithmetic, better tested than model-checked.
* *Input and output*: Wi-Fi, Ethernet, captive portal, web server, updates, settings
  (single values, each stored atomically by NVS), buttons, DAC and board drivers, display.
* *Beside the audio path*: LED animations, MQTT, Matter.
* *Vendored or generated*: fonts, graphics library, DSP tables.

## 7. Plan

Done, in this order: `RtpTime`, `FrameQueue`, `AudioBuffer` with proofs, `Receiver`, and `Playout`, `ResendWindow`, `RtspServer`, `StreamControl`, `PtpClock` and `BtCoex` with proofs; then the proofs of `Receiver`,
of the schedule, of the granted start and of the binary search. What is left:

1. Abstract specifications beside `FrameQueue`, proved as refinements: of `RtspServer` a session that passes from one owner to
   the next, of `ResendWindow` the set of packets that are still wanted.
2. `ResendWindow` across a whole lap of the sequence number, with numbered packets, and
   composed with `FrameQueue` in place of the buffer.
3. The `ClockSteps` of `Playout` as what `PtpClock` can do.

A module that is to be proved about declares its constants with a named assumption,
has one action per step of the code, and no RECURSIVE operator.

## 8. How to run

    tlc -workers 2 -config MCAudioBuffer.cfg MCAudioBuffer
    tlapm AudioBufferProofs.tla

Every run finishes within three minutes on two cores.
