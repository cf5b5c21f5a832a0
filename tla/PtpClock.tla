------------------------------ MODULE PtpClock ------------------------------
(***************************************************************************)
(* The PTP listener of main/network/ptp_clock.c: its task pairs a SYNC     *)
(* with its FOLLOW_UP into a sample of the offset between a master's clock *)
(* and the local one, smooths the samples and declares a lock.  The RTSP   *)
(* task names the master, clears the state or reports a long pause, word   *)
(* by word and without a lock; the playback task asks whether the clock is *)
(* locked.                                                                 *)
(*                                                                         *)
(* Offsets are numbers in a unit of which the thresholds are a few; time   *)
(* is a set of ages, which stop at the value the code compares them with.  *)
(* The network may lose, repeat and reorder messages: the task receives    *)
(* any message of any master at any time.                                  *)
(***************************************************************************)
EXTENDS Integers

CONSTANTS
  Masters,     (* clocks that send SYNC                                     *)
  NoMaster,         (* expected_clock_id = 0: no master named                    *)
  Start,       (* Start[m]: the offset of master m                          *)
  Jump,        (* Jump[m]: by how much the clock of m may be stepped        *)
  Delays,      (* delays of a SYNC on its way                               *)
  Sequence,    (* sequence numbers                                          *)
  LockThreshold, OutlierThreshold,     (* LOCK_ and OUTLIER_THRESHOLD_NS    *)
  PosDiv, NegDiv, NegClamp,            (* SMOOTH_*                          *)
  MinSamples,                          (* MIN_SAMPLES_FOR_LOCK              *)
  StartupTime, StableTime, Timeout,    (* STARTUP_DURATION_MS,              *)
                                       (* LOCK_STABLE_TIME_MS,              *)
                                       (* LOCK_TIMEOUT_MS                   *)
  MaxRequests, MaxJumps                (* bounds of the instance            *)

ASSUME PtpClockAssumption ==
  /\ NoMaster \notin Masters /\ Start \in [Masters -> Int] /\ Jump \in [Masters -> Int]
  /\ Delays \subseteq Nat
  /\ LockThreshold \in Nat /\ OutlierThreshold \in Nat
  /\ OutlierThreshold <= LockThreshold
  /\ PosDiv \in 1..LockThreshold /\ NegDiv \in 1..LockThreshold
  /\ NegClamp \in Nat /\ NegDiv <= NegClamp
  /\ MinSamples \in Nat /\ StartupTime \in Nat /\ StableTime \in Nat \ {0}
  /\ Timeout \in Nat /\ MaxRequests \in Nat /\ MaxJumps \in Nat

VARIABLES
  clock,     (* clock[m]: the offset of master m now                       *)
  jumps,     (* how often a clock was stepped                              *)
  expected,  (* expected_clock_id                                          *)
  sync,      (* the last SYNC; awaiting_followup                           *)
  filter,    (* filtered_offset_ns, previous_offset, whether               *)
             (* previous_offset_time_ms is set, sample_count               *)
  lock,      (* locked, and the age of lock_candidate_start_ms             *)
  age,       (* of last_sync_ms and of mastership_start_ms                 *)
  task,      (* the PTP task: its place, the message, the sample           *)
  request,   (* the RTSP task: its place, the master it names, how often   *)
  source,    (* history: the master whose sample filtered_offset_ns holds  *)
  crossed    (* history: the last reset met the task within a message      *)

net == <<clock, jumps>>
words == <<expected, sync, filter, lock, age, source>>
vars == <<net, words, task, request, crossed>>

Unset == -1          (* a time that is zero *)
(* Mutant: one too far. *)
CappedLate(n, top) == IF n <= top THEN n + 1 ELSE top
Capped(n, top) == IF n < top THEN n + 1 ELSE top
Older(n, top) == IF n = Unset THEN Unset ELSE Capped(n, top)
Abs(n) == IF n < 0 THEN -n ELSE n

NoSync == [of |-> NoMaster, seq |-> 0, delay |-> 0, awaiting |-> FALSE]
NoFilter == [offset |-> 0, previous |-> 0, have |-> FALSE, count |-> 0]
NoLock == [locked |-> FALSE, candidate |-> Unset]
Waiting == [pc |-> "wait"]

Messages ==
  [type : {"sync"}, of : Masters, seq : Sequence, delay : Delays]
    \cup [type : {"onestep"}, of : Masters, delay : Delays]
    \cup [type : {"followup"}, of : Masters, seq : Sequence]

Init ==
  /\ clock = Start /\ jumps = 0
  /\ expected = NoMaster
  /\ sync = NoSync /\ filter = NoFilter /\ lock = NoLock
  /\ age = [sync |-> Unset, mastership |-> Unset]
  /\ task = Waiting
  /\ request = [pc |-> "idle", done |-> 0]
  /\ source = NoMaster /\ crossed = FALSE

-----------------------------------------------------------------------------
(* ptp_task *)

At(l) == task.pc = l

(* A message of another master than the expected one is ignored.           *)
Accepts(m) == expected \in {NoMaster, m}

Receive ==
  /\ At("wait")
  /\ \E m \in Messages : Accepts(m.of) /\ task' = [pc |-> "process", message |-> m]
  /\ UNCHANGED <<net, words, request, crossed>>

(* process_sync remembers a SYNC until its FOLLOW_UP comes.                *)
ProcessSync ==
  /\ At("process") /\ task.message.type = "sync"
  /\ sync' = [of |-> task.message.of, seq |-> task.message.seq,
              delay |-> task.message.delay, awaiting |-> TRUE]
  /\ task' = Waiting
  /\ UNCHANGED <<net, expected, filter, lock, age, source, request, crossed>>

(* A SYNC that carries its time is a sample; no FOLLOW_UP is awaited then, *)
(* and what was kept of a SYNC is not looked at again.                     *)
Sample(from, value) == [pc |-> "count", of |-> from, value |-> value]

ProcessOneStep ==
  /\ At("process") /\ task.message.type = "onestep"
  /\ sync' = NoSync
  /\ task' = Sample(task.message.of, clock[task.message.of] - task.message.delay)
  /\ UNCHANGED <<net, expected, filter, lock, age, source, request, crossed>>

(* process_followup: the time of the SYNC before.  Only the sequence       *)
(* number ties the two together; if the FOLLOW_UP is not of that SYNC, the  *)
(* sample is nobody's, and off by the time between the two.                *)
Pairs(m) == sync.awaiting /\ sync.seq = m.seq

ProcessFollowUp ==
  /\ At("process") /\ task.message.type = "followup"
  /\ IF Pairs(task.message)
     THEN /\ sync' = NoSync
          /\ IF sync.of = task.message.of /\ sync.seq = task.message.seq
             THEN task' = Sample(sync.of, clock[sync.of] - sync.delay)
             ELSE \E d \in Delays : task' = Sample(NoMaster, clock[task.message.of] - d)
     ELSE UNCHANGED sync /\ task' = Waiting
  /\ UNCHANGED <<net, expected, filter, lock, age, source, request, crossed>>

-----------------------------------------------------------------------------
(* update_offset *)

(* Every sample counts, and counts as a sign of life of the master; the    *)
(* first one is the offset.                                                *)
Smoothed(value) == [pc |-> "store", of |-> task.of, value |-> task.value,
                    smoothed |-> value]

Count ==
  /\ At("count")
  /\ age' = [sync |-> 0, mastership |-> IF filter.have THEN age.mastership ELSE 0]
  /\ filter' = [filter EXCEPT !.count = Capped(@, MinSamples)]
  /\ task' = IF filter.have THEN [task EXCEPT !.pc = "judge"] ELSE Smoothed(task.value)
  /\ UNCHANGED <<net, expected, sync, lock, source, request, crossed>>

(* Mutant: the wider threshold of the comment in ptp_clock.c:43. *)
IsOutlierWide(value) == 2 * Abs(value - filter.offset) > 3 * OutlierThreshold

IsOutlier(value) == Abs(value - filter.offset) > OutlierThreshold

Outlier ==
  /\ At("judge") /\ IsOutlier(task.value)
  /\ task' = Waiting
  /\ UNCHANGED <<net, words, request, crossed>>

(* A larger offset had the shorter way and is believed, wholly at first; a *)
(* smaller one only by a small part.                                       *)
Smooth(previous, value, startup) ==
  LET jitter == value - previous IN
  IF jitter >= 0
  THEN previous + (IF startup THEN jitter ELSE jitter \div PosDiv)
  ELSE previous - (IF -jitter > NegClamp THEN NegClamp ELSE -jitter) \div NegDiv

Startup == age.mastership # Unset /\ age.mastership < StartupTime

Keep ==
  /\ At("judge") /\ ~IsOutlier(task.value)
  /\ task' = [task EXCEPT !.pc = "smooth"]
  /\ UNCHANGED <<net, words, request, crossed>>

(* Judged by the one word, it is smoothed from the other.                  *)
SmoothSample ==
  /\ At("smooth")
  /\ task' = Smoothed(Smooth(filter.previous, task.value, Startup))
  /\ UNCHANGED <<net, words, request, crossed>>

Store ==
  /\ At("store")
  /\ filter' = [filter EXCEPT !.previous = task.smoothed]
  /\ task' = [task EXCEPT !.pc = "publish"]
  /\ UNCHANGED <<net, expected, sync, lock, age, source, request, crossed>>

(* The word that playback reads is the last.                               *)
Publish ==
  /\ At("publish")
  /\ filter' = [filter EXCEPT !.offset = task.smoothed, !.have = TRUE]
  /\ source' = task.of
  /\ task' = [task EXCEPT !.pc = "lock"]
  /\ UNCHANGED <<net, expected, sync, lock, age, request, crossed>>

Deviation == Abs(task.value - task.smoothed)
Enough == filter.count >= MinSamples
Stable == Enough /\ Deviation < LockThreshold

(* A sample far from the estimate spoils the lock, or the chance of one.   *)
Loosened == [locked |-> lock.locked /\ Deviation <= 4 * LockThreshold,
             candidate |-> Unset]

KeepLock ==
  /\ At("lock") /\ (lock.locked \/ ~Stable)
  /\ lock' = IF Enough /\ ~Stable THEN Loosened ELSE lock
  /\ task' = Waiting
  /\ UNCHANGED <<net, expected, sync, filter, age, source, request, crossed>>

(* Mutant: the time of stable samples starts again with each. *)
CandidateRestarts == 0

(* Once enough samples are in and they are stable for a while, the clock   *)
(* is locked.                                                              *)
Candidate == IF lock.candidate = Unset THEN 0 ELSE lock.candidate

LockCandidate ==
  /\ At("lock") /\ Stable /\ ~lock.locked /\ Candidate < StableTime
  /\ lock' = [lock EXCEPT !.candidate = Candidate]
  /\ task' = Waiting
  /\ UNCHANGED <<net, expected, sync, filter, age, source, request, crossed>>

Lock ==
  /\ At("lock") /\ Stable /\ ~lock.locked /\ Candidate >= StableTime
  /\ task' = [task EXCEPT !.pc = "declare"]
  /\ UNCHANGED <<net, words, request, crossed>>

Declare ==
  /\ At("declare")
  /\ lock' = [locked |-> TRUE, candidate |-> Unset]
  /\ task' = Waiting
  /\ UNCHANGED <<net, expected, sync, filter, age, source, request, crossed>>

UpdateOffset == Count \/ Outlier \/ Keep \/ SmoothSample \/ Store \/ Publish
                  \/ KeepLock \/ LockCandidate \/ Lock \/ Declare
Task == Receive \/ ProcessSync \/ ProcessOneStep \/ ProcessFollowUp \/ UpdateOffset

-----------------------------------------------------------------------------
(* The RTSP task: ptp_clock_set_master_clock_id, ptp_clock_clear and       *)
(* ptp_clock_notify_resume.  Words that the PTP task cannot tell apart are *)
(* written in one step; no time passes between two steps of a reset.       *)

Busy == request.pc # "idle"
Begin(pc) == /\ request.done < MaxRequests /\ ~Busy
             /\ request' = [pc |-> pc, done |-> request.done + 1]
GoOn(from, to) == request.pc = from /\ request' = [request EXCEPT !.pc = to]

(* A new master is named first, *)
SetMaster ==
  /\ Begin("unlock")
  /\ expected' \in Masters \ {expected}
  /\ crossed' = ~At("wait")
  /\ UNCHANGED <<net, sync, filter, lock, age, task, source>>

(* then the lock goes, *)
Unlock ==
  /\ GoOn("unlock", "wipe")
  /\ lock' = NoLock
  /\ crossed' = (crossed \/ ~At("wait"))
  /\ UNCHANGED <<net, expected, sync, filter, age, task, source>>

(* Mutant: the smoothing goes on from the last offset. *)
WipedNotPrevious == [NoFilter EXCEPT !.previous = filter.previous, !.have = filter.have]

(* and then what was learned of the master before.                         *)
Wiped == NoFilter

Wipe ==
  /\ GoOn("wipe", "idle")
  /\ filter' = Wiped /\ source' = NoMaster
  /\ sync' = NoSync
  /\ crossed' = (crossed \/ ~At("wait"))
  /\ UNCHANGED <<net, expected, lock, age, task>>

(* ptp_clock_clear: the lock, *)
Clear ==
  /\ Begin("clear")
  /\ lock' = NoLock
  /\ age' = [age EXCEPT !.sync = Unset]
  /\ crossed' = ~At("wait")
  /\ UNCHANGED <<net, expected, sync, filter, task, source>>

(* the samples, *)
ClearSamples ==
  /\ GoOn("clear", "forget")
  /\ filter' = NoFilter /\ source' = NoMaster /\ sync' = NoSync
  /\ age' = [age EXCEPT !.mastership = Unset]
  /\ crossed' = (crossed \/ ~At("wait"))
  /\ UNCHANGED <<net, expected, lock, task>>

(* and last the master.                                                    *)
ForgetMaster ==
  /\ GoOn("forget", "idle")
  /\ expected' = NoMaster
  /\ crossed' = (crossed \/ ~At("wait"))
  /\ UNCHANGED <<net, sync, filter, lock, age, task, source>>

(* After a long pause the next sample is taken as the first one.           *)
NotifyResume ==
  /\ Begin("idle")
  /\ filter' = [filter EXCEPT !.have = FALSE]
  /\ age' = [age EXCEPT !.mastership = Unset]
  /\ UNCHANGED <<net, expected, sync, lock, task, source, crossed>>

GoesOn == Unlock \/ Wipe \/ ClearSamples \/ ForgetMaster
Request == SetMaster \/ Clear \/ NotifyResume \/ GoesOn

-----------------------------------------------------------------------------
(* The playback task, time and the masters *)

(* ptp_clock_is_locked drops a lock without samples for LOCK_TIMEOUT_MS.   *)
Expired == lock.locked /\ age.sync > Timeout

(* It reads the tick first: a sample that is stored before last_sync_ms is *)
(* read again is younger than that, and its unsigned age wraps.            *)
AgeWraps == lock.locked /\ age.sync = 0

IsLocked ==
  /\ Expired \/ AgeWraps
  /\ lock' = NoLock
  /\ UNCHANGED <<net, expected, sync, filter, age, task, request, source, crossed>>

Tick ==
  /\ At("wait") /\ ~Busy
  /\ age' = [sync |-> Older(age.sync, Timeout + 1),
             mastership |-> Older(age.mastership, StartupTime)]
  /\ lock' = [lock EXCEPT !.candidate = Older(@, StableTime)]
  /\ UNCHANGED <<net, expected, sync, filter, task, request, source, crossed>>

StepClock ==
  /\ jumps < MaxJumps
  /\ jumps' = jumps + 1
  /\ \E m \in Masters : Jump[m] # 0 /\ clock' = [clock EXCEPT ![m] = @ + Jump[m]]
  /\ UNCHANGED <<words, task, request, crossed>>

Next == Task \/ Request \/ IsLocked \/ Tick \/ StepClock

Spec == Init /\ [][Next]_vars

(* The PTP task handles what it has received, a request that has begun     *)
(* goes on, playback asks for the lock; time passes between messages.  No  *)
(* sample need ever be stored while playback asks.                         *)
Working == ProcessSync \/ ProcessOneStep \/ ProcessFollowUp \/ UpdateOffset
FairSpec == Spec /\ WF_vars(Working) /\ WF_vars(GoesOn)
                 /\ SF_vars(Tick) /\ WF_vars(Expired /\ IsLocked)

-----------------------------------------------------------------------------
(* Properties *)

TypeOK ==
  /\ clock \in [Masters -> Int] /\ jumps \in 0..MaxJumps
  /\ expected \in Masters \cup {NoMaster} /\ source \in Masters \cup {NoMaster}
  /\ sync \in [of : Masters \cup {NoMaster}, seq : Sequence \cup {0},
               delay : Delays \cup {0}, awaiting : BOOLEAN]
  /\ filter \in [offset : Int, previous : Int, have : BOOLEAN, count : 0..MinSamples]
  /\ lock \in [locked : BOOLEAN, candidate : {Unset} \cup 0..StableTime]
  /\ age \in [sync : {Unset} \cup 0..(Timeout + 1),
              mastership : {Unset} \cup 0..StartupTime]
  /\ \/ task = Waiting
     \/ task \in [pc : {"process"}, message : Messages]
     \/ task \in [pc : {"count", "judge", "smooth"}, of : Masters \cup {NoMaster}, value : Int]
     \/ task \in [pc : {"store", "publish", "lock", "declare"}, of : Masters \cup {NoMaster},
                  value : Int, smoothed : Int]
  /\ request \in [pc : {"idle", "unlock", "wipe", "clear", "forget"},
                  done : 0..MaxRequests]
  /\ crossed \in BOOLEAN

(* Masters whose samples the clock takes, and what they may show.          *)
Accepted == {m \in Masters : Accepts(m)}
Shown == {clock[m] - d : m \in Accepted, d \in Delays}

(* Whatever reaches the listener and whenever a master is named: the       *)
(* offset that playback reads, and the lock on it, come from the master    *)
(* that was named, never from the one before or from a SYNC and a          *)
(* FOLLOW_UP of two clocks, and a lock has the time of its last sample,    *)
(* without which it would never expire - unless the last reset, which      *)
(* takes no lock, met the task inside a message.                           *)
OffsetOfMaster ==
  ~Busy /\ ~crossed =>
    /\ expected \in Masters /\ (filter.have \/ lock.locked) => source = expected
    /\ lock.locked => age.sync # Unset

(* ptp_clock.c:43-46: a sample near the threshold is not both kept and     *)
(* counted against the lock - unless a reset came between the two.         *)
KeptSampleIsStable == ~Busy /\ ~crossed /\ At("lock") => Deviation < LockThreshold

(* While samples come and no reset met the task, a clock whose estimate is *)
(* within the outlier threshold of all that its masters show is locked     *)
(* again and again.                                                        *)
Sane == ~crossed /\ (filter.have => \A v \in Shown : ~IsOutlier(v))
Converges ==
  ([]<>At("count") /\ <>[]Sane) => []<>lock.locked

(* ptp_clock.c:38-40: the lock criteria "converge in <1 s while still      *)
(* rejecting genuine outliers".  So samples that from some time on are all *)
(* exact should lead to a lock.  They do not when the first sample after a *)
(* reset was late, or the clock was stepped since: all of them are then    *)
(* outliers, and none of those ever ends the estimate.                     *)
ExactSamplesLock ==
  ([]<>At("count") /\ <>[](At("count") => task.value = clock[task.of]))
    => <>lock.locked
=============================================================================
