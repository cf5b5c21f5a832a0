--------------------------- MODULE PtpClockProofs ---------------------------
(***************************************************************************)
(* Proofs about PtpClock for any masters, offsets, delays and thresholds   *)
(* that satisfy PtpClockAssumption, and any number of requests and steps   *)
(* of a clock.                                                             *)
(***************************************************************************)
EXTENDS PtpClock, TLAPS

(* No reset met the task, and none is between its first and its last word  *)
(* of the samples.                                                         *)
Calm == ~crossed /\ request.pc \in {"idle", "forget"}

(* The two copies of the estimate agree: an outlier is judged by the one,  *)
(* a sample smoothed from the other.                                       *)
OneEstimate == Calm /\ ~At("publish") => filter.offset = filter.previous

(* What was computed of a sample before it is stored and judged: it is     *)
(* near the sample, and between the sample and the estimate.               *)
Between(a, b, c) == (a <= b /\ b <= c) \/ (c <= b /\ b <= a)
SmoothedInv ==
  Calm =>
    /\ At("smooth") => Abs(task.value - filter.previous) <= OutlierThreshold
    /\ At("store") \/ At("publish") \/ At("lock") => Deviation < LockThreshold
    /\ (At("store") \/ At("publish")) /\ filter.have =>
         Between(filter.offset, task.smoothed, task.value)
    /\ At("publish") => filter.previous = task.smoothed

(* No time passes in a reset, so that between the lock's going and the     *)
(* samples' no lock is declared anew.                                      *)
WipeInv ==
  ~crossed /\ request.pc = "wipe" =>
    ~lock.locked /\ lock.candidate \in {Unset, 0} /\ ~At("declare")

(* All that will be part of a sample is of the master that was named.      *)
MasterInv ==
  ~crossed /\ ~Busy /\ expected \in Masters =>
    /\ filter.have \/ lock.locked => source = expected
    /\ sync.awaiting => sync.of = expected
    /\ At("process") => task.message.of = expected
    /\ ~At("wait") /\ ~At("process") => task.of = expected
    /\ At("lock") \/ At("declare") => source = expected

(* A task that counted a sample, and a lock, have the time of it.          *)
AgeInv ==
  ~crossed =>
    /\ ~At("wait") /\ ~At("process") /\ ~At("count") => age.sync # Unset
    /\ lock.locked /\ request.pc # "unlock" => age.sync # Unset

IInv == TypeOK /\ OneEstimate /\ SmoothedInv /\ WipeInv /\ MasterInv /\ AgeInv

-----------------------------------------------------------------------------
(* Arithmetic *)

(* What a division of natural numbers gives.                               *)
LEMMA Quotient ==
  ASSUME NEW n \in Nat, NEW d \in Nat \ {0}
  PROVE  /\ n \div d \in Nat /\ n \div d <= n
         /\ n >= d => n \div d >= 1
<1>1. n \div d \in Int /\ n % d \in 0..(d - 1) /\ n = d * (n \div d) + (n % d)
  BY SMT
<1> QED
  BY <1>1, SMT

(* Smoothing gives a number.                                               *)
LEMMA SmoothIsInt ==
  ASSUME NEW p \in Int, NEW v \in Int, NEW startup \in BOOLEAN
  PROVE  Smooth(p, v, startup) \in Int
<1> DEFINE j == v - p
           c == IF -j > NegClamp THEN NegClamp ELSE -j
<1>1. j \in Int /\ PosDiv \in Nat \ {0} /\ NegDiv \in Nat \ {0} /\ NegClamp \in Nat
  BY PtpClockAssumption
<1>2. j >= 0 => j \div PosDiv \in Nat
  BY <1>1, Quotient
<1>3. j < 0 => c \in Nat
  BY <1>1
<1>4. j < 0 => c \div NegDiv \in Nat
  BY <1>1, <1>3, Quotient
<1>5. Smooth(p, v, startup) = IF j >= 0 THEN p + (IF startup THEN j ELSE j \div PosDiv)
                              ELSE p - c \div NegDiv
  BY DEF Smooth
<1> HIDE DEF c
<1> QED
  BY <1>1, <1>2, <1>4, <1>5

(* A number that is not an outlier is smoothed to one between the estimate *)
(* and itself, and less than the lock's threshold away.                    *)
LEMMA SmoothIsNear ==
  ASSUME NEW p \in Int, NEW v \in Int, NEW startup \in BOOLEAN,
         Abs(v - p) <= OutlierThreshold
  PROVE  /\ Smooth(p, v, startup) \in Int
         /\ Between(p, Smooth(p, v, startup), v)
         /\ Abs(v - Smooth(p, v, startup)) < LockThreshold
<1> DEFINE j == v - p
<1>1. /\ LockThreshold \in Nat \ {0} /\ OutlierThreshold \in Nat /\ OutlierThreshold <= LockThreshold
      /\ PosDiv \in Nat \ {0} /\ PosDiv <= LockThreshold
      /\ NegDiv \in Nat \ {0} /\ NegDiv <= LockThreshold
      /\ NegClamp \in Nat /\ NegDiv <= NegClamp
  BY PtpClockAssumption
<1>2. CASE j >= 0 /\ startup
  BY <1>1, <1>2 DEF Smooth, Between, Abs
<1>3. CASE j >= 0 /\ ~startup
  <2>1. j \in Nat /\ j <= LockThreshold
    BY <1>1, <1>3 DEF Abs
  <2>2. j \div PosDiv \in Nat /\ j \div PosDiv <= j /\ (j >= PosDiv => j \div PosDiv >= 1)
    BY <2>1, <1>1, Quotient
  <2>3. Smooth(p, v, startup) = p + (j \div PosDiv)
    BY <1>3 DEF Smooth
  <2> QED
    BY <2>1, <2>2, <2>3, <1>1 DEF Between, Abs
<1>4. CASE j < 0
  <2> DEFINE c == IF -j > NegClamp THEN NegClamp ELSE -j
  <2>1. c \in Nat /\ -j \in Nat /\ c <= -j /\ -j <= LockThreshold
    BY <1>1, <1>4 DEF Abs
  <2>2. c \div NegDiv \in Nat /\ c \div NegDiv <= c /\ (c >= NegDiv => c \div NegDiv >= 1)
    BY <2>1, <1>1, Quotient
  <2>3. Smooth(p, v, startup) = p - (c \div NegDiv)
    BY <1>4 DEF Smooth
  <2>4. -j = LockThreshold => c >= NegDiv
    BY <1>1
  <2> HIDE DEF c
  <2> QED
    BY <2>1, <2>2, <2>3, <2>4, <1>1 DEF Between, Abs
<1> QED
  BY <1>2, <1>3, <1>4

-----------------------------------------------------------------------------
(* The PTP task *)

(* The places of the task and what it holds there.                         *)
Samples == [pc : {"count", "judge", "smooth"}, of : Masters \cup {NoMaster}, value : Int]
Results == [pc : {"store", "publish", "lock", "declare"}, of : Masters \cup {NoMaster},
            value : Int, smoothed : Int]

LEMMA Places ==
  ASSUME TypeOK
  PROVE  /\ At("wait") => task = Waiting
         /\ At("process") => task.message \in Messages
         /\ At("count") \/ At("judge") \/ At("smooth") => task \in Samples
         /\ At("store") \/ At("publish") \/ At("lock") \/ At("declare") => task \in Results
         /\ Waiting.pc = "wait"
BY SMT DEF TypeOK, At, Waiting, Samples, Results

(* A message is taken from the network.                                    *)
THEOREM ReceiveKeeps == IInv /\ Receive => IInv'
<1> SUFFICES ASSUME IInv, Receive PROVE IInv'
  OBVIOUS
<1>1. PICK m \in Messages : Accepts(m.of) /\ task' = [pc |-> "process", message |-> m]
  BY DEF Receive
<1>2. UNCHANGED <<net, words, request, crossed>>
  BY DEF Receive
<1>3. At("wait") /\ task'.pc = "process" /\ task'.message = m
  BY <1>1 DEF Receive
<1>4. TypeOK'
  BY <1>1, <1>2 DEF IInv, TypeOK, net, words
<1>5. OneEstimate' /\ SmoothedInv' /\ WipeInv' /\ AgeInv'
  BY <1>2, <1>3 DEF IInv, OneEstimate, Calm, SmoothedInv, WipeInv, AgeInv, At, words, net
<1>6. MasterInv'
  <2>1. expected \in Masters => m.of = expected
    BY <1>1, PtpClockAssumption DEF Accepts
  <2> QED
    BY <1>2, <1>3, <2>1 DEF IInv, MasterInv, At, words, net, Busy
<1> QED
  BY <1>4, <1>5, <1>6 DEF IInv

(* A message is worked on: a SYNC is kept, or a sample comes of it.        *)
THEOREM MessageKeeps == IInv /\ (ProcessSync \/ ProcessOneStep \/ ProcessFollowUp) => IInv'
<1> SUFFICES ASSUME IInv, ProcessSync \/ ProcessOneStep \/ ProcessFollowUp PROVE IInv'
  OBVIOUS
<1> DEFINE m == task.message
<1>1. At("process") /\ m \in Messages
  BY Places DEF IInv, ProcessSync, ProcessOneStep, ProcessFollowUp
<1>2. UNCHANGED <<net, expected, filter, lock, age, source, request, crossed>>
  BY DEF ProcessSync, ProcessOneStep, ProcessFollowUp
<1>3. /\ m.of \in Masters
      /\ m.type \in {"sync", "onestep"} => m.delay \in Delays
      /\ m.type \in {"sync", "followup"} => m.seq \in Sequence
  BY <1>1 DEF Messages
<1>4. \A d \in Delays : clock[m.of] - d \in Int
  <2>1. clock[m.of] \in Int
    BY <1>3 DEF IInv, TypeOK
  <2>2. \A d \in Delays : d \in Nat
    BY PtpClockAssumption
  <2> QED
    BY <2>1, <2>2
<1>5. sync' \in [of : Masters \cup {NoMaster}, seq : Sequence \cup {0},
                delay : Delays \cup {0}, awaiting : BOOLEAN]
  <2>1. CASE sync' = NoSync
    BY <2>1 DEF NoSync
  <2>2. CASE sync' = sync
    BY <2>2 DEF IInv, TypeOK
  <2>3. CASE ProcessSync
    BY <2>3, <1>3 DEF ProcessSync
  <2> QED
    BY <2>1, <2>2, <2>3 DEF ProcessOneStep, ProcessFollowUp
<1>6. \/ task' = Waiting /\ (sync'.awaiting => sync'.of = m.of \/ sync' = sync)
      \/ /\ task' \in Samples /\ task'.pc = "count" /\ ~sync'.awaiting
         /\ task'.of \in {m.of, NoMaster}
         /\ task'.of = m.of \/ (sync.awaiting /\ sync.of # m.of)
  <2>1. CASE ProcessSync
    BY <2>1 DEF ProcessSync
  <2>2. CASE ProcessOneStep
    BY <2>2, <1>3, <1>4 DEF ProcessOneStep, Sample, Samples, NoSync
  <2>3. CASE ProcessFollowUp /\ ~Pairs(m)
    BY <2>3 DEF ProcessFollowUp
  <2>4. CASE ProcessFollowUp /\ Pairs(m) /\ sync.of = m.of
    <3>1. sync.delay \in Delays \cup {0} /\ clock[sync.of] \in Int
      BY <1>3, <2>4 DEF IInv, TypeOK
    <3>2. clock[sync.of] - sync.delay \in Int
      <4>1. sync.delay \in Nat
        <5>1. Delays \cup {0} \subseteq Nat
          <6>1. Delays \subseteq Nat /\ 0 \in Nat
            BY PtpClockAssumption
          <6> QED
            BY <6>1, Zenon
        <5> QED
          BY <3>1, <5>1, Zenon
      <4> QED
        BY <3>1, <4>1
    <3>3. task' = Sample(sync.of, clock[sync.of] - sync.delay) /\ sync' = NoSync
      BY <2>4 DEF ProcessFollowUp, Pairs
    <3> QED
      BY <3>2, <3>3, <2>4, <1>3 DEF Sample, Samples, NoSync
  <2>5. CASE ProcessFollowUp /\ Pairs(m) /\ sync.of # m.of
    <3>1. PICK d \in Delays : task' = Sample(NoMaster, clock[m.of] - d)
      BY <2>5 DEF ProcessFollowUp
    <3> QED
      BY <3>1, <1>4, <2>5 DEF Sample, Samples, NoSync, ProcessFollowUp, Pairs
  <2> QED
    BY <2>1, <2>2, <2>3, <2>4, <2>5
<1>7. TypeOK'
  BY <1>2, <1>5, <1>6 DEF IInv, TypeOK, net, Samples
<1>8. task'.pc \in {"wait", "count"}
  BY <1>6 DEF Waiting
<1>9. OneEstimate' /\ SmoothedInv' /\ WipeInv' /\ AgeInv'
  BY <1>1, <1>2, <1>8 DEF IInv, OneEstimate, Calm, SmoothedInv, WipeInv, AgeInv, At
<1>10. MasterInv'
  <2> SUFFICES ASSUME ~crossed, ~Busy, expected \in Masters PROVE MasterInv'
    BY <1>2 DEF MasterInv, Busy
  <2>1. m.of = expected /\ (sync.awaiting => sync.of = expected)
          /\ (filter.have \/ lock.locked => source = expected)
    BY <1>1 DEF IInv, MasterInv
  <2>2. sync'.awaiting => sync'.of = expected
    BY <1>6, <2>1
  <2>3. task'.pc = "count" => task'.of = expected
    BY <1>6, <2>1 DEF Waiting
  <2> QED
    BY <1>2, <1>8, <2>1, <2>2, <2>3 DEF MasterInv, At
<1> QED
  BY <1>7, <1>9, <1>10 DEF IInv

(* The sample counts, and the first one is taken as it is.                 *)
THEOREM CountKeeps == IInv /\ Count => IInv'
<1> SUFFICES ASSUME IInv, Count PROVE IInv'
  OBVIOUS
<1>1. /\ task \in Samples /\ At("count")
      /\ UNCHANGED <<net, expected, sync, lock, source, request, crossed>>
  BY Places DEF Count, IInv
<1>2. /\ filter' = [filter EXCEPT !.count = Capped(@, MinSamples)]
      /\ age' = [sync |-> 0, mastership |-> IF filter.have THEN age.mastership ELSE 0]
  BY DEF Count
<1>3. \/ filter.have /\ task' \in Samples /\ task'.pc = "judge" /\ task'.of = task.of
      \/ /\ ~filter.have /\ task' \in Results /\ task'.pc = "store" /\ task'.of = task.of
         /\ task'.value = task.value /\ task'.smoothed = task.value /\ task.value \in Int
  BY <1>1 DEF Count, Smoothed, Samples, Results
<1>4. filter' \in [offset : Int, previous : Int, have : BOOLEAN, count : 0..MinSamples]
        /\ filter'.offset = filter.offset /\ filter'.previous = filter.previous
        /\ filter'.have = filter.have
  BY <1>2, PtpClockAssumption DEF IInv, TypeOK, Capped
<1>5. age' \in [sync : {Unset} \cup 0..(Timeout + 1), mastership : {Unset} \cup 0..StartupTime]
        /\ age'.sync # Unset
  BY <1>2, PtpClockAssumption DEF IInv, TypeOK, Unset
<1>6. TypeOK'
  BY <1>1, <1>3, <1>4, <1>5 DEF IInv, TypeOK, net, Samples, Results
<1>7. OneEstimate' /\ WipeInv' /\ AgeInv' /\ MasterInv'
  BY <1>1, <1>3, <1>4, <1>5 DEF IInv, OneEstimate, Calm, WipeInv, AgeInv, MasterInv, At, Busy
<1>8. SmoothedInv'
  BY <1>3, <1>4, PtpClockAssumption DEF SmoothedInv, Deviation, Abs, At
<1> QED
  BY <1>6, <1>7, <1>8 DEF IInv

(* The sample is judged by the estimate, and smoothed unless an outlier.   *)
THEOREM JudgeKeeps == IInv /\ (Outlier \/ Keep) => IInv'
<1> SUFFICES ASSUME IInv, Outlier \/ Keep PROVE IInv'
  OBVIOUS
<1>1. task \in Samples /\ At("judge") /\ UNCHANGED <<net, words, request, crossed>>
  BY Places DEF Outlier, Keep, IInv
<1>2. CASE Outlier
  <2>1. task' = Waiting
    BY <1>2 DEF Outlier
  <2>2. TypeOK'
    BY <1>1, <2>1 DEF IInv, TypeOK, net, words
  <2> QED
    BY <1>1, <2>1, <2>2 DEF IInv, OneEstimate, SmoothedInv, WipeInv, AgeInv, MasterInv,
                                   Calm, At, Busy, Waiting, words
<1>3. CASE Keep
  <2>1. /\ task' \in Samples /\ task'.pc = "smooth" /\ task'.of = task.of
        /\ task'.value = task.value /\ task.value \in Int
    BY <1>1, <1>3 DEF Keep, Samples
  <2>2. TypeOK'
    BY <1>1, <2>1 DEF IInv, TypeOK, net, words, Samples
  <2>3. SmoothedInv'
    <3> SUFFICES ASSUME Calm PROVE Abs(task.value - filter.previous) <= OutlierThreshold
      BY <1>1, <2>1 DEF SmoothedInv, Calm, At, words
    <3>1. filter.previous \in Int /\ filter.previous = filter.offset
      BY <1>1 DEF IInv, TypeOK, OneEstimate, At
    <3>2. ~(Abs(task.value - filter.offset) > OutlierThreshold)
      BY <1>3 DEF Keep, IsOutlier
    <3> QED
      BY <2>1, <3>1, <3>2, PtpClockAssumption DEF Abs
  <2> QED
    BY <1>1, <2>1, <2>2, <2>3 DEF IInv, OneEstimate, WipeInv, AgeInv, MasterInv, At, Busy, Calm, words
<1> QED
  BY <1>2, <1>3

(* It is smoothed, from the other copy of the estimate.                    *)
THEOREM SmoothKeeps == IInv /\ SmoothSample => IInv'
<1> SUFFICES ASSUME IInv, SmoothSample PROVE IInv'
  OBVIOUS
<1>1. task \in Samples /\ At("smooth") /\ UNCHANGED <<net, words, request, crossed>>
  BY Places DEF SmoothSample, IInv
<1> DEFINE v == Smooth(filter.previous, task.value, Startup)
<1>2. task.value \in Int /\ filter.previous \in Int /\ Startup \in BOOLEAN
  BY <1>1 DEF IInv, TypeOK, Samples, Startup
<1>3. v \in Int
  BY <1>2, SmoothIsInt
<1>4. Calm => /\ Between(filter.previous, v, task.value) /\ Abs(task.value - v) < LockThreshold
              /\ filter.offset = filter.previous
  <2> SUFFICES ASSUME Calm
               PROVE  /\ Between(filter.previous, v, task.value)
                      /\ Abs(task.value - v) < LockThreshold
                      /\ filter.offset = filter.previous
    OBVIOUS
  <2>1. /\ Abs(task.value - filter.previous) <= OutlierThreshold
        /\ filter.offset = filter.previous
    BY <1>1 DEF IInv, SmoothedInv, OneEstimate, At
  <2> QED
    BY <1>2, <2>1, SmoothIsNear
<1>5. task' = [pc |-> "store", of |-> task.of, value |-> task.value, smoothed |-> v]
  BY DEF SmoothSample, Smoothed
<1> HIDE DEF v
<1>6. task' \in Results
  BY <1>1, <1>2, <1>3, <1>5 DEF Samples, Results
<1>7. TypeOK'
  BY <1>1, <1>6 DEF IInv, TypeOK, net, words, Results
<1>8. SmoothedInv'
  BY <1>1, <1>4, <1>5 DEF SmoothedInv, Deviation, At, Calm, words
<1> QED
  BY <1>1, <1>5, <1>7, <1>8 DEF IInv, OneEstimate, WipeInv, AgeInv, MasterInv, At, Busy, Calm, words

(* The result is stored, first where the next sample starts from, then     *)
(* where playback reads it.                                                *)
THEOREM StoreKeeps == IInv /\ (Store \/ Publish) => IInv'
<1> SUFFICES ASSUME IInv, Store \/ Publish PROVE IInv'
  OBVIOUS
<1>1. /\ task \in Results
      /\ At("store") \/ At("publish")
      /\ UNCHANGED <<net, expected, sync, lock, age, request, crossed>>
  BY Places DEF Store, Publish, IInv
<1>2. task.smoothed \in Int /\ task.value \in Int
  BY <1>1 DEF Results
<1>3. CASE Store
  <2>1. /\ At("store") /\ filter' = [filter EXCEPT !.previous = task.smoothed]
        /\ source' = source /\ task' = [task EXCEPT !.pc = "publish"]
    BY <1>3 DEF Store
  <2>2. /\ task' \in Results /\ task'.pc = "publish" /\ task'.of = task.of
        /\ task'.value = task.value /\ task'.smoothed = task.smoothed
    BY <1>1, <2>1 DEF Results
  <2>3. /\ filter' \in [offset : Int, previous : Int, have : BOOLEAN, count : 0..MinSamples]
        /\ filter'.previous = task.smoothed /\ filter'.offset = filter.offset
        /\ filter'.have = filter.have
    BY <1>2, <2>1 DEF IInv, TypeOK
  <2>4. TypeOK'
    BY <1>1, <2>1, <2>2, <2>3 DEF IInv, TypeOK, net, Results
  <2>5. SmoothedInv'
    BY <1>1, <2>1, <2>2, <2>3 DEF IInv, SmoothedInv, Deviation, At, Calm
  <2> QED
    BY <1>1, <2>1, <2>2, <2>3, <2>4, <2>5
       DEF IInv, OneEstimate, WipeInv, AgeInv, MasterInv, At, Busy, Calm
<1>4. CASE Publish
  <2>1. /\ At("publish") /\ filter' = [filter EXCEPT !.offset = task.smoothed, !.have = TRUE]
        /\ source' = task.of /\ task' = [task EXCEPT !.pc = "lock"]
    BY <1>4 DEF Publish
  <2>2. /\ task' \in Results /\ task'.pc = "lock" /\ task'.of = task.of
        /\ task'.value = task.value /\ task'.smoothed = task.smoothed
    BY <1>1, <2>1 DEF Results
  <2>3. /\ filter' \in [offset : Int, previous : Int, have : BOOLEAN, count : 0..MinSamples]
        /\ filter'.previous = filter.previous /\ filter'.offset = task.smoothed
    BY <1>2, <2>1 DEF IInv, TypeOK
  <2>4. TypeOK'
    BY <1>1, <2>1, <2>2, <2>3 DEF IInv, TypeOK, net, Results
  <2>5. SmoothedInv' /\ OneEstimate'
    BY <1>1, <2>1, <2>2, <2>3 DEF IInv, SmoothedInv, OneEstimate, Deviation, At, Calm
  <2> QED
    BY <1>1, <2>1, <2>2, <2>4, <2>5 DEF IInv, WipeInv, AgeInv, MasterInv, At, Busy
<1> QED
  BY <1>3, <1>4

(* The lock is kept, waited for, or declared.                              *)
THEOREM LockKeeps == IInv /\ (KeepLock \/ LockCandidate \/ Lock \/ Declare) => IInv'
<1> SUFFICES ASSUME IInv, KeepLock \/ LockCandidate \/ Lock \/ Declare PROVE IInv'
  OBVIOUS
<1>1. /\ task \in Results /\ UNCHANGED <<net, expected, sync, filter, age, source, request, crossed>>
      /\ lock \in [locked : BOOLEAN, candidate : {Unset} \cup 0..StableTime]
  BY Places DEF KeepLock, LockCandidate, Lock, Declare, IInv, TypeOK, words
<1>2. CASE KeepLock \/ LockCandidate
  <2>1. task' = Waiting /\ At("lock")
    BY <1>2 DEF KeepLock, LockCandidate
  <2>2. /\ lock' \in [locked : BOOLEAN, candidate : {Unset} \cup 0..StableTime]
        /\ lock'.locked => lock.locked
        /\ lock'.candidate \in {Unset, 0, lock.candidate}
    <3>1. CASE KeepLock
      BY <3>1, <1>1 DEF KeepLock, Loosened
    <3>2. CASE LockCandidate
      <4>1. Candidate \in {0, lock.candidate} /\ Candidate \in 0..StableTime
        BY <1>1, PtpClockAssumption DEF Candidate
      <4> QED
        BY <3>2, <4>1, <1>1 DEF LockCandidate
    <3> QED
      BY <1>2, <3>1, <3>2
  <2>3. TypeOK'
    BY <1>1, <2>1, <2>2 DEF IInv, TypeOK, net
  <2> QED
    BY <1>1, <2>1, <2>2, <2>3 DEF IInv, OneEstimate, SmoothedInv, WipeInv, AgeInv, MasterInv,
                                   Calm, At, Busy, Waiting
<1>3. CASE Lock
  <2>1. At("lock") /\ lock' = lock /\ task' = [task EXCEPT !.pc = "declare"]
    BY <1>3 DEF Lock, words
  <2>2. /\ task' \in Results /\ task'.pc = "declare" /\ task'.of = task.of
    BY <1>1, <2>1 DEF Results
  <2>3. TypeOK'
    BY <1>1, <2>1, <2>2 DEF IInv, TypeOK, net, Results
  <2>4. lock.candidate \notin {Unset, 0}
    BY <1>3, PtpClockAssumption DEF Lock, Candidate
  <2> QED
    BY <1>1, <2>1, <2>2, <2>3, <2>4 DEF IInv, OneEstimate, SmoothedInv, WipeInv, AgeInv, MasterInv,
                                   Calm, At, Busy
<1>4. CASE Declare
  <2>1. At("declare") /\ task' = Waiting /\ lock' = [locked |-> TRUE, candidate |-> Unset]
    BY <1>4 DEF Declare
  <2>2. TypeOK'
    BY <1>1, <2>1 DEF IInv, TypeOK, net
  <2> QED
    BY <1>1, <2>1, <2>2 DEF IInv, OneEstimate, SmoothedInv, WipeInv, AgeInv, MasterInv,
                                   Calm, At, Busy, Waiting
<1> QED
  BY <1>2, <1>3, <1>4

-----------------------------------------------------------------------------
(* The RTSP task *)

(* A reset that has not met the task finds it waiting.                     *)
LEMMA Uncrossed ==
  ASSUME TypeOK, task' = task, crossed' = ~At("wait") \/ crossed' = (crossed \/ ~At("wait"))
  PROVE  /\ crossed' \in BOOLEAN
         /\ ~crossed' => task'.pc = "wait"
<1>1. crossed \in BOOLEAN /\ At("wait") \in BOOLEAN
  BY DEF TypeOK, At
<1> QED
  BY <1>1 DEF At

(* The task and the estimate of a step that leaves both alone, or at most  *)
(* forgets that there is an estimate.                                      *)
LEMMA TaskUndisturbed ==
  ASSUME SmoothedInv, OneEstimate, task' = task, Calm' => Calm, filter'.have => filter.have,
         filter'.offset = filter.offset, filter'.previous = filter.previous
  PROVE  SmoothedInv' /\ OneEstimate'
BY DEF SmoothedInv, OneEstimate, Deviation, At

(* Nothing is said of a task that waits.                                   *)
LEMMA EstimateGone ==
  ASSUME Calm' => task'.pc = "wait", filter' = NoFilter
  PROVE  SmoothedInv' /\ OneEstimate'
BY DEF SmoothedInv, OneEstimate, At, NoFilter

(* What is left without an estimate.                                       *)
LEMMA NoFilterIsFilter ==
  /\ NoFilter \in [offset : Int, previous : Int, have : BOOLEAN, count : 0..MinSamples]
  /\ ~NoFilter.have /\ NoFilter.offset = NoFilter.previous
  /\ NoLock \in [locked : BOOLEAN, candidate : {Unset} \cup 0..StableTime]
  /\ ~NoLock.locked /\ NoLock.candidate = Unset
  /\ NoSync \in [of : Masters \cup {NoMaster}, seq : Sequence \cup {0},
                 delay : Delays \cup {0}, awaiting : BOOLEAN]
  /\ ~NoSync.awaiting
BY PtpClockAssumption DEF NoFilter, NoLock, NoSync

(* A request begins.                                                       *)
LEMMA Beginning ==
  ASSUME TypeOK, NEW pc \in {"idle", "unlock", "wipe", "clear", "forget"}, Begin(pc)
  PROVE  /\ request' \in [pc : {"idle", "unlock", "wipe", "clear", "forget"}, done : 0..MaxRequests]
         /\ request'.pc = pc /\ ~Busy
BY PtpClockAssumption DEF TypeOK, Begin

(* A request goes on.                                                      *)
LEMMA GoingOn ==
  ASSUME TypeOK, NEW from, NEW to \in {"idle", "unlock", "wipe", "clear", "forget"}, GoOn(from, to)
  PROVE  /\ request' \in [pc : {"idle", "unlock", "wipe", "clear", "forget"}, done : 0..MaxRequests]
         /\ request'.pc = to /\ request.pc = from
BY DEF TypeOK, GoOn

(* ptp_clock_set_master_clock_id, word by word.                            *)
THEOREM SetMasterKeeps == IInv /\ (SetMaster \/ Unlock \/ Wipe) => IInv'
<1> SUFFICES ASSUME IInv, SetMaster \/ Unlock \/ Wipe PROVE IInv'
  OBVIOUS
<1>1. /\ UNCHANGED <<net, age, task>>
      /\ crossed' \in BOOLEAN /\ (~crossed' => task'.pc = "wait")
  BY Uncrossed DEF SetMaster, Unlock, Wipe, IInv
<1>2. CASE SetMaster
  <2>1. UNCHANGED <<sync, filter, lock, source>> /\ expected' \in Masters
    BY <1>2 DEF SetMaster
  <2>2. request' \in [pc : {"idle", "unlock", "wipe", "clear", "forget"}, done : 0..MaxRequests]
          /\ request'.pc = "unlock"
    BY <1>2, Beginning DEF SetMaster, IInv
  <2>3. TypeOK'
    BY <1>1, <2>1, <2>2 DEF IInv, TypeOK, net
  <2>4. SmoothedInv' /\ OneEstimate'
    BY <1>1, <2>1, <2>2, TaskUndisturbed DEF IInv, Calm
  <2> QED
    BY <1>1, <2>1, <2>2, <2>3, <2>4 DEF IInv, WipeInv, AgeInv, MasterInv, Busy, At
<1>3. CASE Unlock
  <2>1. UNCHANGED <<expected, sync, filter, source>> /\ lock' = NoLock
    BY <1>3 DEF Unlock
  <2>2. request' \in [pc : {"idle", "unlock", "wipe", "clear", "forget"}, done : 0..MaxRequests]
          /\ request'.pc = "wipe"
    BY <1>3, GoingOn DEF Unlock, IInv
  <2>3. TypeOK'
    BY <1>1, <2>1, <2>2, NoFilterIsFilter DEF IInv, TypeOK, net
  <2>4. SmoothedInv' /\ OneEstimate'
    BY <1>1, <2>1, <2>2, TaskUndisturbed DEF IInv, Calm
  <2> QED
    BY <1>1, <2>1, <2>2, <2>3, <2>4, NoFilterIsFilter
       DEF IInv, WipeInv, AgeInv, MasterInv, Busy, At
<1>4. CASE Wipe
  <2>1. /\ UNCHANGED <<expected, lock>> /\ sync' = NoSync /\ source' = NoMaster
        /\ filter' = NoFilter /\ (~crossed' => ~crossed)
    BY <1>4 DEF Wipe, Wiped
  <2>2. /\ request' \in [pc : {"idle", "unlock", "wipe", "clear", "forget"}, done : 0..MaxRequests]
        /\ request'.pc = "idle" /\ request.pc = "wipe"
    BY <1>4, GoingOn DEF Wipe, IInv
  <2>3. TypeOK'
    BY <1>1, <2>1, <2>2, NoFilterIsFilter DEF IInv, TypeOK, net
  <2>4. SmoothedInv' /\ OneEstimate'
    BY <1>1, <2>1, EstimateGone DEF Calm
  <2>5. ~crossed' => ~lock'.locked
    BY <2>1, <2>2 DEF IInv, WipeInv
  <2>6. MasterInv' /\ AgeInv' /\ WipeInv'
    BY <1>1, <2>1, <2>2, <2>5, NoFilterIsFilter DEF WipeInv, AgeInv, MasterInv, At
  <2> QED
    BY <2>3, <2>4, <2>6 DEF IInv
<1> QED
  BY <1>2, <1>3, <1>4

(* ptp_clock_clear, word by word.                                          *)
THEOREM ClearKeeps == IInv /\ (Clear \/ ClearSamples \/ ForgetMaster) => IInv'
<1> SUFFICES ASSUME IInv, Clear \/ ClearSamples \/ ForgetMaster PROVE IInv'
  OBVIOUS
<1>1. /\ UNCHANGED <<net, task>>
      /\ crossed' \in BOOLEAN /\ (~crossed' => task'.pc = "wait")
  BY Uncrossed DEF Clear, ClearSamples, ForgetMaster, IInv
<1>2. CASE Clear
  <2>1. /\ UNCHANGED <<expected, sync, filter, source>> /\ lock' = NoLock
        /\ age' = [age EXCEPT !.sync = Unset]
    BY <1>2 DEF Clear
  <2>2. request' \in [pc : {"idle", "unlock", "wipe", "clear", "forget"}, done : 0..MaxRequests]
          /\ request'.pc = "clear"
    BY <1>2, Beginning DEF Clear, IInv
  <2>3. TypeOK'
    BY <1>1, <2>1, <2>2, NoFilterIsFilter DEF IInv, TypeOK, net
  <2>4. SmoothedInv' /\ OneEstimate'
    BY <1>1, <2>1, <2>2, TaskUndisturbed DEF IInv, Calm
  <2> QED
    BY <1>1, <2>1, <2>2, <2>3, <2>4, NoFilterIsFilter
       DEF IInv, WipeInv, AgeInv, MasterInv, Busy, At
<1>3. CASE ClearSamples
  <2>1. /\ UNCHANGED <<expected, lock>> /\ sync' = NoSync /\ source' = NoMaster
        /\ filter' = NoFilter /\ age' = [age EXCEPT !.mastership = Unset]
        /\ (~crossed' => ~crossed)
    BY <1>3 DEF ClearSamples
  <2>2. /\ request' \in [pc : {"idle", "unlock", "wipe", "clear", "forget"}, done : 0..MaxRequests]
        /\ request'.pc = "forget" /\ request.pc = "clear"
    BY <1>3, GoingOn DEF ClearSamples, IInv
  <2>3. age' \in [sync : {Unset} \cup 0..(Timeout + 1), mastership : {Unset} \cup 0..StartupTime]
          /\ age'.sync = age.sync
    BY <2>1 DEF IInv, TypeOK
  <2>4. TypeOK'
    BY <1>1, <2>1, <2>2, <2>3, NoFilterIsFilter DEF IInv, TypeOK, net
  <2>5. SmoothedInv' /\ OneEstimate'
    BY <1>1, <2>1, EstimateGone DEF Calm
  <2>6. MasterInv' /\ AgeInv' /\ WipeInv'
    BY <1>1, <2>1, <2>2, <2>3, NoFilterIsFilter DEF IInv, WipeInv, AgeInv, MasterInv, Busy, At
  <2> QED
    BY <2>4, <2>5, <2>6 DEF IInv
<1>4. CASE ForgetMaster
  <2>1. /\ UNCHANGED <<sync, filter, lock, age, source>> /\ expected' = NoMaster
        /\ (~crossed' => ~crossed)
    BY <1>4 DEF ForgetMaster
  <2>2. /\ request' \in [pc : {"idle", "unlock", "wipe", "clear", "forget"}, done : 0..MaxRequests]
        /\ request'.pc = "idle" /\ request.pc = "forget"
    BY <1>4, GoingOn DEF ForgetMaster, IInv
  <2>3. TypeOK'
    BY <1>1, <2>1, <2>2 DEF IInv, TypeOK, net
  <2>4. SmoothedInv' /\ OneEstimate'
    BY <1>1, <2>1, <2>2, TaskUndisturbed DEF IInv, Calm
  <2> QED
    BY <1>1, <2>1, <2>2, <2>3, <2>4, PtpClockAssumption
       DEF IInv, WipeInv, AgeInv, MasterInv, Busy, At
<1> QED
  BY <1>2, <1>3, <1>4

(* ptp_clock_notify_resume.                                                *)
THEOREM ResumeKeeps == IInv /\ NotifyResume => IInv'
<1> SUFFICES ASSUME IInv, NotifyResume PROVE IInv'
  OBVIOUS
<1>1. /\ UNCHANGED <<net, expected, sync, lock, task, source, crossed>>
      /\ filter' = [filter EXCEPT !.have = FALSE] /\ age' = [age EXCEPT !.mastership = Unset]
  BY DEF NotifyResume
<1>2. request' \in [pc : {"idle", "unlock", "wipe", "clear", "forget"}, done : 0..MaxRequests]
        /\ request'.pc = "idle" /\ request.pc = "idle"
  BY Beginning DEF NotifyResume, IInv, Busy
<1>3. /\ filter' \in [offset : Int, previous : Int, have : BOOLEAN, count : 0..MinSamples]
      /\ ~filter'.have /\ filter'.offset = filter.offset /\ filter'.previous = filter.previous
      /\ age' \in [sync : {Unset} \cup 0..(Timeout + 1), mastership : {Unset} \cup 0..StartupTime]
      /\ age'.sync = age.sync
  BY <1>1 DEF IInv, TypeOK
<1>4. TypeOK'
  BY <1>1, <1>2, <1>3 DEF IInv, TypeOK, net
<1>5. SmoothedInv' /\ OneEstimate'
  BY <1>1, <1>2, <1>3, TaskUndisturbed DEF IInv, Calm
<1> QED
  BY <1>1, <1>2, <1>3, <1>4, <1>5 DEF IInv, WipeInv, AgeInv, MasterInv, Busy, At

-----------------------------------------------------------------------------
(* Playback, time and the clocks of the masters.                           *)

(* The lock expires, time passes, a clock is stepped.                      *)
THEOREM RestKeeps == IInv /\ (IsLocked \/ Tick \/ StepClock) => IInv'
<1> SUFFICES ASSUME IInv, IsLocked \/ Tick \/ StepClock PROVE IInv'
  OBVIOUS
<1>1. UNCHANGED <<expected, sync, filter, task, request, source, crossed>>
  BY DEF IsLocked, Tick, StepClock, words
<1>2. SmoothedInv' /\ OneEstimate'
  BY <1>1, TaskUndisturbed DEF IInv, Calm
<1>3. CASE IsLocked
  <2>1. lock' = NoLock /\ UNCHANGED <<net, age>>
    BY <1>3 DEF IsLocked
  <2>2. TypeOK'
    BY <1>1, <2>1, NoFilterIsFilter DEF IInv, TypeOK, net
  <2> QED
    BY <1>1, <1>2, <2>1, <2>2, NoFilterIsFilter DEF IInv, WipeInv, AgeInv, MasterInv, Busy, At
<1>4. CASE Tick
  <2>1. /\ UNCHANGED net /\ request.pc = "idle" /\ task.pc = "wait"
        /\ age' = [sync |-> Older(age.sync, Timeout + 1), mastership |-> Older(age.mastership, StartupTime)]
        /\ lock' = [lock EXCEPT !.candidate = Older(@, StableTime)]
    BY <1>4 DEF Tick, At, Busy
  <2>2. \A top \in Nat : \A n \in {Unset} \cup 0..top :
          Older(n, top) \in {Unset} \cup 0..top /\ (n # Unset => Older(n, top) # Unset)
    BY DEF Older, Capped, Unset
  <2>3. Timeout + 1 \in Nat /\ StartupTime \in Nat /\ StableTime \in Nat
    BY PtpClockAssumption
  <2>4. /\ age' \in [sync : {Unset} \cup 0..(Timeout + 1), mastership : {Unset} \cup 0..StartupTime]
        /\ age.sync # Unset => age'.sync # Unset
    BY <2>1, <2>2, <2>3 DEF IInv, TypeOK
  <2>5. /\ lock' \in [locked : BOOLEAN, candidate : {Unset} \cup 0..StableTime]
        /\ lock'.locked = lock.locked
    BY <2>1, <2>2, <2>3 DEF IInv, TypeOK
  <2>6. TypeOK'
    BY <1>1, <2>1, <2>4, <2>5 DEF IInv, TypeOK, net
  <2> QED
    BY <1>1, <1>2, <2>1, <2>4, <2>5, <2>6 DEF IInv, WipeInv, AgeInv, MasterInv, Busy, At
<1>5. CASE StepClock
  <2>1. UNCHANGED <<lock, age>>
    BY <1>5 DEF StepClock, words
  <2>2. clock' \in [Masters -> Int] /\ jumps' \in 0..MaxJumps
    <3>1. PICK m \in Masters : clock' = [clock EXCEPT ![m] = @ + Jump[m]]
      BY <1>5 DEF StepClock
    <3>2. clock[m] + Jump[m] \in Int /\ clock \in [Masters -> Int]
      BY PtpClockAssumption DEF IInv, TypeOK
    <3> QED
      BY <1>5, <3>1, <3>2, PtpClockAssumption DEF StepClock, IInv, TypeOK
  <2>3. TypeOK'
    BY <1>1, <2>1, <2>2 DEF IInv, TypeOK
  <2> QED
    BY <1>1, <1>2, <2>1, <2>3 DEF IInv, WipeInv, AgeInv, MasterInv, Busy, At
<1> QED
  BY <1>3, <1>4, <1>5

-----------------------------------------------------------------------------
(* The theorems *)

(* No master is named at start-up, and there is no sample.                 *)
THEOREM InitHolds == Init => IInv
<1> SUFFICES ASSUME Init PROVE IInv
  OBVIOUS
<1>1. task.pc = "wait" /\ request.pc = "idle" /\ filter = NoFilter /\ lock = NoLock
        /\ expected = NoMaster /\ age.sync = Unset
  BY DEF Init, Waiting
<1>2. TypeOK
  <2>1. /\ clock \in [Masters -> Int] /\ jumps \in 0..MaxJumps
        /\ expected \in Masters \cup {NoMaster} /\ source \in Masters \cup {NoMaster}
        /\ crossed \in BOOLEAN /\ task = Waiting
    <3>1. MaxJumps \in Nat /\ Start \in [Masters -> Int]
      BY PtpClockAssumption
    <3>2. 0 \in 0..MaxJumps
      BY <3>1
    <3> QED
      BY <3>1, <3>2 DEF Init
  <2>2. /\ age \in [sync : {Unset} \cup 0..(Timeout + 1), mastership : {Unset} \cup 0..StartupTime]
        /\ request \in [pc : {"idle", "unlock", "wipe", "clear", "forget"}, done : 0..MaxRequests]
    BY PtpClockAssumption DEF Init
  <2>3. sync = NoSync /\ filter = NoFilter /\ lock = NoLock
    BY DEF Init
  <2> QED
    BY <2>1, <2>2, <2>3, NoFilterIsFilter DEF TypeOK
<1> QED
  BY <1>1, <1>2, NoFilterIsFilter, PtpClockAssumption
     DEF IInv, OneEstimate, SmoothedInv, WipeInv, AgeInv, MasterInv, At

(* Every step keeps the inductive invariant.                               *)
THEOREM StepKeeps == IInv /\ [Next]_vars => IInv'
<1> SUFFICES ASSUME IInv, [Next]_vars PROVE IInv'
  OBVIOUS
<1>1. CASE Task
  BY <1>1, ReceiveKeeps, MessageKeeps, CountKeeps, JudgeKeeps, SmoothKeeps, StoreKeeps, LockKeeps
     DEF Task, UpdateOffset
<1>2. CASE Request
  BY <1>2, SetMasterKeeps, ClearKeeps, ResumeKeeps DEF Request, GoesOn
<1>3. CASE IsLocked \/ Tick \/ StepClock
  BY <1>3, RestKeeps
<1>4. CASE UNCHANGED vars
  BY <1>4 DEF vars, net, words, IInv, TypeOK, OneEstimate, SmoothedInv, WipeInv, AgeInv, MasterInv,
              At, Busy, Calm, Deviation
<1> QED
  BY <1>1, <1>2, <1>3, <1>4 DEF Next

(* The inductive invariant holds for ever.                                 *)
THEOREM Invariance == Spec => []IInv
<1> QED
  BY InitHolds, StepKeeps, PTL DEF Spec

(* Every word keeps its type, whatever messages come and requests cross.   *)
THEOREM TypeCorrect == Spec => []TypeOK
<1>1. IInv => TypeOK
  BY DEF IInv
<1> QED
  BY Invariance, <1>1, PTL

(* Offset and lock are of the master that was named, and a lock has the    *)
(* time of its last sample, unless the last reset met the task.            *)
THEOREM EstimateIsOfMaster == Spec => []OffsetOfMaster
<1>1. IInv => OffsetOfMaster
  BY DEF IInv, MasterInv, AgeInv, OffsetOfMaster, Busy
<1> QED
  BY Invariance, <1>1, PTL

(* A sample that is kept does not count against the lock, although the two *)
(* thresholds are equal, unless a reset comes in between.                  *)
THEOREM KeptIsStable == Spec => []KeptSampleIsStable
<1>1. IInv => KeptSampleIsStable
  BY DEF IInv, SmoothedInv, KeptSampleIsStable, Busy, Calm
<1> QED
  BY Invariance, <1>1, PTL

(* Network delay only makes an offset smaller, and no sample pushes the    *)
(* estimate beyond itself: Publish leaves it between the two.              *)
NoOvershoot ==
  [][Publish /\ filter.have /\ Calm => Between(filter.offset, filter'.offset, task.value)]_vars

(* The estimate never overshoots a sample.                                 *)
THEOREM EstimateIsBetween == Spec => NoOvershoot
<1>1. IInv /\ Publish /\ filter.have /\ Calm => Between(filter.offset, filter'.offset, task.value)
  BY DEF IInv, TypeOK, SmoothedInv, Publish
<1>2. IInv /\ [Next]_vars
        => [Publish /\ filter.have /\ Calm
              => Between(filter.offset, filter'.offset, task.value)]_vars
  BY <1>1
<1> QED
  BY Invariance, <1>2, PTL DEF Spec, NoOvershoot

(* No step of the PTP task takes a lock away, unless a reset crosses it:   *)
(* jitter never costs the lock, and the branch "LOST LOCK" of              *)
(* update_offset is not reached.                                           *)
LockSurvivesJitter == [][Task /\ Calm /\ lock.locked => lock'.locked]_vars

(* A lock is lost by a reset and by silence only.                          *)
THEOREM JitterKeepsLock == Spec => LockSurvivesJitter
<1>1. IInv /\ Task /\ Calm /\ lock.locked => lock'.locked
  <2> SUFFICES ASSUME IInv, Task, Calm, lock.locked PROVE lock'.locked
    OBVIOUS
  <2>1. CASE UNCHANGED lock
    BY <2>1
  <2>2. CASE KeepLock
    <3>1. Enough => Stable
      BY <2>2 DEF KeepLock, IInv, SmoothedInv, Stable
    <3> QED
      BY <2>2, <3>1 DEF KeepLock
  <2>3. CASE LockCandidate \/ Declare
    BY <2>3 DEF LockCandidate, Declare
  <2> QED
    BY <2>1, <2>2, <2>3 DEF Task, UpdateOffset, Receive, ProcessSync, ProcessOneStep, ProcessFollowUp,
                            Count, Outlier, Keep, SmoothSample, Store, Publish, Lock, words
<1>2. IInv /\ [Next]_vars => [Task /\ Calm /\ lock.locked => lock'.locked]_vars
  BY <1>1
<1> QED
  BY Invariance, <1>2, PTL DEF Spec, LockSurvivesJitter
=============================================================================
