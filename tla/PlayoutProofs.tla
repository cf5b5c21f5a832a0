--------------------------- MODULE PlayoutProofs ----------------------------
(***************************************************************************)
(* Theorems about Playout, for any timestamps, tracks, bounds and number   *)
(* of flushes, anchors, pauses and steps of the clock, whatever they       *)
(* interleave with: of a track that was flushed at most the frame in       *)
(* flight is still played, and while the schedule stands frames are played *)
(* on it.                                                                  *)
(***************************************************************************)
EXTENDS Playout, FiniteSetTheorems, WellFoundedInduction, TLAPS

(* The types of the records TypeOK says only a part of.                    *)
RecordsOK ==
  /\ segment \in [start : Starts, sent : SUBSET (0 .. SegmentSize - 1)]
  /\ reader \in [pc : {"begin", "fetch", "judge", "store", "commit", "write"},
                 ts : AllTimestamps, held : BOOLEAN, dropped : BOOLEAN,
                 early : Int, dma : Int]

InFlight == reader.pc \in {"judge", "store", "commit"}

(* One frame at most is outside the buffer: a frame is taken from there    *)
(* only when none is pending.                                              *)
OneOutside == InFlight /\ ~reader.held => timing.pending = None

(* The buffer holds frames of the track only, and once an old frame was    *)
(* played neither the pending frame nor the one in flight is old.          *)
OldOnlyOutside ==
  /\ \A t \in buffer : OfSegment(t)
  /\ old > 0 => /\ InFlight => OfSegment(reader.ts)
                /\ timing.pending # None => OfSegment(timing.pending)

IInv == TypeOK /\ RecordsOK /\ OneOutside /\ OldOnlyOutside /\ OneOldFrame

-----------------------------------------------------------------------------
(* Timestamps *)

(* The constants.                                                          *)
LEMMA Sizes ==
  /\ TsMod \in Nat \ {0} /\ SegmentSize \in Nat /\ SegmentSize <= TsMod \div 2
  /\ TsMod \div 2 \in Nat /\ 2 * (TsMod \div 2) <= TsMod
  /\ Starts \subseteq AllTimestamps /\ First \in Starts
  /\ None \notin AllTimestamps /\ 0 \in AllTimestamps
  /\ {Threshold, Target, IslandGap, MaxEarly, ReadyWait, MaxLate, MaxRequests} \subseteq Nat
  /\ Period \in Nat /\ DmaSize \in Nat /\ ClockSteps \subseteq Int
  /\ Leads \subseteq Nat /\ MaxLead \in Leads /\ \A l \in Leads : l <= MaxLead
<1>1. TsMod \in Nat /\ TsMod >= 2 /\ SegmentSize \in Nat /\ 2 * SegmentSize <= TsMod
  BY TsModAssumption, PlayoutAssumption
<1> DEFINE h == TsMod \div 2
<1>2. h \in Int /\ TsMod % 2 \in 0 .. 1 /\ TsMod = 2 * h + (TsMod % 2)
  BY <1>1
<1> HIDE DEF h
<1>3. h \in Nat /\ SegmentSize <= h /\ 2 * h <= TsMod
  BY <1>1, <1>2
<1>4. MaxLead \in Leads /\ \A l \in Leads : l <= MaxLead
  BY PlayoutAssumption DEF MaxLead
<1>5. None \notin AllTimestamps /\ 0 \in AllTimestamps
  BY <1>1 DEF None, AllTimestamps
<1> QED
  BY <1>1, <1>3, <1>4, <1>5, PlayoutAssumption DEF h

(* A remainder, of a number at most one turn away.                         *)
LEMMA Remainder ==
  ASSUME NEW m \in Nat \ {0}, NEW n \in Int
  PROVE  /\ n % m \in 0 .. m - 1
         /\ n \in 0 .. m - 1 => n % m = n
         /\ n \in -m .. -1 => n % m = n + m
         /\ n \in m .. 2 * m - 1 => n % m = n - m
<1>1. n \div m \in Int /\ n % m \in 0..(m - 1) /\ n = m * (n \div m) + (n % m)
  OBVIOUS
<1> QED
  BY <1>1

(* The signed difference, by cases.                                        *)
LEMMA CmpCases ==
  ASSUME NEW a \in AllTimestamps, NEW b \in AllTimestamps
  PROVE  LET d == IF a >= b THEN a - b ELSE a - b + TsMod
         IN  /\ TsCmp(a, b) = IF d >= TsMod \div 2 THEN d - TsMod ELSE d
             /\ TsCmp(a, b) \in Int
<1> DEFINE n == a - b
           r == n % TsMod
<1>1. TsMod \in Nat \ {0} /\ a \in 0 .. TsMod - 1 /\ b \in 0 .. TsMod - 1
  BY Sizes DEF AllTimestamps
<1>2. n \in Int /\ (a >= b => n \in 0 .. TsMod - 1) /\ (~(a >= b) => n \in -TsMod .. -1)
  BY <1>1
<1>3. TsCmp(a, b) = IF r >= TsMod \div 2 THEN r - TsMod ELSE r
  BY DEF TsCmp
<1> HIDE DEF n
<1>4. /\ r \in 0 .. TsMod - 1
      /\ n \in 0 .. TsMod - 1 => r = n
      /\ n \in -TsMod .. -1 => r = n + TsMod
  BY <1>1, <1>2, Remainder
<1> HIDE DEF r
<1>5. r = IF a >= b THEN n ELSE n + TsMod
  BY <1>2, <1>4
<1>6. TsCmp(a, b) \in Int
  BY <1>1, <1>3, <1>4
<1> QED
  BY <1>1, <1>3, <1>5, <1>6 DEF n

(* A sum is a timestamp.                                                   *)
LEMMA AddType ==
  ASSUME NEW a \in AllTimestamps, NEW n \in Nat
  PROVE  TsAdd(a, n) \in AllTimestamps
<1>1. a + n \in Int /\ TsMod \in Nat \ {0}
  BY Sizes DEF AllTimestamps
<1>2. (a + n) % TsMod \in 0 .. TsMod - 1
  BY <1>1, Remainder
<1> QED
  BY <1>2 DEF TsAdd, AllTimestamps

(* The k-th frame of a track is k after its first.                         *)
LEMMA FrameOfTrack ==
  ASSUME NEW s \in AllTimestamps, NEW k \in 0 .. SegmentSize - 1
  PROVE  TsAdd(s, k) \in AllTimestamps /\ TsCmp(TsAdd(s, k), s) = k
<1>1. TsMod \in Nat \ {0} /\ s \in 0 .. TsMod - 1 /\ k \in 0 .. TsMod - 1 /\ k \in Nat
      /\ k < TsMod \div 2 /\ TsMod \div 2 \in Nat /\ 2 * (TsMod \div 2) <= TsMod
  BY Sizes DEF AllTimestamps
<1> DEFINE t == s + k
           r == t % TsMod
<1>2. t \in Int /\ (t < TsMod => t \in 0 .. TsMod - 1)
      /\ (~(t < TsMod) => t \in TsMod .. 2 * TsMod - 1)
  BY <1>1
<1> HIDE DEF t
<1>3. /\ r \in 0 .. TsMod - 1
      /\ t \in 0 .. TsMod - 1 => r = t
      /\ t \in TsMod .. 2 * TsMod - 1 => r = t - TsMod
  BY <1>1, <1>2, Remainder
<1>4. TsAdd(s, k) = r
  BY DEF TsAdd, t
<1> HIDE DEF r
<1>5. r = IF s + k < TsMod THEN s + k ELSE s + k - TsMod
  BY <1>1, <1>2, <1>3 DEF t
<1>6. r \in AllTimestamps
  BY <1>3 DEF AllTimestamps
<1> DEFINE d == IF r >= s THEN r - s ELSE r - s + TsMod
<1>7. TsCmp(r, s) = IF d >= TsMod \div 2 THEN d - TsMod ELSE d
  BY <1>6, CmpCases
<1>8. d = k
  BY <1>1, <1>3, <1>5
<1> HIDE DEF d
<1>9. TsCmp(r, s) = k
  BY <1>1, <1>7, <1>8
<1> QED
  BY <1>4, <1>6, <1>9

(* Two frames of a track compare as their distances from its first frame.  *)
LEMMA CmpInTrack ==
  ASSUME NEW s \in AllTimestamps, NEW a \in AllTimestamps, NEW b \in AllTimestamps,
         TsCmp(a, s) \in 0 .. SegmentSize - 1, TsCmp(b, s) \in 0 .. SegmentSize - 1
  PROVE  TsCmp(a, b) = TsCmp(a, s) - TsCmp(b, s)
<1> DEFINE D(x, y) == IF x >= y THEN x - y ELSE x - y + TsMod
           C(x, y) == IF D(x, y) >= TsMod \div 2 THEN D(x, y) - TsMod ELSE D(x, y)
<1>1. TsCmp(a, s) = C(a, s) /\ TsCmp(b, s) = C(b, s) /\ TsCmp(a, b) = C(a, b)
  BY CmpCases
<1>2. TsMod \in Nat \ {0} /\ s \in 0 .. TsMod - 1 /\ a \in 0 .. TsMod - 1 /\ b \in 0 .. TsMod - 1
      /\ SegmentSize \in Nat /\ SegmentSize <= TsMod \div 2
      /\ TsMod \div 2 \in Nat /\ 2 * (TsMod \div 2) <= TsMod
  BY Sizes DEF AllTimestamps
<1> DEFINE h == TsMod \div 2
<1> HIDE DEF h
<1>3. /\ TsCmp(a, s) = IF D(a, s) >= h THEN D(a, s) - TsMod ELSE D(a, s)
      /\ TsCmp(b, s) = IF D(b, s) >= h THEN D(b, s) - TsMod ELSE D(b, s)
      /\ TsCmp(a, b) = IF D(a, b) >= h THEN D(a, b) - TsMod ELSE D(a, b)
      /\ h \in Nat /\ 2 * h <= TsMod /\ SegmentSize <= h
  BY <1>1, <1>2 DEF h
<1>4. TsCmp(a, s) = D(a, s) /\ TsCmp(b, s) = D(b, s)
  BY <1>2, <1>3
<1>5. D(a, b) = IF D(a, s) >= D(b, s) THEN D(a, s) - D(b, s) ELSE D(a, s) - D(b, s) + TsMod
  BY <1>2, <1>3, <1>4
<1>6. D(a, s) \in 0 .. SegmentSize - 1 /\ D(b, s) \in 0 .. SegmentSize - 1
  BY <1>4
<1> HIDE DEF D
<1> QED
  BY <1>2, <1>3, <1>4, <1>5, <1>6

(* A set of natural numbers has a least member: of the finite sets 0 .. x  *)
(* one has no other below it.                                              *)
LEMMA HasLeast ==
  ASSUME NEW S, S \subseteq Nat, S # {}
  PROVE  \E x \in S : \A y \in S : x <= y
<1> DEFINE UpTo(x) == 0 .. x
           T == {UpTo(x) : x \in S}
           R == StrictSubsetOrdering(Nat)
<1>1. \A x \in S : UpTo(x) \in FiniteSubsetsOf(Nat)
  <2> SUFFICES ASSUME NEW x \in S PROVE UpTo(x) \in FiniteSubsetsOf(Nat)
    OBVIOUS
  <2>1. x \in Nat /\ 0 \in Int
    OBVIOUS
  <2>2. IsFiniteSet(0 .. x)
    BY <2>1, FS_Interval
  <2>3. 0 .. x \in SUBSET Nat
    BY <2>1
  <2> QED
    BY <2>2, <2>3 DEF FiniteSubsetsOf
<1>2. T \subseteq FiniteSubsetsOf(Nat) /\ T # {}
  BY <1>1
<1>3. IsWellFoundedOn(R, FiniteSubsetsOf(Nat))
  BY FS_StrictSubsetOrderingWellFounded
<1> HIDE DEF T, R
<1>4. PICK s \in T : \A t \in T : ~ (<<t, s>> \in R)
  BY <1>2, <1>3, WFMin
<1>5. PICK x \in S : s = UpTo(x)
  BY <1>4 DEF T
<1>6. \A y \in S : x <= y
  <2> SUFFICES ASSUME NEW y \in S, y < x PROVE FALSE
    OBVIOUS
  <2>1. x \in Nat /\ y \in Nat
    OBVIOUS
  <2>2. UpTo(y) \subseteq UpTo(x) /\ x \in UpTo(x) /\ x \notin UpTo(y)
    BY <2>1, y < x
  <2>3. UpTo(y) \in SUBSET Nat /\ UpTo(x) \in SUBSET Nat
    BY <2>1
  <2>4. UpTo(y) \in T
    BY DEF T
  <2> HIDE DEF UpTo
  <2>5. <<UpTo(y), UpTo(x)>> \in R
    BY <2>2, <2>3 DEF R, StrictSubsetOrdering
  <2> QED
    BY <2>4, <2>5, <1>4, <1>5
<1> QED
  BY <1>6

(* The buffer of one track has an oldest frame.                            *)
LEMMA OldestInBuffer ==
  ASSUME TypeOK, OldOnlyOutside, buffer # {}
  PROVE  Oldest \in buffer
<1> DEFINE s == segment.start
           dist(t) == TsCmp(t, s)
           S == {dist(t) : t \in buffer}
<1>1. s \in AllTimestamps /\ \A t \in buffer : t \in AllTimestamps /\ dist(t) \in 0 .. SegmentSize - 1
  BY Sizes DEF TypeOK, OldOnlyOutside, OfSegment
<1>2. S \subseteq Nat /\ S # {}
  BY <1>1, Sizes
<1> HIDE DEF S
<1>3. PICK m \in S : \A n \in S : m <= n
  BY <1>2, HasLeast
<1>4. PICK t \in buffer : m = dist(t)
  BY DEF S
<1>5. \A u \in buffer : dist(u) \in S
  BY DEF S
<1>6. ASSUME NEW u \in buffer PROVE TsCmp(t, u) <= 0
  <2>1. TsCmp(t, u) = dist(t) - dist(u)
    BY <1>1, CmpInTrack
  <2>2. dist(t) <= dist(u) /\ dist(t) \in Int /\ dist(u) \in Int
    BY <1>1, <1>3, <1>4, <1>5
  <2> HIDE DEF dist
  <2> QED
    BY <2>1, <2>2
<1> QED
  BY <1>6 DEF Oldest

-----------------------------------------------------------------------------
(* Types *)

(* What the steps store in the timing and in the reader has its type.      *)
LEMMA StoredType ==
  ASSUME TypeOK, RecordsOK
  PROVE  /\ None \in MaybeTs /\ AllTimestamps \subseteq MaybeTs
         /\ 0 \in 0 .. Unset /\ Unset \in 0 .. Unset /\ ReadyWait \in 0 .. Unset /\ 0 \in 0 .. MaxEarly
         /\ NextExpected(reader.ts) \in MaybeTs
         /\ Early(reader.ts) \in Int /\ dma \in Int
         /\ IdleReader \in [pc : {"begin", "fetch", "judge", "store", "commit", "write"},
                             ts : AllTimestamps, held : BOOLEAN, dropped : BOOLEAN,
                             early : Int, dma : Int]
<1>1. None \in MaybeTs /\ AllTimestamps \subseteq MaybeTs
  BY DEF MaybeTs
<1>2. 0 \in 0 .. Unset /\ Unset \in 0 .. Unset /\ ReadyWait \in 0 .. Unset /\ 0 \in 0 .. MaxEarly
  BY Sizes DEF Unset
<1>3. NextExpected(reader.ts) \in MaybeTs
  BY <1>1, AddType DEF NextExpected, RecordsOK, TypeOK
<1>4. Early(reader.ts) \in Int
  <2>1. TsCmp(reader.ts, timing.anchorRtp) \in Int
    BY CmpCases DEF RecordsOK, TypeOK
  <2>2. lead \in Int /\ Period \in Int
    BY Sizes DEF TypeOK
  <2> QED
    BY <2>1, <2>2 DEF Early
<1>5. dma \in Int
  BY Sizes DEF TypeOK
<1> QED
  BY <1>1, <1>2, <1>3, <1>4, <1>5, Sizes DEF IdleReader

(* The type invariant holds at first.                                      *)
LEMMA InitType == Init => TypeOK /\ RecordsOK
<1> SUFFICES ASSUME Init PROVE TypeOK /\ RecordsOK
  OBVIOUS
<1> USE DEF Init
<1>1. segment \in [start : Starts, sent : SUBSET (0 .. SegmentSize - 1)]
  BY Sizes
<1>2. reader \in [pc : {"begin", "fetch", "judge", "store", "commit", "write"},
                  ts : AllTimestamps, held : BOOLEAN, dropped : BOOLEAN, early : Int, dma : Int]
  BY Sizes DEF IdleReader
<1>3. timing \in [anchorValid : BOOLEAN, anchorRtp : AllTimestamps, pending : MaybeTs,
                  expected : MaybeTs, started : BOOLEAN, quick : BOOLEAN,
                  playing : BOOLEAN, until : MaybeTs, early : 0 .. MaxEarly, ready : 0 .. Unset]
  <2>1. None \in MaybeTs /\ First \in AllTimestamps /\ 0 \in 0 .. MaxEarly /\ Unset \in 0 .. Unset
    BY Sizes DEF MaybeTs, Unset
  <2> QED
    BY <2>1, Sizes DEF FreshTiming
<1>4. lead \in -MaxLate .. MaxLead
  BY Sizes
<1>5. dma \in 0 .. DmaSize /\ requests \in 0 .. MaxRequests /\ old \in 0 .. 2
  BY Sizes
<1>6. /\ reader.pc \in {"begin", "fetch", "judge", "store", "commit", "write"}
      /\ segment.start \in Starts /\ segment.sent \subseteq 0 .. SegmentSize - 1
      /\ buffer \subseteq AllTimestamps /\ flushing \in BOOLEAN /\ moved \in BOOLEAN
      /\ rtsp \in {"idle", "reset", "quick", "anchor"}
  BY <1>1, <1>2
<1> QED
  BY <1>1, <1>2, <1>3, <1>4, <1>5, <1>6 DEF TypeOK, RecordsOK

TimingType ==
  [anchorValid : BOOLEAN, anchorRtp : AllTimestamps, pending : MaybeTs,
   expected : MaybeTs, started : BOOLEAN, quick : BOOLEAN,
   playing : BOOLEAN, until : MaybeTs, early : 0 .. MaxEarly, ready : 0 .. Unset]
ReaderType ==
  [pc : {"begin", "fetch", "judge", "store", "commit", "write"}, ts : AllTimestamps,
   held : BOOLEAN, dropped : BOOLEAN, early : Int, dma : Int]

(* A step of the playback task that changes the timing and itself.         *)
LEMMA ReaderKeepsTypes ==
  ASSUME TypeOK, RecordsOK, timing' \in TimingType, reader' \in ReaderType,
         buffer' \subseteq AllTimestamps, old' \in 0 .. 2,
         UNCHANGED <<segment, requests, lead, dma, rtsp, moved, flushing>>
  PROVE  TypeOK' /\ RecordsOK'
BY DEF TypeOK, RecordsOK, TimingType, ReaderType

(* Every step of the playback task keeps the types.                        *)
LEMMA ReadType ==
  ASSUME TypeOK, RecordsOK, OldOnlyOutside, Read
  PROVE  TypeOK' /\ RecordsOK'
<1>1. timing \in TimingType /\ reader \in ReaderType /\ buffer \subseteq AllTimestamps
      /\ old \in 0 .. 2 /\ dma \in 0 .. DmaSize
  BY DEF TypeOK, RecordsOK, TimingType, ReaderType
<1>2. /\ None \in MaybeTs /\ AllTimestamps \subseteq MaybeTs
      /\ 0 \in 0 .. Unset /\ Unset \in 0 .. Unset /\ ReadyWait \in 0 .. Unset /\ 0 \in 0 .. MaxEarly
      /\ NextExpected(reader.ts) \in MaybeTs
      /\ Early(reader.ts) \in Int /\ dma \in Int /\ IdleReader \in ReaderType
  BY StoredType DEF ReaderType
<1>3. Released \in TimingType
  BY <1>1, <1>2 DEF Released, TimingType
<1>4. ASSUME Finish PROVE reader' \in ReaderType
  BY <1>2, <1>4 DEF Finish, ReaderType
<1>5. ASSUME NEW l \in {"fetch", "store"}, ReaderAt(l) PROVE reader' \in ReaderType
  BY <1>1, <1>5 DEF ReaderAt, ReaderType
<1> DEFINE At(e) == [reader EXCEPT !.pc = "commit", !.early = e, !.dma = dma]
<1>5a. ASSUME NEW e \in Int PROVE At(e) \in ReaderType
  <2>1. dma \in Int /\ "commit" \in {"begin", "fetch", "judge", "store", "commit", "write"}
    BY <1>2
  <2>2. reader \in ReaderType
    BY <1>1
  <2> QED
    BY <2>1, <2>2 DEF ReaderType
<1> HIDE DEF At
<1>6. CASE FlushOutput
  <2>1. dma' \in 0 .. DmaSize /\ UNCHANGED reader
    BY <1>6, Sizes DEF FlushOutput
  <2>2. moved' \in BOOLEAN
    BY <1>6 DEF FlushOutput
  <2> QED
    BY <1>6, <2>1, <2>2 DEF FlushOutput, TypeOK, RecordsOK
<1>7. CASE NotReady
  <2>1. timing' \in TimingType
    <3>1. [timing EXCEPT !.ready = ReadyWait] \in TimingType
      BY <1>1, <1>2 DEF TimingType
    <3> QED
      BY <1>1, <1>7, <3>1 DEF NotReady
  <2> QED
    BY <1>1, <1>4, <1>7, <2>1, ReaderKeepsTypes DEF NotReady
<1>8. CASE Begin
  <2>1. reader' \in ReaderType
    BY <1>2, <1>8 DEF Begin, ReaderType
  <2> QED
    BY <1>1, <1>8, <2>1, ReaderKeepsTypes DEF Begin
<1>9. CASE Fetch
  <2>1. /\ reader' \in ReaderType /\ buffer' \subseteq AllTimestamps
    <3>1. CASE timing.pending # None
      <4>1. timing.pending \in AllTimestamps
        BY <1>1, <3>1 DEF TimingType, MaybeTs
      <4> QED
        BY <1>1, <1>9, <3>1, <4>1 DEF Fetch, ReaderType
    <3>2. CASE timing.pending = None /\ buffer = {}
      BY <1>1, <1>4, <1>9, <3>2 DEF Fetch
    <3>3. CASE timing.pending = None /\ buffer # {}
      <4>1. Oldest \in AllTimestamps
        BY <1>1, <3>3, OldestInBuffer
      <4> QED
        BY <1>1, <1>9, <3>3, <4>1 DEF Fetch, ReaderType
    <3> QED
      BY <3>1, <3>2, <3>3
  <2> QED
    BY <1>1, <1>9, <2>1, ReaderKeepsTypes DEF Fetch
<1>10. CASE DeferredFlush
  <2>1. timing' \in TimingType
    BY <1>2, <1>3, <1>10 DEF DeferredFlush, TimingType
  <2> QED
    BY <1>1, <1>4, <1>10, <2>1, ReaderKeepsTypes DEF DeferredFlush
<1>11. CASE SkipIsland
  BY <1>1, <1>3, <1>4, <1>5, <1>11, ReaderKeepsTypes DEF SkipIsland
<1>12. CASE Hold
  <2>1. Counted \in Nat
    BY <1>1, Sizes DEF Counted, TimingType
  <2>2. CASE Counted > MaxEarly
    <3>1. timing' \in TimingType
      BY <1>1, <1>2, <1>12, <2>2 DEF Hold, TimingType
    <3>2. reader' = At(0)
      BY <1>12, <2>2 DEF Hold, At
    <3>3. reader' \in ReaderType
      BY <1>5a, <3>2
    <3> QED
      BY <1>1, <1>12, <3>1, <3>3, ReaderKeepsTypes DEF Hold
  <2>3. CASE ~(Counted > MaxEarly)
    <3>1. Counted \in 0 .. MaxEarly
      BY <2>1, <2>3, Sizes
    <3>2. timing' \in TimingType
      BY <1>1, <1>12, <2>3, <3>1 DEF Hold, TimingType
    <3>3. reader' \in ReaderType
      BY <1>4, <1>5, <1>12, <2>3 DEF Hold
    <3> QED
      BY <1>1, <1>12, <3>2, <3>3, ReaderKeepsTypes DEF Hold
  <2> QED
    BY <2>2, <2>3
<1>13. CASE Store
  <2>1. timing' \in TimingType
    BY <1>1, <1>2, <1>13 DEF Store, TimingType, ReaderType
  <2> QED
    BY <1>1, <1>4, <1>13, <2>1, ReaderKeepsTypes DEF Store
<1>14. CASE DropLate
  <2>1. timing' \in TimingType
    BY <1>2, <1>3, <1>14 DEF DropLate, TimingType
  <2>2. reader' \in ReaderType
    BY <1>1, <1>4, <1>14 DEF DropLate, ReaderType
  <2> QED
    BY <1>1, <1>14, <2>1, <2>2, ReaderKeepsTypes DEF DropLate
<1>15. CASE Play
  <2>1. timing' \in TimingType
    BY <1>1, <1>2, <1>15 DEF Play, TimingType
  <2>2. reader' = At(IF timing.anchorValid THEN Early(reader.ts) ELSE 0)
    BY <1>15 DEF Play, At
  <2>3. reader' \in ReaderType
    BY <1>2, <1>5a, <2>2
  <2> QED
    BY <1>1, <1>15, <2>1, <2>3, ReaderKeepsTypes DEF Play
<1>16. CASE Commit
  <2>1. timing' \in TimingType
    BY <1>2, <1>3, <1>16 DEF Commit, TimingType
  <2>2. old' \in 0 .. 2
    BY <1>1, <1>16 DEF Commit
  <2> QED
    BY <1>1, <1>4, <1>16, <2>1, <2>2, ReaderKeepsTypes DEF Commit
<1>17. CASE Write
  <2>1. dma' \in 0 .. DmaSize
    BY <1>1, <1>17, Sizes DEF Write
  <2>2. reader' \in ReaderType
    BY <1>2, <1>17 DEF Write
  <2> QED
    BY <1>17, <2>1, <2>2 DEF Write, TypeOK, RecordsOK, ReaderType
<1> QED
  BY <1>6, <1>7, <1>8, <1>9, <1>10, <1>11, <1>12, <1>13, <1>14, <1>15, <1>16, <1>17 DEF Read

(* A step of the clock, the network or the RTSP task.                      *)
LEMMA OtherKeepsTypes ==
  ASSUME TypeOK, RecordsOK, timing' \in TimingType, UNCHANGED reader,
         segment' \in [start : Starts, sent : SUBSET (0 .. SegmentSize - 1)],
         requests' \in 0 .. MaxRequests, buffer' \subseteq AllTimestamps,
         lead' \in -MaxLate .. MaxLead, dma' \in 0 .. DmaSize,
         rtsp' \in {"idle", "reset", "quick", "anchor"},
         moved' \in BOOLEAN, flushing' \in BOOLEAN, old' \in 0 .. 2
  PROVE  TypeOK' /\ RecordsOK'
BY DEF TypeOK, RecordsOK, TimingType

(* Every step of the clock, the network and the RTSP task keeps the types. *)
LEMMA OtherType ==
  ASSUME TypeOK, RecordsOK, Tick \/ Arrive \/ ClockMoves \/ Rtsp
  PROVE  TypeOK' /\ RecordsOK' /\ UNCHANGED reader
<1>1. /\ timing \in TimingType /\ buffer \subseteq AllTimestamps /\ requests \in 0 .. MaxRequests
      /\ segment \in [start : Starts, sent : SUBSET (0 .. SegmentSize - 1)]
      /\ lead \in -MaxLate .. MaxLead /\ dma \in 0 .. DmaSize /\ old \in 0 .. 2
      /\ rtsp \in {"idle", "reset", "quick", "anchor"} /\ moved \in BOOLEAN /\ flushing \in BOOLEAN
  BY DEF TypeOK, RecordsOK, TimingType
<1>2. /\ None \in MaybeTs /\ AllTimestamps \subseteq MaybeTs
      /\ Unset \in 0 .. Unset /\ 0 \in 0 .. MaxEarly
  BY StoredType
<1>3. requests < MaxRequests => requests + 1 \in 0 .. MaxRequests
  BY <1>1, Sizes
<1>4. CASE Tick
  <2>1. dma' \in 0 .. DmaSize
    BY <1>1, <1>4, Sizes DEF Tick
  <2>2. lead' \in -MaxLate .. MaxLead
    <3>1. lead > -MaxLate => lead - 1 \in -MaxLate .. MaxLead
      BY <1>1, Sizes
    <3> QED
      BY <1>1, <1>4, <3>1 DEF Tick
  <2>3. timing' \in TimingType
    <3>1. timing.ready \in 0 .. Unset /\ ReadyWait \in Nat /\ Unset = ReadyWait + 1
      BY <1>1, Sizes DEF TimingType, Unset
    <3>2. (IF timing.ready \in 1 .. ReadyWait THEN timing.ready - 1 ELSE timing.ready) \in 0 .. Unset
      BY <3>1
    <3> QED
      BY <1>1, <1>4, <3>2 DEF Tick, TimingType
  <2> QED
    BY <1>1, <1>4, <2>1, <2>2, <2>3, OtherKeepsTypes DEF Tick
<1>5. CASE Arrive
  <2>1. PICK k \in Missing : /\ segment' = [segment EXCEPT !.sent = @ \cup {k}]
                             /\ buffer' = buffer \cup {TsAdd(segment.start, k)}
    BY <1>5 DEF Arrive
  <2>2. k \in 0 .. SegmentSize - 1 /\ segment.start \in AllTimestamps
    BY <1>1, Sizes DEF Missing
  <2>3. buffer' \subseteq AllTimestamps
    BY <1>1, <2>1, <2>2, FrameOfTrack
  <2>4. segment' \in [start : Starts, sent : SUBSET (0 .. SegmentSize - 1)]
    BY <1>1, <2>1, <2>2
  <2> QED
    BY <1>1, <1>5, <2>3, <2>4, OtherKeepsTypes DEF Arrive
<1>6. CASE ClockMoves
  <2>1. lead' \in -MaxLate .. MaxLead
    BY <1>6 DEF ClockMoves
  <2> QED
    BY <1>1, <1>3, <1>6, <2>1, OtherKeepsTypes DEF ClockMoves
<1>7. CASE FlushBuffer
  <2>1. segment' \in [start : Starts, sent : SUBSET (0 .. SegmentSize - 1)]
    BY <1>7 DEF FlushBuffer
  <2>2. requests' \in 0 .. MaxRequests /\ rtsp' = "reset" /\ old' = 0 /\ buffer' = {}
        /\ UNCHANGED <<timing, lead, dma, reader, moved, flushing>>
    BY <1>3, <1>7 DEF FlushBuffer, Request
  <2> QED
    BY <1>1, <2>1, <2>2, OtherKeepsTypes
<1>8. CASE ResetTiming
  <2>1. timing' \in TimingType
    <3>1. FreshTiming \in TimingType
      BY <1>2, Sizes DEF FreshTiming, TimingType
    <3>2. timing.anchorRtp \in AllTimestamps /\ timing.playing \in BOOLEAN
      BY <1>1 DEF TimingType
    <3> QED
      BY <1>8, <3>1, <3>2 DEF ResetTiming, TimingType
  <2>2. moved' \in BOOLEAN
    BY <1>8 DEF ResetTiming, InRead
  <2>3. rtsp' = "quick" /\ UNCHANGED <<segment, requests, buffer, lead, dma, reader, old, flushing>>
    BY <1>8 DEF ResetTiming
  <2> QED
    BY <1>1, <2>1, <2>2, <2>3, OtherKeepsTypes
<1>9. CASE QuickStart
  <2>1. timing' \in TimingType
    BY <1>1, <1>9 DEF QuickStart, TimingType
  <2> QED
    BY <1>1, <1>9, <2>1, OtherKeepsTypes DEF QuickStart
<1>10. CASE AnchorRtp
  <2>1. PICK t \in {segment.start, timing.expected} : t # None /\ timing' = [timing EXCEPT !.anchorRtp = t]
    BY <1>10 DEF AnchorRtp
  <2>2. t \in AllTimestamps
    BY <1>1, <2>1, Sizes DEF TimingType, MaybeTs
  <2>3. timing' \in TimingType
    BY <1>1, <2>1, <2>2 DEF TimingType
  <2>4. moved' \in BOOLEAN
    BY <1>10 DEF AnchorRtp
  <2>5. requests' \in 0 .. MaxRequests /\ rtsp' = "anchor"
        /\ UNCHANGED <<segment, buffer, lead, dma, reader, old, flushing>>
    BY <1>3, <1>10 DEF AnchorRtp, Request
  <2> QED
    BY <1>1, <2>3, <2>4, <2>5, OtherKeepsTypes
<1>11. CASE AnchorTime
  <2>1. timing' \in TimingType
    BY <1>1, <1>2, <1>11 DEF AnchorTime, TimingType
  <2>2. lead' \in -MaxLate .. MaxLead
    BY <1>11, Sizes DEF AnchorTime
  <2>3. moved' \in BOOLEAN
    BY <1>11 DEF AnchorTime
  <2>4. rtsp' = "idle" /\ UNCHANGED <<segment, requests, buffer, dma, reader, old, flushing>>
    BY <1>11 DEF AnchorTime
  <2> QED
    BY <1>1, <2>1, <2>2, <2>3, <2>4, OtherKeepsTypes
<1>12. CASE Pause
  <2>1. timing' \in TimingType
    BY <1>1, <1>2, <1>12 DEF Pause, TimingType
  <2> QED
    BY <1>1, <1>3, <1>12, <2>1, OtherKeepsTypes DEF Pause
<1>13. CASE DeferFlush
  <2>1. PICK k \in 1 .. SegmentSize - 1 : timing' = [timing EXCEPT !.until = TsAdd(segment.start, k)]
    BY <1>13 DEF DeferFlush
  <2>2. k \in 0 .. SegmentSize - 1 /\ segment.start \in AllTimestamps
    BY <1>1, Sizes
  <2>3. TsAdd(segment.start, k) \in MaybeTs
    BY <1>2, <2>2, FrameOfTrack
  <2>4. timing' \in TimingType
    BY <1>1, <2>1, <2>3 DEF TimingType
  <2> QED
    BY <1>1, <1>3, <1>13, <2>4, OtherKeepsTypes DEF DeferFlush
<1> QED
  BY <1>4, <1>5, <1>6, <1>7, <1>8, <1>9, <1>10, <1>11, <1>12, <1>13
     DEF Rtsp, Tick, Arrive, ClockMoves, FlushBuffer, ResetTiming, QuickStart, AnchorRtp, AnchorTime,
         Pause, DeferFlush

-----------------------------------------------------------------------------
(* The invariant *)

(* It holds at first.                                                      *)
LEMMA InitIInv == Init => IInv
<1> SUFFICES ASSUME Init PROVE IInv
  OBVIOUS
<1>1. OneOutside /\ OldOnlyOutside /\ OneOldFrame
  BY DEF Init, OneOutside, OldOnlyOutside, OneOldFrame, InFlight, IdleReader
<1> QED
  BY <1>1, InitType DEF IInv

(* A step of the playback task keeps one frame outside, and plays an old   *)
(* frame only if none was played.                                          *)
LEMMA ReadKeeps ==
  ASSUME IInv, Read
  PROVE  OneOutside' /\ OldOnlyOutside' /\ OneOldFrame'
<1>1. UNCHANGED segment
  BY DEF Read, FlushOutput, NotReady, Begin, Fetch, DeferredFlush, SkipIsland, Hold, Store, DropLate,
         Play, Commit, Write
<1>2. \A t : OfSegment(t)' <=> OfSegment(t)
  BY <1>1 DEF OfSegment
<1>3. /\ \A t \in buffer : OfSegment(t)
      /\ old > 0 => /\ InFlight => OfSegment(reader.ts)
                    /\ timing.pending # None => OfSegment(timing.pending)
      /\ old \in 0 .. 1 /\ (InFlight /\ ~reader.held => timing.pending = None)
  BY DEF IInv, TypeOK, OldOnlyOutside, OneOldFrame, OneOutside
<1>4. timing \in TimingType /\ reader \in ReaderType
  BY DEF IInv, TypeOK, RecordsOK, TimingType, ReaderType
<1>5. ASSUME UNCHANGED old, buffer' \subseteq buffer,
             timing'.pending \in {timing.pending, None},
             reader'.pc \notin {"judge", "store", "commit"}
      PROVE  OneOutside' /\ OldOnlyOutside' /\ OneOldFrame'
  BY <1>2, <1>3, <1>5 DEF OneOutside, OldOnlyOutside, OneOldFrame, InFlight
<1>6. ASSUME UNCHANGED <<old, buffer>>, InFlight, timing'.pending = timing.pending,
             reader'.ts = reader.ts, reader'.held = reader.held
      PROVE  OneOutside' /\ OldOnlyOutside' /\ OneOldFrame'
  BY <1>1, <1>2, <1>3, <1>6 DEF OneOutside, OldOnlyOutside, OneOldFrame, OfSegment
<1>7. Released.pending \in {timing.pending, None} /\ Released \in TimingType
  BY <1>4, StoredType DEF Released, TimingType, IInv
<1>8. ASSUME Finish PROVE reader'.pc \notin {"judge", "store", "commit"}
  BY <1>8 DEF Finish, IdleReader
<1>9. CASE FlushOutput
  BY <1>1, <1>3, <1>9 DEF FlushOutput, OneOutside, OldOnlyOutside, OneOldFrame, InFlight, OfSegment
<1>10. CASE NotReady
  BY <1>4, <1>5, <1>8, <1>10 DEF NotReady, TimingType
<1>11. CASE Begin
  BY <1>5, <1>11 DEF Begin, IdleReader
<1>12. CASE Fetch
  <2>1. CASE timing.pending # None
    <3>1. reader'.ts = timing.pending /\ reader'.held = TRUE /\ UNCHANGED <<buffer, timing, old>>
      BY <1>4, <1>12, <2>1 DEF Fetch, ReaderType
    <3> QED
      BY <1>2, <1>3, <2>1, <3>1 DEF OneOutside, OldOnlyOutside, OneOldFrame
  <2>2. CASE timing.pending = None /\ buffer = {}
    BY <1>5, <1>8, <1>12, <2>2 DEF Fetch
  <2>3. CASE timing.pending = None /\ buffer # {}
    <3>1. reader'.ts = Oldest /\ buffer' = buffer \ {Oldest} /\ UNCHANGED <<timing, old>>
      BY <1>4, <1>12, <2>3 DEF Fetch, ReaderType
    <3>2. OfSegment(Oldest)
      BY <1>3, <2>3, OldestInBuffer DEF IInv
    <3> QED
      BY <1>2, <1>3, <2>3, <3>1, <3>2 DEF OneOutside, OldOnlyOutside, OneOldFrame
  <2> QED
    BY <2>1, <2>2, <2>3
<1>13. CASE DeferredFlush
  <2>1. timing'.pending = Released.pending
    BY <1>7, <1>13 DEF DeferredFlush, TimingType
  <2> QED
    BY <1>5, <1>7, <1>8, <1>13, <2>1 DEF DeferredFlush
<1>14. CASE SkipIsland
  <2>1. ReaderAt("fetch") => reader'.pc = "fetch"
    BY <1>4 DEF ReaderAt, ReaderType
  <2> QED
    BY <1>5, <1>7, <1>8, <1>14, <2>1 DEF SkipIsland
<1>15. CASE Hold
  <2>1. InFlight /\ UNCHANGED <<old, buffer>>
    BY <1>15 DEF Hold, Judging, InFlight
  <2>2. timing'.pending = timing.pending
    BY <1>4, <1>15 DEF Hold, TimingType
  <2>3. (reader'.ts = reader.ts /\ reader'.held = reader.held) \/ Finish
    BY <1>4, <1>15 DEF Hold, ReaderAt, ReaderType
  <2> QED
    BY <1>5, <1>6, <1>8, <2>1, <2>2, <2>3
<1>16. CASE Store
  <2>1. InFlight /\ timing'.pending = reader.ts /\ Finish /\ UNCHANGED <<old, buffer>>
    BY <1>4, <1>16 DEF Store, InFlight, TimingType
  <2>2. reader'.pc \notin {"judge", "store", "commit"}
    BY <1>8, <2>1
  <2> QED
    BY <1>2, <1>3, <2>1, <2>2 DEF OneOutside, OldOnlyOutside, OneOldFrame, InFlight
<1>17. CASE DropLate
  <2>1. timing'.pending = Released.pending /\ UNCHANGED <<old, buffer>>
    BY <1>7, <1>17 DEF DropLate, TimingType
  <2>2. Finish \/ reader'.pc = "fetch"
    BY <1>4, <1>17 DEF DropLate, ReaderType
  <2> QED
    BY <1>5, <1>7, <1>8, <2>1, <2>2
<1>18. CASE Play
  <2>1. InFlight /\ UNCHANGED <<old, buffer>> /\ timing'.pending = timing.pending
    BY <1>4, <1>18 DEF Play, Judging, InFlight, TimingType
  <2>2. reader'.ts = reader.ts /\ reader'.held = reader.held
    BY <1>4, <1>18 DEF Play, ReaderType
  <2> QED
    BY <1>6, <2>1, <2>2
<1>19. CASE Commit
  <2>1. InFlight /\ Finish /\ UNCHANGED buffer /\ timing'.pending = Released.pending
        /\ old' = IF OfSegment(reader.ts) \/ old = 2 THEN old ELSE old + 1
    BY <1>7, <1>19 DEF Commit, InFlight, TimingType
  <2>2. Released.pending = None
    <3>1. CASE reader.held
      BY <1>4, <3>1 DEF Released, TimingType
    <3>2. CASE ~reader.held
      BY <1>3, <2>1, <3>2 DEF Released
    <3> QED
      BY <3>1, <3>2
  <2>3. reader'.pc \notin {"judge", "store", "commit"} /\ timing'.pending = None
    BY <1>8, <2>1, <2>2
  <2>4. old' \in 0 .. 1
    <3>1. CASE OfSegment(reader.ts)
      BY <1>3, <2>1, <3>1
    <3>2. CASE ~OfSegment(reader.ts)
      BY <1>3, <2>1, <3>2
    <3> QED
      BY <3>1, <3>2
  <2> QED
    BY <1>2, <1>3, <2>1, <2>3, <2>4 DEF OneOutside, OldOnlyOutside, OneOldFrame, InFlight
<1>20. CASE Write
  BY <1>5, <1>20 DEF Write, IdleReader
<1> QED
  BY <1>9, <1>10, <1>11, <1>12, <1>13, <1>14, <1>15, <1>16, <1>17, <1>18, <1>19, <1>20 DEF Read

(* So does every other step: a flush forgets what was played, and a reset  *)
(* of the timing the pending frame.                                        *)
LEMMA OtherKeeps ==
  ASSUME IInv, Tick \/ Arrive \/ ClockMoves \/ Rtsp, UNCHANGED reader
  PROVE  OneOutside' /\ OldOnlyOutside' /\ OneOldFrame'
<1>1. /\ \A t \in buffer : OfSegment(t)
      /\ old > 0 => /\ InFlight => OfSegment(reader.ts)
                    /\ timing.pending # None => OfSegment(timing.pending)
      /\ old \in 0 .. 1 /\ (InFlight /\ ~reader.held => timing.pending = None)
      /\ timing \in TimingType
  BY DEF IInv, TypeOK, OldOnlyOutside, OneOldFrame, OneOutside, TimingType
<1>2. ASSUME segment'.start = segment.start, UNCHANGED old, \A t \in buffer' : OfSegment(t),
             timing'.pending \in {timing.pending, None}
      PROVE  OneOutside' /\ OldOnlyOutside' /\ OneOldFrame'
  BY <1>1, <1>2 DEF OneOutside, OldOnlyOutside, OneOldFrame, InFlight, OfSegment
<1>3. CASE Tick
  BY <1>1, <1>2, <1>3 DEF Tick, TimingType
<1>4. CASE Arrive
  <2>1. PICK k \in Missing : /\ segment' = [segment EXCEPT !.sent = @ \cup {k}]
                             /\ buffer' = buffer \cup {TsAdd(segment.start, k)}
    BY <1>4 DEF Arrive
  <2>2. k \in 0 .. SegmentSize - 1 /\ segment.start \in AllTimestamps
    BY Sizes DEF Missing, IInv, TypeOK
  <2>3. OfSegment(TsAdd(segment.start, k))
    BY <2>2, FrameOfTrack DEF OfSegment
  <2>4. segment'.start = segment.start
    BY <2>1 DEF IInv, RecordsOK
  <2> QED
    BY <1>1, <1>2, <1>4, <2>1, <2>3, <2>4 DEF Arrive
<1>5. CASE ClockMoves
  BY <1>1, <1>2, <1>5 DEF ClockMoves
<1>6. CASE FlushBuffer
  BY <1>1, <1>6 DEF FlushBuffer, OneOutside, OldOnlyOutside, OneOldFrame, InFlight
<1>7. CASE ResetTiming
  <2>1. timing'.pending = None
    BY <1>7 DEF ResetTiming, FreshTiming
  <2> QED
    BY <1>1, <1>2, <1>7, <2>1 DEF ResetTiming
<1>8. CASE QuickStart
  BY <1>1, <1>2, <1>8 DEF QuickStart, TimingType
<1>9. CASE AnchorRtp
  BY <1>1, <1>2, <1>9 DEF AnchorRtp, TimingType
<1>10. CASE AnchorTime
  BY <1>1, <1>2, <1>10 DEF AnchorTime, TimingType
<1>11. CASE Pause
  BY <1>1, <1>2, <1>11 DEF Pause, TimingType
<1>12. CASE DeferFlush
  BY <1>1, <1>2, <1>12 DEF DeferFlush, TimingType
<1> QED
  BY <1>3, <1>4, <1>5, <1>6, <1>7, <1>8, <1>9, <1>10, <1>11, <1>12 DEF Rtsp

(* Every step keeps the invariant.                                         *)
LEMMA StepIInv ==
  ASSUME IInv, [Next]_vars
  PROVE  IInv'
<1>1. CASE Read
  BY <1>1, ReadType, ReadKeeps DEF IInv
<1>2. CASE Tick \/ Arrive \/ ClockMoves \/ Rtsp
  BY <1>2, OtherType, OtherKeeps DEF IInv
<1>3. CASE UNCHANGED vars
  BY <1>3 DEF vars, IInv, TypeOK, RecordsOK, OneOutside, OldOnlyOutside, OneOldFrame, InFlight, OfSegment
<1> QED
  BY <1>1, <1>2, <1>3 DEF Next

-----------------------------------------------------------------------------
(* Positions *)

(* The range of positions.                                                 *)
LEMMA Quarter ==
  /\ TsMod \div 4 \in Nat /\ 4 * (TsMod \div 4) <= TsMod
  /\ \A ts \in AllTimestamps : Position(ts) \in Int
  /\ Period <= 2 * Threshold + 1
<1>1. TsMod \in Nat /\ Period \in Nat /\ Threshold \in Nat
  BY Sizes
<1> DEFINE q == TsMod \div 4
           half == Period \div 2
<1>2. q \in Int /\ TsMod % 4 \in 0 .. 3 /\ TsMod = 4 * q + (TsMod % 4)
  BY <1>1
<1>3. half \in Int /\ Period % 2 \in 0 .. 1 /\ Period = 2 * half + (Period % 2)
  BY <1>1
<1>4. half <= Threshold
  BY ScheduleAssumption
<1> HIDE DEF q, half
<1>5. q \in Nat /\ 4 * q <= TsMod
  BY <1>1, <1>2
<1>6. Period <= 2 * Threshold + 1
  BY <1>1, <1>3, <1>4
<1>7. \A ts \in AllTimestamps : Position(ts) \in Int
  BY CmpCases, Sizes DEF Position
<1> QED
  BY <1>5, <1>6, <1>7 DEF q

(* A position that is no further from the first track than a quarter of    *)
(* the range.                                                              *)
IsNear(ts) == /\ ts \in AllTimestamps
              /\ -(TsMod \div 4) < Position(ts) /\ Position(ts) < TsMod \div 4

(* Near the first track timestamps compare as their positions.             *)
LEMMA CmpIsDistance ==
  ASSUME NEW a, NEW b, IsNear(a), IsNear(b)
  PROVE  TsCmp(a, b) = Position(a) - Position(b)
<1> DEFINE D(x, y) == IF x >= y THEN x - y ELSE x - y + TsMod
           C(x, y) == IF D(x, y) >= TsMod \div 2 THEN D(x, y) - TsMod ELSE D(x, y)
           s == First
           h == TsMod \div 2
           q == TsMod \div 4
<1>1. a \in AllTimestamps /\ b \in AllTimestamps /\ s \in AllTimestamps
  BY Sizes DEF IsNear
<1>2. Position(a) = C(a, s) /\ Position(b) = C(b, s) /\ TsCmp(a, b) = C(a, b)
  BY <1>1, CmpCases DEF Position
<1>3. /\ TsMod \in Nat \ {0} /\ s \in 0 .. TsMod - 1 /\ a \in 0 .. TsMod - 1 /\ b \in 0 .. TsMod - 1
      /\ h \in Nat /\ 2 * h <= TsMod
  BY <1>1, Sizes DEF AllTimestamps
<1>4. q \in Nat /\ 4 * q <= TsMod
  BY Quarter
<1>5. TsMod < 2 * h + 2
  <2>1. TsMod % 2 \in 0 .. 1 /\ TsMod = 2 * h + (TsMod % 2)
    BY <1>3
  <2> QED
    BY <1>3, <2>1
<1>6. -q < Position(a) /\ Position(a) < q /\ -q < Position(b) /\ Position(b) < q
  BY DEF IsNear
<1> HIDE DEF h, q, s
<1>7. /\ Position(a) = IF D(a, s) >= h THEN D(a, s) - TsMod ELSE D(a, s)
      /\ Position(b) = IF D(b, s) >= h THEN D(b, s) - TsMod ELSE D(b, s)
      /\ TsCmp(a, b) = IF D(a, b) >= h THEN D(a, b) - TsMod ELSE D(a, b)
  BY <1>2 DEF h
<1>8. D(a, b) = IF D(a, s) >= D(b, s) THEN D(a, s) - D(b, s) ELSE D(a, s) - D(b, s) + TsMod
  BY <1>3
<1>9. D(a, s) \in 0 .. TsMod - 1 /\ D(b, s) \in 0 .. TsMod - 1
  BY <1>3
<1> HIDE DEF D, C
<1> QED
  BY <1>3, <1>4, <1>5, <1>6, <1>7, <1>8, <1>9

(* A sum moves the position by as much.                                    *)
LEMMA AddMoves ==
  ASSUME NEW a, IsNear(a), NEW k \in Nat, Position(a) + k < TsMod \div 4
  PROVE  TsAdd(a, k) \in AllTimestamps /\ Position(TsAdd(a, k)) = Position(a) + k
<1> DEFINE D(x, y) == IF x >= y THEN x - y ELSE x - y + TsMod
           C(x, y) == IF D(x, y) >= TsMod \div 2 THEN D(x, y) - TsMod ELSE D(x, y)
           s == First
           h == TsMod \div 2
           q == TsMod \div 4
           n == a + k
           r == n % TsMod
<1>1. a \in AllTimestamps /\ s \in AllTimestamps /\ r \in AllTimestamps /\ TsAdd(a, k) = r
  <2>1. TsAdd(a, k) = r
    BY DEF TsAdd
  <2> QED
    BY <2>1, AddType, Sizes DEF IsNear
<1>2. /\ TsMod \in Nat \ {0} /\ s \in 0 .. TsMod - 1 /\ a \in 0 .. TsMod - 1 /\ r \in 0 .. TsMod - 1
      /\ h \in Nat /\ 2 * h <= TsMod
  BY <1>1, Sizes DEF AllTimestamps
<1>3. q \in Nat /\ 4 * q <= TsMod
  BY Quarter
<1>4. TsMod < 2 * h + 2
  <2>1. TsMod % 2 \in 0 .. 1 /\ TsMod = 2 * h + (TsMod % 2)
    BY <1>2
  <2> QED
    BY <1>2, <2>1
<1>5. -q < Position(a) /\ Position(a) + k < q /\ Position(a) \in Int
  BY Quarter DEF IsNear
<1>6. Position(a) = C(a, s) /\ Position(r) = C(r, s)
  BY <1>1, CmpCases DEF Position
<1> HIDE DEF h, q, s
<1>7. k < 2 * q
  BY <1>3, <1>5
<1>8. n \in Int /\ (n < TsMod => n \in 0 .. TsMod - 1)
      /\ (~(n < TsMod) => n \in TsMod .. 2 * TsMod - 1)
  BY <1>2, <1>3, <1>7
<1> HIDE DEF n
<1>9. /\ n \in 0 .. TsMod - 1 => r = n
      /\ n \in TsMod .. 2 * TsMod - 1 => r = n - TsMod
  BY <1>2, <1>8, Remainder
<1> HIDE DEF r
<1>10. r = IF a + k < TsMod THEN a + k ELSE a + k - TsMod
  BY <1>2, <1>8, <1>9 DEF n
<1>11. /\ Position(a) = IF D(a, s) >= h THEN D(a, s) - TsMod ELSE D(a, s)
       /\ Position(r) = IF D(r, s) >= h THEN D(r, s) - TsMod ELSE D(r, s)
  BY <1>6 DEF h
<1>12. D(r, s) = IF D(a, s) + k < TsMod THEN D(a, s) + k ELSE D(a, s) + k - TsMod
  BY <1>2, <1>3, <1>7, <1>10
<1>13. D(a, s) \in 0 .. TsMod - 1
  BY <1>2
<1> HIDE DEF D, C
<1>14. Position(r) = Position(a) + k
  BY <1>2, <1>3, <1>4, <1>5, <1>7, <1>11, <1>12, <1>13
<1> QED
  BY <1>1, <1>14

(* More frames last at least as long.                                      *)
LEMMA Longer ==
  ASSUME NEW a \in Int, NEW b \in Int, a <= b
  PROVE  Period * a <= Period * b /\ Period * a \in Int /\ Period * (a + 1) = Period * a + Period
<1>1. Period \in Nat
  BY Sizes
<1>2. PICK c \in Nat : b = a + c
  <2>1. b - a \in Nat /\ b = a + (b - a)
    OBVIOUS
  <2> QED
    BY <2>1
<1>3. Period * b = Period * a + Period * c /\ Period * c \in Nat
  BY <1>1, <1>2
<1>4. Period * a \in Int /\ Period * (a + 1) = Period * a + Period
  BY <1>1
<1> QED
  BY <1>3, <1>4

(* Only a longer stretch lasts longer.                                     *)
LEMMA LastsLonger ==
  ASSUME NEW a \in Int, NEW b \in Int, Period * a < Period * b
  PROVE  a < b
<1>1. CASE b <= a
  <2>1. Period * b <= Period * a /\ Period * a \in Int /\ Period * b \in Int
    BY <1>1, Longer
  <2> QED
    BY <2>1
<1> QED
  BY <1>1

-----------------------------------------------------------------------------
(* The schedule *)

(* A frame of a track, and a place playback in it can be at: the end too.  *)
Within(ts, n) == ts \in AllTimestamps /\ \E s \in Starts : Position(ts) - Position(s) \in 0 .. n
IsFrame(ts) == Within(ts, SegmentSize - 1)
IsPlace(ts) == Within(ts, SegmentSize)

(* All timestamps the playback task computes with are of some track.       *)
PlacesInv ==
  /\ \A t \in buffer : IsFrame(t)
  /\ timing.pending # None => IsFrame(timing.pending)
  /\ InFlight => IsFrame(reader.ts)
  /\ timing.expected # None => IsPlace(timing.expected)
  /\ timing.anchorValid \/ rtsp = "anchor" => IsPlace(timing.anchorRtp)

(* How far a timestamp is past the anchor's.                               *)
Beyond(ts) == Position(ts) - Position(timing.anchorRtp)

(* What is written but not yet counted in dma.                             *)
InHand == IF reader.pc = "write" THEN Period ELSE 0

(* The frame that continues the stream is early by no more than the        *)
(* threshold and what the DMA ring holds.                                  *)
AheadInv ==
  ~moved /\ timing.anchorValid /\ timing.expected # None =>
    /\ Beyond(timing.expected) <= SegmentSize
    /\ lead + Period * Beyond(timing.expected) <= Threshold + dma + InHand

(* So is the one about to be written.                                      *)
PlayingInv ==
  reader.pc = "commit" =>
    /\ reader.dma = dma
    /\ ~moved => reader.early <= Threshold + dma
    /\ ~moved /\ timing.anchorValid =>
         reader.early = lead + Period * Beyond(reader.ts) /\ Beyond(reader.ts) < SegmentSize

ScheduleInv == PlacesInv /\ AheadInv /\ PlayingInv

(* A place is near the first track and no value that stands for none.      *)
LEMMA PlaceIsNear ==
  ASSUME NEW ts, IsFrame(ts) \/ IsPlace(ts)
  PROVE  IsNear(ts) /\ IsPlace(ts) /\ ts # None
<1>1. SegmentSize \in Nat /\ Starts \subseteq AllTimestamps /\ None \notin AllTimestamps
  BY Sizes
<1>2. ts \in AllTimestamps /\ \E s \in Starts : Position(ts) - Position(s) \in 0 .. SegmentSize
  BY <1>1 DEF IsFrame, IsPlace, Within
<1>3. PICK s \in Starts : Position(ts) - Position(s) \in 0 .. SegmentSize
  BY <1>2
<1>4. /\ Position(ts) \in Int /\ Position(s) \in Int /\ TsMod \div 4 \in Nat
      /\ Position(s) > -(TsMod \div 4) /\ Position(s) + SegmentSize < TsMod \div 4
  BY <1>1, <1>2, Quarter, ScheduleAssumption
<1>5. -(TsMod \div 4) < Position(ts) /\ Position(ts) < TsMod \div 4
  <2> DEFINE q == TsMod \div 4
  <2>1. /\ Position(s) > -q /\ Position(s) + SegmentSize < q /\ q \in Nat
    BY <1>4
  <2> HIDE DEF q
  <2>2. -q < Position(ts) /\ Position(ts) < q
    BY <1>1, <1>3, <1>4, <2>1
  <2> QED
    BY <2>2 DEF q
<1> QED
  BY <1>1, <1>2, <1>5 DEF IsNear, IsPlace, Within

(* The k-th frame of a track is one of its frames.                         *)
LEMMA ArrivesAsFrame ==
  ASSUME NEW s \in Starts, NEW k \in 0 .. SegmentSize - 1
  PROVE  IsFrame(TsAdd(s, k))
<1>1. SegmentSize \in Nat /\ k \in Nat /\ s \in AllTimestamps
  BY Sizes
<1>2. Position(s) - Position(s) \in 0 .. SegmentSize
  BY <1>1, Quarter
<1>3. IsNear(s)
  BY <1>1, <1>2, PlaceIsNear DEF IsPlace, Within
<1>4. Position(s) \in Int /\ TsMod \div 4 \in Nat /\ Position(s) + SegmentSize < TsMod \div 4
  BY <1>1, Quarter, ScheduleAssumption
<1>5. Position(s) + k < TsMod \div 4
  BY <1>1, <1>4
<1>6. TsAdd(s, k) \in AllTimestamps /\ Position(TsAdd(s, k)) = Position(s) + k
  BY <1>1, <1>3, <1>5, AddMoves
<1>7. Position(TsAdd(s, k)) - Position(s) \in 0 .. SegmentSize - 1
  BY <1>4, <1>6
<1> QED
  BY <1>6, <1>7 DEF IsFrame, Within

(* After a frame comes a place.                                            *)
LEMMA NextPlace ==
  ASSUME NEW ts, IsFrame(ts)
  PROVE  IsPlace(TsAdd(ts, 1)) /\ Position(TsAdd(ts, 1)) = Position(ts) + 1
<1>1. ts \in AllTimestamps /\ IsNear(ts) /\ SegmentSize \in Nat
  BY PlaceIsNear, Sizes DEF IsFrame, Within
<1>2. PICK s \in Starts : Position(ts) - Position(s) \in 0 .. SegmentSize - 1
  BY DEF IsFrame, Within
<1>3. /\ Position(ts) \in Int /\ Position(s) \in Int /\ TsMod \div 4 \in Nat
      /\ Position(s) + SegmentSize < TsMod \div 4
  BY <1>1, Sizes, Quarter, ScheduleAssumption
<1>4. Position(ts) + 1 < TsMod \div 4
  BY <1>1, <1>2, <1>3
<1>5. TsAdd(ts, 1) \in AllTimestamps /\ Position(TsAdd(ts, 1)) = Position(ts) + 1
  BY <1>1, <1>4, AddMoves
<1>6. Position(TsAdd(ts, 1)) - Position(s) \in 0 .. SegmentSize
  BY <1>1, <1>2, <1>3, <1>5
<1> QED
  BY <1>5, <1>6 DEF IsPlace, Within

(* A frame is of a place's track, or of another one: then it is before it, *)
(* or so far past it that no anchor there lets it be played yet.           *)
LEMMA FarOrNear ==
  ASSUME NEW ts, IsFrame(ts), NEW r, IsPlace(r)
  PROVE  \/ Position(ts) - Position(r) < SegmentSize
         \/ /\ Period * (Position(ts) - Position(r)) > MaxLate + Threshold
            /\ Position(ts) - Position(r) > SegmentSize
<1>1. ts \in AllTimestamps /\ r \in AllTimestamps /\ SegmentSize \in Nat /\ Period \in Nat
      /\ MaxLate \in Nat /\ Threshold \in Nat
  BY Sizes DEF IsFrame, IsPlace, Within
<1>2. PICK s \in Starts : Position(ts) - Position(s) \in 0 .. SegmentSize - 1
  BY DEF IsFrame, Within
<1>3. PICK t \in Starts : Position(r) - Position(t) \in 0 .. SegmentSize
  BY DEF IsPlace, Within
<1>4. Position(ts) \in Int /\ Position(r) \in Int /\ Position(s) \in Int /\ Position(t) \in Int
  BY <1>1, Quarter, Sizes
<1> DEFINE d == Position(ts) - Position(r)
<1>5. d \in Int /\ Period * SegmentSize <= MaxLate + Threshold
  BY <1>4, ScheduleAssumption
<1>6. CASE Position(s) > Position(t)
  <2> DEFINE e == Position(s) - Position(t) - SegmentSize
  <2>1. e \in Int /\ Period * e > MaxLate + Threshold
    BY <1>1, <1>4, <1>6, ScheduleAssumption
  <2>2. e <= d
    BY <1>1, <1>2, <1>3, <1>4
  <2> HIDE DEF d, e
  <2>3. Period * e <= Period * d /\ Period * d \in Int /\ Period * e \in Int
    BY <1>5, <2>1, <2>2, Longer
  <2>4. Period * d > MaxLate + Threshold
    BY <1>1, <2>1, <2>3
  <2>5. Period * SegmentSize \in Int
    BY <1>1
  <2>6. Period * SegmentSize < Period * d
    BY <1>1, <1>5, <2>3, <2>4, <2>5
  <2>7. SegmentSize < d
    BY <1>1, <1>5, <2>6, LastsLonger
  <2>8. d > SegmentSize
    BY <1>1, <1>5, <2>7
  <2> QED
    BY <2>4, <2>8 DEF d
<1>7. CASE Position(s) = Position(t)
  BY <1>1, <1>2, <1>3, <1>4, <1>7
<1>8. CASE Position(t) > Position(s)
  <2> DEFINE e == Position(t) - Position(s) - SegmentSize
  <2>1. e \in Int /\ Period * e > MaxLate + Threshold
    BY <1>1, <1>4, <1>8, ScheduleAssumption
  <2> HIDE DEF e
  <2>2. Period * 0 = 0 /\ Period * e \in Int
    BY <1>1, <2>1
  <2>3. Period * 0 < Period * e
    BY <1>1, <2>1, <2>2
  <2>4. 0 < e
    BY <2>1, <2>3, LastsLonger
  <2> QED
    BY <1>1, <1>2, <1>3, <1>4, <2>4 DEF e
<1> QED
  BY <1>4, <1>6, <1>7, <1>8

(* The position written back is the frame's successor or as it was.        *)
LEMMA WrittenBack ==
  ASSUME PlacesInv, InFlight
  PROVE  /\ IsPlace(NextExpected(reader.ts))
         /\ \/ NextExpected(reader.ts) = TsAdd(reader.ts, 1)
            \/ timing.expected # None /\ NextExpected(reader.ts) = timing.expected
<1>1. IsPlace(TsAdd(reader.ts, 1))
  BY NextPlace DEF PlacesInv
<1> QED
  BY <1>1 DEF NextExpected, PlacesInv

(* How early a frame in flight is.                                         *)
LEMMA EarlyByPosition ==
  ASSUME IInv, PlacesInv, InFlight, timing.anchorValid
  PROVE  /\ Beyond(reader.ts) \in Int /\ lead \in -MaxLate .. MaxLead
         /\ Early(reader.ts) = lead + Period * Beyond(reader.ts)
         /\ Period * Beyond(reader.ts) \in Int
         /\ Early(reader.ts) <= Threshold => Beyond(reader.ts) < SegmentSize
<1>1. IsFrame(reader.ts) /\ IsPlace(timing.anchorRtp)
  BY DEF PlacesInv
<1>2. IsNear(reader.ts) /\ IsNear(timing.anchorRtp)
  BY <1>1, PlaceIsNear
<1>3. TsCmp(reader.ts, timing.anchorRtp) = Beyond(reader.ts)
  BY <1>2, CmpIsDistance DEF Beyond
<1>4. Beyond(reader.ts) \in Int
  BY <1>2, Quarter DEF Beyond, IsNear
<1>5. lead \in -MaxLate .. MaxLead /\ Period \in Nat /\ MaxLate \in Nat /\ Threshold \in Nat
      /\ SegmentSize \in Nat /\ MaxLead \in Nat
  BY Sizes DEF IInv, TypeOK
<1>6. Early(reader.ts) = lead + Period * Beyond(reader.ts)
  BY <1>3 DEF Early
<1> DEFINE b == Beyond(reader.ts)
           e == Early(reader.ts)
<1>7. b < SegmentSize \/ Period * b > MaxLate + Threshold
  BY <1>1, FarOrNear DEF Beyond
<1> DEFINE n == Period * b
<1>8. n \in Int
  BY <1>4, <1>5
<1>9. e = lead + n /\ (b < SegmentSize \/ n > MaxLate + Threshold)
  BY <1>6, <1>7
<1> HIDE DEF b, e, n
<1>10. e <= Threshold => b < SegmentSize
  BY <1>5, <1>8, <1>9
<1> QED
  BY <1>4, <1>5, <1>6, <1>8, <1>10 DEF b, e, n

(* A step that leaves the schedule alone keeps what is ahead.              *)
LEMMA SameAhead ==
  ASSUME IInv, AheadInv, UNCHANGED <<lead, dma>>, moved' = moved,
         timing'.anchorValid => timing.anchorValid /\ timing'.anchorRtp = timing.anchorRtp,
         timing'.expected \in {timing.expected, None},
         reader.pc = "write" => reader'.pc = "write"
  PROVE  AheadInv'
<1> SUFFICES ASSUME ~moved, timing'.anchorValid, timing'.expected # None
             PROVE  /\ Beyond(timing.expected) <= SegmentSize
                    /\ lead + Period * Beyond(timing.expected)
                         <= Threshold + dma + (IF reader'.pc = "write" THEN Period ELSE 0)
  BY DEF AheadInv, Beyond, InHand
<1>1. timing.anchorValid /\ timing.expected # None
  OBVIOUS
<1>2. /\ Beyond(timing.expected) <= SegmentSize
      /\ lead + Period * Beyond(timing.expected) <= Threshold + dma + InHand
  BY <1>1 DEF AheadInv
<1>3. Period \in Nat /\ Threshold \in Nat /\ dma \in Int /\ lead \in Int
  BY Sizes DEF IInv, TypeOK
<1>4. Beyond(timing.expected) \in Int
  BY <1>1, Quarter DEF Beyond, IInv, TypeOK, MaybeTs
<1> DEFINE n == Period * Beyond(timing.expected)
<1>5. n \in Int
  BY <1>3, <1>4
<1> HIDE DEF n
<1>6. lead + n <= Threshold + dma + InHand
  BY <1>2 DEF n
<1>7. lead + n <= Threshold + dma + (IF reader'.pc = "write" THEN Period ELSE 0)
  BY <1>3, <1>5, <1>6 DEF InHand
<1> QED
  BY <1>2, <1>7 DEF n

(* A step that takes nothing in keeps the places.                          *)
LEMMA SamePlaces ==
  ASSUME PlacesInv, buffer' \subseteq buffer,
         timing'.pending \in {timing.pending, None},
         timing'.expected \in {timing.expected, None},
         timing'.anchorRtp = timing.anchorRtp,
         timing'.anchorValid \/ rtsp' = "anchor" => timing.anchorValid \/ rtsp = "anchor",
         reader'.pc \in {"judge", "store", "commit"} => InFlight /\ reader'.ts = reader.ts
  PROVE  PlacesInv'
BY DEF PlacesInv, InFlight

(* The playback task takes frames of tracks only, and writes places back.  *)
LEMMA ReadPlaces ==
  ASSUME IInv, PlacesInv, Read
  PROVE  PlacesInv'
<1>1. timing \in TimingType /\ reader \in ReaderType /\ rtsp' = rtsp
  BY DEF IInv, TypeOK, RecordsOK, TimingType, ReaderType, Read, FlushOutput, NotReady, Begin, Fetch,
         DeferredFlush, SkipIsland, Hold, Store, DropLate, Play, Commit, Write
<1>2. Released \in TimingType /\ Released.pending \in {timing.pending, None}
      /\ Released.expected = timing.expected /\ Released.anchorRtp = timing.anchorRtp
      /\ Released.anchorValid = timing.anchorValid
  BY <1>1, StoredType DEF Released, TimingType, IInv
<1>3. ASSUME Finish PROVE reader'.pc = "write"
  BY <1>3 DEF Finish, IdleReader
<1>4. CASE FlushOutput
  BY <1>1, <1>4, SamePlaces DEF FlushOutput, InFlight
<1>5. CASE NotReady
  <2>1. /\ timing'.pending = timing.pending /\ timing'.expected = timing.expected
        /\ timing'.anchorRtp = timing.anchorRtp /\ timing'.anchorValid = timing.anchorValid
    BY <1>1, <1>5 DEF NotReady, TimingType
  <2> QED
    BY <1>1, <1>3, <1>5, <2>1, SamePlaces DEF NotReady
<1>6. CASE Begin
  BY <1>1, <1>6, SamePlaces DEF Begin, IdleReader
<1>7. CASE Fetch
  <2>1. CASE timing.pending # None
    <3>1. reader'.ts = timing.pending /\ UNCHANGED <<buffer, timing, rtsp>>
      BY <1>1, <1>7, <2>1 DEF Fetch, ReaderType
    <3> QED
      BY <2>1, <3>1 DEF PlacesInv
  <2>2. CASE timing.pending = None /\ buffer = {}
    BY <1>1, <1>3, <1>7, <2>2, SamePlaces DEF Fetch
  <2>3. CASE timing.pending = None /\ buffer # {}
    <3>1. reader'.ts = Oldest /\ buffer' = buffer \ {Oldest} /\ UNCHANGED <<timing, rtsp>>
      BY <1>1, <1>7, <2>3 DEF Fetch, ReaderType
    <3>2. Oldest \in buffer
      BY <2>3, OldestInBuffer DEF IInv
    <3> QED
      BY <3>1, <3>2 DEF PlacesInv
  <2> QED
    BY <2>1, <2>2, <2>3
<1>8. CASE DeferredFlush
  <2>1. /\ timing'.pending = Released.pending /\ timing'.expected = None
        /\ timing'.anchorRtp = timing.anchorRtp /\ timing'.anchorValid = timing.anchorValid
    BY <1>2, <1>8 DEF DeferredFlush, TimingType
  <2> QED
    BY <1>1, <1>2, <1>3, <1>8, <2>1, SamePlaces DEF DeferredFlush
<1>9. CASE SkipIsland
  <2>1. ReaderAt("fetch") => reader'.pc = "fetch"
    BY <1>1 DEF ReaderAt, ReaderType
  <2> QED
    BY <1>1, <1>2, <1>3, <1>9, <2>1, SamePlaces DEF SkipIsland
<1>10. CASE Hold
  <2>1. InFlight /\ buffer' = buffer
    BY <1>10 DEF Hold, Judging, InFlight
  <2>2. /\ timing'.pending = timing.pending /\ timing'.expected = timing.expected
        /\ timing'.anchorRtp = timing.anchorRtp /\ (timing'.anchorValid => timing.anchorValid)
    BY <1>1, <1>10 DEF Hold, TimingType
  <2>3. reader'.ts = reader.ts \/ Finish
    BY <1>1, <1>10 DEF Hold, ReaderAt, ReaderType
  <2> QED
    BY <1>1, <1>3, <2>1, <2>2, <2>3, SamePlaces
<1>11. CASE Store
  <2>1. /\ timing'.pending = reader.ts /\ timing'.expected = timing.expected
        /\ timing'.anchorRtp = timing.anchorRtp /\ timing'.anchorValid = timing.anchorValid
        /\ InFlight /\ buffer' = buffer
    BY <1>1, <1>11 DEF Store, TimingType, InFlight
  <2>2. reader'.pc = "write"
    BY <1>3, <1>11 DEF Store
  <2> QED
    BY <1>1, <2>1, <2>2 DEF PlacesInv, InFlight
<1>12. CASE DropLate \/ Commit
  <2>1. /\ timing'.pending = Released.pending /\ timing'.expected = NextExpected(reader.ts)
        /\ timing'.anchorRtp = timing.anchorRtp /\ timing'.anchorValid = timing.anchorValid
        /\ InFlight /\ buffer' = buffer
    BY <1>2, <1>12, StoredType DEF DropLate, Commit, Judging, TimingType, InFlight, IInv
  <2>2. reader'.pc \in {"write", "fetch"}
    BY <1>1, <1>3, <1>12 DEF DropLate, Commit, ReaderType
  <2>3. IsPlace(NextExpected(reader.ts))
    BY <2>1, WrittenBack
  <2> QED
    BY <1>1, <1>2, <2>1, <2>2, <2>3 DEF PlacesInv, InFlight
<1>13. CASE Play
  <2>1. /\ timing'.pending = timing.pending /\ timing'.expected = timing.expected
        /\ timing'.anchorRtp = timing.anchorRtp /\ timing'.anchorValid = timing.anchorValid
        /\ InFlight /\ buffer' = buffer
    BY <1>1, <1>13 DEF Play, Judging, TimingType, InFlight
  <2>2. reader'.ts = reader.ts
    BY <1>1, <1>13 DEF Play, ReaderType
  <2> QED
    BY <1>1, <2>1, <2>2, SamePlaces
<1>14. CASE Write
  BY <1>1, <1>14, SamePlaces DEF Write, IdleReader
<1> QED
  BY <1>4, <1>5, <1>6, <1>7, <1>8, <1>9, <1>10, <1>11, <1>12, <1>13, <1>14 DEF Read

(* The sender's packets and anchors are of its track.                      *)
LEMMA OtherPlaces ==
  ASSUME IInv, PlacesInv, Tick \/ Arrive \/ ClockMoves \/ Rtsp, UNCHANGED reader
  PROVE  PlacesInv'
<1>1. timing \in TimingType /\ segment.start \in Starts
  BY DEF IInv, TypeOK, TimingType
<1>2. ASSUME buffer' \subseteq buffer,
             timing'.pending \in {timing.pending, None},
             timing'.expected \in {timing.expected, None},
             timing'.anchorRtp = timing.anchorRtp,
             timing'.anchorValid \/ rtsp' = "anchor" => timing.anchorValid \/ rtsp = "anchor"
      PROVE  PlacesInv'
  BY <1>2, SamePlaces DEF InFlight
<1>3. CASE Tick
  BY <1>1, <1>2, <1>3 DEF Tick, TimingType
<1>4. CASE Arrive
  <2>1. PICK k \in Missing : buffer' = buffer \cup {TsAdd(segment.start, k)}
    BY <1>4 DEF Arrive
  <2>2. IsFrame(TsAdd(segment.start, k))
    BY <1>1, ArrivesAsFrame DEF Missing
  <2>3. UNCHANGED <<timing, rtsp>>
    BY <1>4 DEF Arrive
  <2> QED
    BY <2>1, <2>2, <2>3 DEF PlacesInv, InFlight
<1>5. CASE ClockMoves
  BY <1>2, <1>5 DEF ClockMoves
<1>6. CASE FlushBuffer
  BY <1>2, <1>6 DEF FlushBuffer, Request
<1>7. CASE ResetTiming
  <2>1. /\ timing'.pending = None /\ timing'.expected = None /\ timing'.anchorValid = FALSE
        /\ timing'.anchorRtp = timing.anchorRtp /\ buffer' = buffer /\ rtsp' = "quick"
    BY <1>7 DEF ResetTiming, FreshTiming
  <2> QED
    BY <1>2, <2>1
<1>8. CASE QuickStart
  BY <1>1, <1>2, <1>8 DEF QuickStart, TimingType
<1>9. CASE AnchorRtp
  <2>1. PICK t \in {segment.start, timing.expected} : t # None /\ timing' = [timing EXCEPT !.anchorRtp = t]
    BY <1>9 DEF AnchorRtp
  <2>2. IsPlace(segment.start)
    <3>1. SegmentSize \in Nat /\ segment.start \in AllTimestamps
      BY <1>1, Sizes
    <3>2. Position(segment.start) - Position(segment.start) \in 0 .. SegmentSize
      BY <3>1, Quarter
    <3> QED
      BY <1>1, <3>1, <3>2 DEF IsPlace, Within
  <2>3. IsPlace(t)
    BY <2>1, <2>2 DEF PlacesInv
  <2>4. /\ timing'.anchorRtp = t /\ timing'.pending = timing.pending
        /\ timing'.expected = timing.expected /\ buffer' = buffer
    BY <1>1, <1>9, <2>1 DEF AnchorRtp, TimingType
  <2> QED
    BY <2>3, <2>4 DEF PlacesInv, InFlight
<1>10. CASE AnchorTime
  BY <1>1, <1>2, <1>10 DEF AnchorTime, TimingType
<1>11. CASE Pause
  BY <1>1, <1>2, <1>11 DEF Pause, TimingType
<1>12. CASE DeferFlush
  BY <1>1, <1>2, <1>12 DEF DeferFlush, TimingType
<1> QED
  BY <1>3, <1>4, <1>5, <1>6, <1>7, <1>8, <1>9, <1>10, <1>11, <1>12 DEF Rtsp

(* A continuous frame is no earlier than the one the stream expects, and   *)
(* any other one passes the early test.                                    *)
LEMMA PlayedInTime ==
  ASSUME IInv, PlacesInv, AheadInv, ~moved, Judging, ~TooEarly, timing.anchorValid
  PROVE  Early(reader.ts) <= Threshold + dma /\ Beyond(reader.ts) < SegmentSize
<1>1. InFlight /\ reader.pc = "judge"
  BY DEF Judging, InFlight
<1>2. /\ Beyond(reader.ts) \in Int /\ lead \in -MaxLate .. MaxLead
      /\ Early(reader.ts) = lead + Period * Beyond(reader.ts)
      /\ Period * Beyond(reader.ts) \in Int
      /\ Early(reader.ts) <= Threshold => Beyond(reader.ts) < SegmentSize
  BY <1>1, EarlyByPosition
<1>3. /\ Threshold \in Nat /\ dma \in Nat /\ Period \in Nat /\ SegmentSize \in Nat
      /\ MaxLate \in Nat /\ MaxLead \in Nat
  BY Sizes DEF IInv, TypeOK
<1>4. CASE Continuous
  <2>1. timing.expected # None /\ TsCmp(reader.ts, timing.expected) <= 0
    BY <1>4 DEF Continuous, Fresh
  <2>2. IsFrame(reader.ts) /\ IsPlace(timing.expected) /\ IsPlace(timing.anchorRtp)
    BY <1>1, <2>1 DEF PlacesInv
  <2>3. IsNear(reader.ts) /\ IsNear(timing.expected) /\ IsNear(timing.anchorRtp)
    BY <2>2, PlaceIsNear
  <2>4. TsCmp(reader.ts, timing.expected) = Position(reader.ts) - Position(timing.expected)
    BY <2>3, CmpIsDistance
  <2>5. /\ Position(reader.ts) \in Int /\ Position(timing.expected) \in Int
        /\ Position(timing.anchorRtp) \in Int
    BY <2>3, Quarter DEF IsNear
  <2>6. Beyond(reader.ts) <= Beyond(timing.expected) /\ Beyond(timing.expected) \in Int
    BY <2>1, <2>4, <2>5 DEF Beyond
  <2>7. /\ Beyond(timing.expected) <= SegmentSize
        /\ lead + Period * Beyond(timing.expected) <= Threshold + dma
    BY <1>1, <1>3, <2>1 DEF AheadInv, InHand
  <2> DEFINE b == Beyond(reader.ts)
             x == Beyond(timing.expected)
  <2>8. b < SegmentSize \/ b > SegmentSize
    BY <2>2, FarOrNear DEF Beyond
  <2>9. Period * b <= Period * x /\ Period * x \in Int
    BY <1>2, <2>6, Longer
  <2> DEFINE m == Period * b
             n == Period * x
             e == Early(reader.ts)
  <2>10. e = lead + m /\ m \in Int /\ n \in Int /\ m <= n /\ lead + n <= Threshold + dma
    BY <1>2, <2>7, <2>9
  <2>11. b <= x /\ x <= SegmentSize /\ b \in Int /\ x \in Int
    BY <1>2, <2>6, <2>7
  <2> HIDE DEF b, x, m, n, e
  <2>12. e <= Threshold + dma
    BY <1>2, <1>3, <2>10
  <2>13. b < SegmentSize
    BY <1>3, <2>8, <2>11
  <2> QED
    BY <2>12, <2>13 DEF b, e
<1>5. CASE ~Continuous
  <2>1. ~(Early(reader.ts) > Release)
    BY <1>5 DEF TooEarly
  <2>2. Release \in Int /\ Release <= Threshold
    <3>1. Period \div 2 \in Int /\ Period \div 2 <= Threshold
      BY <1>3, ScheduleAssumption
    <3> QED
      BY <1>3, <3>1 DEF Release
  <2> DEFINE e == Early(reader.ts)
             m == Period * Beyond(reader.ts)
  <2>3. e = lead + m /\ m \in Int
    BY <1>2
  <2> HIDE DEF e, m
  <2>4. e <= Threshold /\ e <= Threshold + dma
    BY <1>2, <1>3, <2>1, <2>2, <2>3 DEF e
  <2> QED
    BY <1>2, <2>4 DEF e
<1> QED
  BY <1>4, <1>5

(* Moving past a frame of the anchor's track brings the stream ahead by a  *)
(* frame at most: m is what makes up for it.                               *)
LEMMA MovesOn ==
  ASSUME IInv, PlacesInv, AheadInv, ~moved, InFlight, timing.anchorValid,
         Beyond(reader.ts) < SegmentSize, NEW m \in Nat,
         Early(reader.ts) + Period <= Threshold + dma + m
  PROVE  /\ Beyond(NextExpected(reader.ts)) <= SegmentSize
         /\ lead + Period * Beyond(NextExpected(reader.ts)) <= Threshold + dma + m
<1>1. /\ Threshold \in Nat /\ dma \in Nat /\ Period \in Nat /\ SegmentSize \in Nat
      /\ lead \in Int
  BY Sizes DEF IInv, TypeOK
<1>2. CASE NextExpected(reader.ts) = TsAdd(reader.ts, 1)
  <2>1. IsFrame(reader.ts) /\ IsPlace(timing.anchorRtp)
    BY DEF PlacesInv
  <2>2. Position(TsAdd(reader.ts, 1)) = Position(reader.ts) + 1
    BY <2>1, NextPlace
  <2>3. Beyond(reader.ts) \in Int /\ Early(reader.ts) = lead + Period * Beyond(reader.ts)
    BY EarlyByPosition
  <2>4. Position(reader.ts) \in Int /\ Position(timing.anchorRtp) \in Int
    BY <2>1, PlaceIsNear, Quarter DEF IsNear
  <2>5. Beyond(TsAdd(reader.ts, 1)) = Beyond(reader.ts) + 1
    BY <2>2, <2>4 DEF Beyond
  <2> DEFINE b == Beyond(reader.ts)
             n == Period * b
             n1 == Period * (b + 1)
  <2>6. n1 = n + Period /\ n \in Int
    BY <2>3, Longer
  <2>7. b + 1 <= SegmentSize /\ lead + n + Period <= Threshold + dma + m
    BY <1>1, <2>3
  <2>8. lead + n1 <= Threshold + dma + m
    <3> HIDE DEF n, n1
    <3> QED
      BY <1>1, <2>6, <2>7
  <2> QED
    BY <1>2, <2>5, <2>7, <2>8
<1>3. CASE timing.expected # None /\ NextExpected(reader.ts) = timing.expected
  <2>1. /\ Beyond(timing.expected) <= SegmentSize
        /\ lead + Period * Beyond(timing.expected) <= Threshold + dma
    BY <1>1, <1>3 DEF AheadInv, InHand, InFlight
  <2>2. Beyond(timing.expected) \in Int
    BY <1>3, Quarter DEF Beyond, IInv, TypeOK, MaybeTs
  <2> DEFINE n == Period * Beyond(timing.expected)
  <2>3. n \in Int /\ lead + n <= Threshold + dma
    BY <1>1, <2>1, <2>2
  <2> HIDE DEF n
  <2>4. lead + n <= Threshold + dma + m
    BY <1>1, <2>3
  <2> QED
    BY <1>3, <2>1, <2>4 DEF n
<1> QED
  BY <1>2, <1>3, WrittenBack

(* The playback task stays on schedule: a frame it skips as late or plays  *)
(* in time moves the stream on by a frame, which the DMA ring takes in.    *)
LEMMA ReadOnSchedule ==
  ASSUME IInv, ScheduleInv, Read
  PROVE  AheadInv' /\ PlayingInv'
<1>1. timing \in TimingType /\ reader \in ReaderType
  BY DEF IInv, TypeOK, RecordsOK, TimingType, ReaderType
<1>2. /\ Released \in TimingType /\ Released.expected = timing.expected
      /\ Released.anchorRtp = timing.anchorRtp /\ Released.anchorValid = timing.anchorValid
  BY <1>1, StoredType DEF Released, TimingType, IInv
<1>3. /\ Threshold \in Nat /\ dma \in Nat /\ Period \in Nat /\ SegmentSize \in Nat
      /\ lead \in Int /\ DmaSize \in Nat
  BY Sizes DEF IInv, TypeOK
<1>4. PlacesInv /\ AheadInv /\ PlayingInv
  BY DEF ScheduleInv
<1>5. ASSUME Finish PROVE reader'.pc = "write"
  BY <1>5 DEF Finish, IdleReader
<1>6. ASSUME UNCHANGED <<lead, dma, moved>>,
             timing'.anchorValid => timing.anchorValid /\ timing'.anchorRtp = timing.anchorRtp,
             timing'.expected \in {timing.expected, None},
             reader.pc # "write", reader'.pc # "commit"
      PROVE  AheadInv' /\ PlayingInv'
  <2>1. AheadInv'
    BY <1>4, <1>6, SameAhead
  <2> QED
    BY <1>6, <2>1 DEF PlayingInv
<1>7. CASE FlushOutput
  <2>1. moved' = (moved \/ timing.expected # None) /\ UNCHANGED <<timing, reader>> /\ reader.pc = "begin"
    BY <1>7 DEF FlushOutput
  <2> QED
    BY <2>1 DEF AheadInv, PlayingInv
<1>8. CASE NotReady
  <2>1. /\ timing'.expected = timing.expected /\ timing'.anchorRtp = timing.anchorRtp
        /\ timing'.anchorValid = timing.anchorValid
    BY <1>1, <1>8 DEF NotReady, TimingType
  <2>2. reader.pc = "begin" /\ reader'.pc = "write" /\ UNCHANGED <<lead, dma, moved>>
    BY <1>5, <1>8 DEF NotReady
  <2> QED
    BY <1>6, <2>1, <2>2
<1>9. CASE Begin
  BY <1>6, <1>9 DEF Begin, IdleReader
<1>10. CASE Fetch
  <2>1. reader'.pc \in {"judge", "write"}
    BY <1>1, <1>5, <1>10 DEF Fetch, ReaderType
  <2>2. reader.pc = "fetch" /\ UNCHANGED <<timing, lead, dma, moved>>
    BY <1>10 DEF Fetch
  <2> QED
    BY <1>6, <2>1, <2>2
<1>11. CASE DeferredFlush
  <2>1. /\ timing'.expected = None /\ timing'.anchorRtp = timing.anchorRtp
        /\ timing'.anchorValid = timing.anchorValid
    BY <1>2, <1>11 DEF DeferredFlush, TimingType
  <2>2. reader.pc = "judge" /\ reader'.pc = "write" /\ UNCHANGED <<lead, dma, moved>>
    BY <1>5, <1>11 DEF DeferredFlush
  <2> QED
    BY <1>6, <2>1, <2>2
<1>12. CASE SkipIsland
  <2>1. reader'.pc \in {"fetch", "write"}
    BY <1>1, <1>5, <1>12 DEF SkipIsland, ReaderAt, ReaderType
  <2>2. reader.pc = "judge" /\ timing' = Released /\ UNCHANGED <<lead, dma, moved>>
    BY <1>12 DEF SkipIsland
  <2> QED
    BY <1>2, <1>6, <2>1, <2>2
<1>13. CASE Hold
  <2>1. /\ timing'.expected = timing.expected /\ timing'.anchorRtp = timing.anchorRtp
        /\ reader.pc = "judge" /\ UNCHANGED <<lead, dma, moved>>
    BY <1>1, <1>13 DEF Hold, Judging, TimingType
  <2>2. CASE Counted > MaxEarly
    <3>1. /\ timing'.anchorValid = FALSE /\ reader'.early = 0 /\ reader'.dma = dma
      BY <1>1, <1>13, <2>2 DEF Hold, TimingType, ReaderType
    <3>2. AheadInv'
      BY <3>1 DEF AheadInv
    <3>3. 0 <= Threshold + dma
      BY <1>3
    <3>4. reader'.dma = dma' /\ reader'.early <= Threshold + dma'
      BY <2>1, <3>1, <3>3
    <3>5. PlayingInv'
      BY <3>1, <3>4 DEF PlayingInv
    <3> QED
      BY <3>2, <3>5
  <2>3. CASE ~(Counted > MaxEarly)
    <3>1. timing'.anchorValid = timing.anchorValid
      BY <1>1, <1>13, <2>3 DEF Hold, TimingType
    <3>2. reader'.pc \in {"store", "write"}
      BY <1>1, <1>5, <1>13, <2>3 DEF Hold, ReaderAt, ReaderType
    <3> QED
      BY <1>6, <2>1, <3>1, <3>2
  <2> QED
    BY <2>2, <2>3
<1>14. CASE Store
  <2>1. /\ timing'.expected = timing.expected /\ timing'.anchorRtp = timing.anchorRtp
        /\ timing'.anchorValid = timing.anchorValid
    BY <1>1, <1>14 DEF Store, TimingType
  <2>2. reader.pc = "store" /\ reader'.pc = "write" /\ UNCHANGED <<lead, dma, moved>>
    BY <1>5, <1>14 DEF Store
  <2> QED
    BY <1>6, <2>1, <2>2
<1>15. CASE DropLate
  <2>1. /\ timing'.expected = NextExpected(reader.ts) /\ timing'.anchorRtp = timing.anchorRtp
        /\ timing'.anchorValid = timing.anchorValid
        /\ reader.pc = "judge" /\ UNCHANGED <<lead, dma, moved>>
    BY <1>2, <1>15, StoredType DEF DropLate, Judging, TimingType, IInv
  <2>2. reader'.pc \in {"fetch", "write"}
    BY <1>1, <1>5, <1>15 DEF DropLate, ReaderType
  <2>3. TooLate /\ InFlight
    BY <1>15, <2>1 DEF DropLate, InFlight
  <2>4. PlayingInv'
    BY <2>2 DEF PlayingInv
  <2>5. ASSUME ~moved
        PROVE  /\ Beyond(NextExpected(reader.ts)) <= SegmentSize
               /\ lead + Period * Beyond(NextExpected(reader.ts)) <= Threshold + dma + 0
    <3>1. timing.anchorValid /\ Early(reader.ts) < -Threshold
      BY <2>3 DEF TooLate
    <3>2. Early(reader.ts) \in Int
      BY StoredType DEF IInv
    <3>3. Period <= 2 * Threshold + 1
      BY Quarter
    <3>4. Early(reader.ts) <= Threshold /\ Early(reader.ts) + Period <= Threshold + dma + 0
      BY <1>3, <3>1, <3>2, <3>3
    <3>5. Beyond(reader.ts) < SegmentSize
      BY <1>4, <2>3, <3>1, <3>4, EarlyByPosition
    <3> QED
      BY <1>4, <2>3, <2>5, <3>1, <3>4, <3>5, MovesOn
  <2>6. ASSUME ~moved, timing.anchorValid
        PROVE  lead + Period * Beyond(NextExpected(reader.ts))
                 <= Threshold + dma + (IF reader'.pc = "write" THEN Period ELSE 0)
    <3>1. NextExpected(reader.ts) \in AllTimestamps
      BY <1>4, <2>3, WrittenBack, PlaceIsNear DEF IsNear
    <3>2. Beyond(NextExpected(reader.ts)) \in Int
      BY <1>1, <3>1, Quarter DEF Beyond, TimingType
    <3> DEFINE n == Period * Beyond(NextExpected(reader.ts))
    <3>3. n \in Int /\ lead + n <= Threshold + dma + 0
      BY <1>3, <2>5, <2>6, <3>2
    <3> HIDE DEF n
    <3>4. lead + n <= Threshold + dma + (IF reader'.pc = "write" THEN Period ELSE 0)
      BY <1>3, <3>3
    <3> QED
      BY <3>4 DEF n
  <2>7. AheadInv'
    BY <2>1, <2>5, <2>6 DEF AheadInv, Beyond, InHand
  <2> QED
    BY <2>4, <2>7
<1>16. CASE Play
  <2>1. /\ timing'.expected = timing.expected /\ timing'.anchorRtp = timing.anchorRtp
        /\ timing'.anchorValid = timing.anchorValid
        /\ reader.pc = "judge" /\ UNCHANGED <<lead, dma, moved>>
    BY <1>1, <1>16 DEF Play, Judging, TimingType
  <2>2. /\ reader'.ts = reader.ts /\ reader'.dma = dma
        /\ reader'.early = IF timing.anchorValid THEN Early(reader.ts) ELSE 0
    BY <1>1, <1>16 DEF Play, ReaderType
  <2>3. AheadInv'
    BY <1>4, <2>1, SameAhead
  <2>4. Judging /\ ~TooEarly /\ InFlight
    BY <1>16, <2>1 DEF Play, InFlight
  <2>5. ASSUME ~moved, timing.anchorValid
        PROVE  /\ reader'.early <= Threshold + dma
               /\ reader'.early = lead + Period * Beyond(reader.ts)
               /\ Beyond(reader.ts) < SegmentSize
    BY <1>4, <2>2, <2>4, <2>5, PlayedInTime, EarlyByPosition
  <2>6. ASSUME ~timing.anchorValid PROVE reader'.early <= Threshold + dma
    BY <1>3, <2>2, <2>6
  <2>7. PlayingInv'
    BY <2>1, <2>2, <2>5, <2>6 DEF PlayingInv, Beyond
  <2> QED
    BY <2>3, <2>7
<1>17. CASE Commit
  <2>1. /\ timing'.expected = NextExpected(reader.ts) /\ timing'.anchorRtp = timing.anchorRtp
        /\ timing'.anchorValid = timing.anchorValid
        /\ reader.pc = "commit" /\ UNCHANGED <<lead, dma, moved>>
    BY <1>2, <1>17, StoredType DEF Commit, TimingType, IInv
  <2>2. reader'.pc = "write" /\ InFlight
    BY <1>5, <1>17 DEF Commit, InFlight
  <2>3. PlayingInv'
    BY <2>2 DEF PlayingInv
  <2>4. ASSUME ~moved, timing.anchorValid
        PROVE  /\ Beyond(NextExpected(reader.ts)) <= SegmentSize
               /\ lead + Period * Beyond(NextExpected(reader.ts)) <= Threshold + dma + Period
    <3>1. /\ reader.early <= Threshold + dma /\ Beyond(reader.ts) < SegmentSize
          /\ reader.early = lead + Period * Beyond(reader.ts)
      BY <1>4, <2>1, <2>4 DEF PlayingInv
    <3>2. Early(reader.ts) = reader.early /\ reader.early \in Int
      BY <1>1, <1>4, <2>2, <2>4, <3>1, EarlyByPosition DEF ReaderType
    <3>3. Early(reader.ts) + Period <= Threshold + dma + Period
      BY <1>3, <3>1, <3>2
    <3> QED
      BY <1>3, <1>4, <2>2, <2>4, <3>1, <3>3, MovesOn
  <2>5. AheadInv'
    BY <2>1, <2>2, <2>4 DEF AheadInv, Beyond, InHand
  <2> QED
    BY <2>3, <2>5
<1>18. CASE Write
  <2>1. /\ dma' = dma + Period /\ reader.pc = "write" /\ reader'.pc = "begin"
        /\ UNCHANGED <<timing, lead, moved>>
    BY <1>18 DEF Write, IdleReader
  <2>2. PlayingInv'
    BY <2>1 DEF PlayingInv
  <2>3. ASSUME ~moved, timing.anchorValid, timing.expected # None
        PROVE  /\ Beyond(timing.expected) <= SegmentSize
               /\ lead + Period * Beyond(timing.expected) <= Threshold + dma' + 0
    <3>1. /\ Beyond(timing.expected) <= SegmentSize
          /\ lead + Period * Beyond(timing.expected) <= Threshold + dma + Period
      BY <1>4, <2>1, <2>3 DEF AheadInv, InHand
    <3>2. Beyond(timing.expected) \in Int
      BY <1>1, <2>3, Quarter DEF Beyond, TimingType, MaybeTs
    <3> DEFINE n == Period * Beyond(timing.expected)
    <3>3. n \in Int /\ lead + n <= Threshold + dma + Period
      BY <1>3, <3>1, <3>2
    <3> HIDE DEF n
    <3>4. lead + n <= Threshold + dma' + 0
      BY <1>3, <2>1, <3>3
    <3> QED
      BY <3>1, <3>4 DEF n
  <2>4. AheadInv'
    BY <2>1, <2>3 DEF AheadInv, Beyond, InHand
  <2> QED
    BY <2>2, <2>4
<1> QED
  BY <1>7, <1>8, <1>9, <1>10, <1>11, <1>12, <1>13, <1>14, <1>15, <1>16, <1>17, <1>18 DEF Read

(* So do the clock, the network and the RTSP task: time brings the anchor  *)
(* nearer by no less than it drains the ring, until all of the track is    *)
(* late, and whatever moves the schedule under a running stream is noted.  *)
LEMMA OtherOnSchedule ==
  ASSUME IInv, ScheduleInv, Tick \/ Arrive \/ ClockMoves \/ Rtsp, UNCHANGED reader
  PROVE  AheadInv' /\ PlayingInv'
<1>1. timing \in TimingType
  BY DEF IInv, TypeOK, TimingType
<1>2. /\ Threshold \in Nat /\ dma \in Nat /\ Period \in Nat /\ SegmentSize \in Nat
      /\ lead \in Int /\ MaxLate \in Nat /\ lead >= -MaxLate
  BY Sizes DEF IInv, TypeOK
<1>3. AheadInv /\ PlayingInv
  BY DEF ScheduleInv
<1>4. ASSUME UNCHANGED <<lead, dma, moved>>,
             timing'.anchorValid = timing.anchorValid, timing'.anchorRtp = timing.anchorRtp,
             timing'.expected = timing.expected
      PROVE  AheadInv' /\ PlayingInv'
  BY <1>3, <1>4, SameAhead DEF PlayingInv, Beyond
<1>5. CASE Tick
  <2>1. /\ reader.pc \in {"begin", "write"} /\ moved' = moved
        /\ lead' = IF timing.anchorValid /\ lead > -MaxLate THEN lead - 1 ELSE lead
        /\ dma' = IF dma > 0 THEN dma - 1 ELSE 0
    BY <1>5 DEF Tick
  <2>2. /\ timing'.anchorValid = timing.anchorValid /\ timing'.anchorRtp = timing.anchorRtp
        /\ timing'.expected = timing.expected
    BY <1>1, <1>5 DEF Tick, TimingType
  <2>3. PlayingInv'
    BY <2>1 DEF PlayingInv
  <2>4. ASSUME ~moved, timing.anchorValid, timing.expected # None
        PROVE  /\ Beyond(timing.expected) <= SegmentSize
               /\ lead' + Period * Beyond(timing.expected) <= Threshold + dma' + InHand
    <3>1. /\ Beyond(timing.expected) <= SegmentSize
          /\ lead + Period * Beyond(timing.expected) <= Threshold + dma + InHand
      BY <1>3, <2>4 DEF AheadInv
    <3>2. Beyond(timing.expected) \in Int
      BY <1>1, <2>4, Quarter DEF Beyond, TimingType, MaybeTs
    <3>3. /\ Period * Beyond(timing.expected) <= Period * SegmentSize
          /\ Period * SegmentSize \in Int /\ Period * Beyond(timing.expected) \in Int
      BY <1>2, <3>1, <3>2, Longer
    <3>4. Period * SegmentSize <= MaxLate + Threshold
      BY ScheduleAssumption
    <3>5. InHand \in Nat
      BY <1>2 DEF InHand
    <3> DEFINE n == Period * Beyond(timing.expected)
               k == Period * SegmentSize
    <3>6. /\ lead + n <= Threshold + dma + InHand /\ n <= k /\ k <= MaxLate + Threshold
          /\ n \in Int /\ k \in Int
      BY <3>1, <3>3, <3>4
    <3> HIDE DEF n, k
    <3>7. lead' + n <= Threshold + dma' + InHand
      <4>1. CASE lead > -MaxLate
        BY <1>2, <2>1, <2>4, <3>5, <3>6, <4>1
      <4>2. CASE ~(lead > -MaxLate)
        <5>1. lead' = -MaxLate
          BY <1>2, <2>1, <4>2
        <5>2. dma' \in Nat
          BY <1>2, <2>1
        <5>3. n <= MaxLate + Threshold
          BY <1>2, <3>6
        <5>4. lead' + n <= Threshold
          BY <1>2, <3>6, <5>1, <5>3
        <5>5. lead' + n \in Int /\ Threshold \in Nat
          BY <1>2, <3>6, <5>1
        <5> QED
          BY <3>5, <5>2, <5>4, <5>5
      <4> QED
        BY <4>1, <4>2
    <3> QED
      BY <3>1, <3>7 DEF n
  <2>5. AheadInv'
    BY <2>1, <2>2, <2>4 DEF AheadInv, Beyond, InHand
  <2> QED
    BY <2>3, <2>5
<1>6. CASE Arrive
  BY <1>4, <1>6 DEF Arrive
<1>7. CASE ClockMoves
  BY <1>3, <1>7 DEF ClockMoves, AheadInv, PlayingInv
<1>8. CASE FlushBuffer
  BY <1>4, <1>8 DEF FlushBuffer
<1>9. CASE ResetTiming
  <2>1. /\ timing'.anchorValid = FALSE /\ moved' = InRead /\ dma' = dma
    BY <1>9 DEF ResetTiming, FreshTiming
  <2> QED
    BY <1>3, <2>1 DEF AheadInv, PlayingInv, InRead
<1>10. CASE QuickStart
  BY <1>1, <1>4, <1>10 DEF QuickStart, TimingType
<1>11. CASE AnchorRtp
  <2>1. /\ moved' = (moved \/ timing.expected # None \/ timing.anchorValid)
        /\ timing'.anchorValid = timing.anchorValid /\ timing'.expected = timing.expected
        /\ UNCHANGED <<lead, dma>>
    BY <1>1, <1>11 DEF AnchorRtp, TimingType
  <2> QED
    BY <1>3, <2>1 DEF AheadInv, PlayingInv
<1>12. CASE AnchorTime
  <2>1. /\ moved' = (moved \/ timing.expected # None \/ reader.pc = "commit")
        /\ timing'.expected = timing.expected /\ dma' = dma
    BY <1>1, <1>12 DEF AnchorTime, TimingType
  <2> QED
    BY <1>3, <2>1 DEF AheadInv, PlayingInv
<1>13. CASE Pause
  BY <1>1, <1>4, <1>13 DEF Pause, TimingType
<1>14. CASE DeferFlush
  BY <1>1, <1>4, <1>14 DEF DeferFlush, TimingType
<1> QED
  BY <1>5, <1>6, <1>7, <1>8, <1>9, <1>10, <1>11, <1>12, <1>13, <1>14 DEF Rtsp

(* At first nothing is expected yet.                                       *)
LEMMA InitSchedule == Init => ScheduleInv
<1> SUFFICES ASSUME Init PROVE ScheduleInv
  OBVIOUS
<1>1. /\ buffer = {} /\ timing.pending = None /\ timing.expected = None
      /\ timing.anchorRtp = First /\ reader.pc = "begin"
  BY DEF Init, FreshTiming, IdleReader
<1>2. IsPlace(First)
  <2>1. First \in AllTimestamps /\ First \in Starts /\ SegmentSize \in Nat
    BY Sizes
  <2>2. Position(First) - Position(First) \in 0 .. SegmentSize
    BY <2>1, Quarter
  <2> QED
    BY <2>1, <2>2 DEF IsPlace, Within
<1> QED
  BY <1>1, <1>2 DEF ScheduleInv, PlacesInv, AheadInv, PlayingInv, InFlight

(* Every step keeps the schedule.                                          *)
LEMMA StepSchedule ==
  ASSUME IInv, ScheduleInv, [Next]_vars
  PROVE  ScheduleInv'
<1>1. CASE Read
  BY <1>1, ReadPlaces, ReadOnSchedule DEF ScheduleInv
<1>2. CASE Tick \/ Arrive \/ ClockMoves \/ Rtsp
  <2>1. UNCHANGED reader
    BY <1>2, OtherType DEF IInv
  <2> QED
    BY <1>2, <2>1, OtherPlaces, OtherOnSchedule DEF ScheduleInv
<1>3. CASE UNCHANGED vars
  BY <1>3 DEF vars, ScheduleInv, PlacesInv, AheadInv, PlayingInv, InFlight, Beyond, InHand
<1> QED
  BY <1>1, <1>2, <1>3 DEF Next

-----------------------------------------------------------------------------
(* Theorems *)

(* IInv is an invariant.                                                   *)
THEOREM Invariant == Spec => []IInv
<1>1. Init => IInv
  BY InitIInv
<1>2. IInv /\ [Next]_vars => IInv'
  BY StepIInv
<1> QED
  BY <1>1, <1>2, PTL DEF Spec

(* The variables keep their types.                                         *)
THEOREM TypeCorrect == Spec => []TypeOK
<1>1. IInv => TypeOK
  BY DEF IInv
<1> QED
  BY <1>1, Invariant, PTL

(* Of a track that was flushed at most the frame in flight is still played. *)
THEOREM OneOldFrameAtMost == Spec => []OneOldFrame
<1>1. IInv => OneOldFrame
  BY DEF IInv
<1> QED
  BY <1>1, Invariant, PTL

(* While the playback task has a frame from the buffer none is pending, so *)
(* a pending frame is never overwritten and lost.                          *)
THEOREM PendingIsNotLost == Spec => []OneOutside
<1>1. IInv => OneOutside
  BY DEF IInv
<1> QED
  BY <1>1, Invariant, PTL

(* While neither the schedule moves under the stream nor the DMA ring is   *)
(* emptied under it, no frame is played early by more than the threshold   *)
(* plus what the ring holds: the early test a continuous frame skips would *)
(* have let it through by as much as the ring has taken in.                *)
THEOREM FramesOnSchedule == Spec => []PlayedOnSchedule
<1>1. Init => ScheduleInv
  BY InitSchedule
<1>2. IInv /\ ScheduleInv /\ [Next]_vars => ScheduleInv'
  BY StepSchedule
<1>3. ScheduleInv => PlayedOnSchedule
  BY DEF ScheduleInv, PlayingInv, PlayedOnSchedule
<1> QED
  BY <1>1, <1>2, <1>3, Invariant, PTL DEF Spec

=============================================================================
