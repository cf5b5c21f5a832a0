------------------------- MODULE ResendWindowProofs -------------------------
(***************************************************************************)
(* The window of missing packets holds what is missing and forgets no hole *)
(* that fits, and no packet is decoded twice: for any width of the         *)
(* sequence number, any window, wherever the stream begins and however     *)
(* often the network loses and repeats packets and the stream is reset.    *)
(***************************************************************************)
EXTENDS ResendWindow, FiniteSetTheorems, WellFoundedInduction, TLAPS

(* Sequence numbers wrap; the places of the packets in the stream do not.  *)
Place(s) == OffsetOf(s, FirstSeq)

Windows == [first : Seqs, mask : SUBSET Offsets]

(* The window begins with a hole, and its holes lie before a packet.       *)
Before(w, last) ==
  w.mask # {} => /\ w.first \in Stream /\ 0 \in w.mask
                 /\ \A o \in w.mask : Place(w.first) + o < Place(last)

(* What the receive task has loaded is still so unless a reset met it.     *)
Loaded ==
  recv.pc = "store" =>
    /\ recv.packet.seq \in Stream
    /\ ~overlapped => rtsp = "idle" /\ recv.valid = valid /\ recv.window = window

(* From a reset to the first packet nothing is accepted or missing.        *)
Empty ==
  /\ rtsp # "idle" => ~valid
  /\ ~valid => accepted = NoneAccepted /\ (rtsp \in {"idle", "times"} => window.mask = {})

(* From then on the accepted packets end with the newest.                  *)
Kept ==
  valid =>
    /\ lastSeq \in Stream
    /\ \A s \in Seqs : accepted[s] > 0 => s \in Stream /\ Place(s) <= Place(lastSeq)
    /\ Before(window, lastSeq)
    /\ \A s \in Missing(window) : accepted[s] = 0

IInv == TypeOK /\ Loaded /\ AcceptedOnce /\ (~overlapped => Empty /\ Kept)

-----------------------------------------------------------------------------
(* Arithmetic modulo SeqMod *)

(* A remainder, of a number at most one turn away.                         *)
LEMMA Remainder ==
  ASSUME NEW m \in Nat \ {0}, NEW n \in Int
  PROVE  /\ n % m \in 0 .. m - 1
         /\ n \in 0 .. m - 1 => n % m = n
         /\ n \in -m .. -1 => n % m = n + m
         /\ n \in m .. 2 * m - 1 => n % m = n - m
<1>1. n \div m \in Int /\ n % m \in 0..(m - 1) /\ n = m * (n \div m) + (n % m)
  OBVIOUS
<1> QED
  BY <1>1

(* The constants, and half of SeqMod.                                      *)
LEMMA Sizes ==
  /\ SeqMod \in Nat \ {0} /\ WindowBits \in Nat \ {0} /\ MaxPackets \in Nat \ {0}
  /\ SeqMod \div 2 \in Nat /\ MaxPackets <= SeqMod \div 2 /\ WindowBits <= SeqMod \div 2
  /\ 2 * (SeqMod \div 2) <= SeqMod /\ SeqMod \div 2 < SeqMod
  /\ FirstSeq \in Seqs
  /\ MaxTroubles \in Nat /\ ResetCost \in Nat
<1>1. SeqMod \in Nat \ {0} /\ WindowBits \in Nat \ {0} /\ MaxPackets \in Nat \ {0}
      /\ FirstSeq \in Nat /\ FirstSeq < SeqMod /\ MaxTroubles \in Nat /\ ResetCost \in Nat
      /\ 2 * MaxPackets <= SeqMod /\ 2 * WindowBits < SeqMod
  BY ResendAssumption
<1> DEFINE h == SeqMod \div 2
<1>2. h \in Int /\ SeqMod % 2 \in 0..1 /\ SeqMod = 2 * h + (SeqMod % 2)
  BY <1>1
<1> HIDE DEF h
<1>3. h \in Nat /\ MaxPackets <= h /\ WindowBits <= h /\ 2 * h <= SeqMod /\ h < SeqMod
  BY <1>1, <1>2
<1> QED
  BY <1>1, <1>3 DEF h, Seqs

(* The operations on sequence numbers, by cases.                           *)
LEMMA Offset ==
  ASSUME NEW a \in Seqs, NEW b \in Seqs
  PROVE  /\ OffsetOf(a, b) \in 0 .. SeqMod - 1
         /\ OffsetOf(a, b) = IF a >= b THEN a - b ELSE a - b + SeqMod
<1>1. SeqMod \in Nat \ {0} /\ a \in 0 .. SeqMod - 1 /\ b \in 0 .. SeqMod - 1
  BY Sizes DEF Seqs
<1> DEFINE n == a - b
           r == n % SeqMod
<1>2. n \in Int /\ (a >= b => n \in 0 .. SeqMod - 1) /\ (~(a >= b) => n \in -SeqMod .. -1)
  BY <1>1
<1> HIDE DEF n
<1>3. /\ r \in 0 .. SeqMod - 1
      /\ n \in 0 .. SeqMod - 1 => r = n
      /\ n \in -SeqMod .. -1 => r = n + SeqMod
  BY <1>1, <1>2, Remainder
<1> HIDE DEF r
<1>4. r = IF a >= b THEN n ELSE n + SeqMod
  BY <1>2, <1>3
<1> QED
  BY <1>3, <1>4 DEF n, r, OffsetOf

LEMMA Sum ==
  ASSUME NEW a \in Seqs, NEW n \in 0 .. SeqMod
  PROVE  /\ SeqAdd(a, n) \in Seqs
         /\ SeqAdd(a, n) = IF a + n < SeqMod THEN a + n ELSE a + n - SeqMod
<1>1. SeqMod \in Nat \ {0} /\ a \in 0 .. SeqMod - 1
  BY Sizes DEF Seqs
<1> DEFINE t == a + n
           r == t % SeqMod
<1>2. t \in Int /\ (t < SeqMod => t \in 0 .. SeqMod - 1)
      /\ (~(t < SeqMod) => t \in SeqMod .. 2 * SeqMod - 1)
  BY <1>1
<1> HIDE DEF t
<1>3. /\ r \in 0 .. SeqMod - 1
      /\ t \in 0 .. SeqMod - 1 => r = t
      /\ t \in SeqMod .. 2 * SeqMod - 1 => r = t - SeqMod
  BY <1>1, <1>2, Remainder
<1> HIDE DEF r
<1>4. r = IF t < SeqMod THEN t ELSE t - SeqMod
  BY <1>2, <1>3
<1>5. SeqAdd(a, n) = r
  BY DEF r, t, SeqAdd
<1>6. SeqAdd(a, n) \in Seqs
  BY <1>3, <1>5 DEF Seqs
<1>7. SeqAdd(a, n) = IF a + n < SeqMod THEN a + n ELSE a + n - SeqMod
  BY <1>1, <1>4, <1>5 DEF t
<1> QED
  BY <1>6, <1>7

LEMMA Difference ==
  ASSUME NEW a \in Seqs, NEW b \in Seqs
  PROVE  /\ SeqCmp(a, b) \in Int
         /\ SeqCmp(a, b) = IF OffsetOf(a, b) >= SeqMod \div 2
                           THEN OffsetOf(a, b) - SeqMod ELSE OffsetOf(a, b)
BY Offset, Sizes DEF SeqCmp, OffsetOf

-----------------------------------------------------------------------------
(* Places in the stream *)

(* A packet of the stream is one whose place is less than MaxPackets.      *)
LEMMA PlaceInStream ==
  \A s : s \in Stream <=> s \in Seqs /\ Place(s) < MaxPackets
<1>1. ASSUME NEW s \in Stream PROVE s \in Seqs /\ Place(s) < MaxPackets
  <2>1. PICK k \in 0 .. MaxPackets - 1 : s = SeqAdd(FirstSeq, k)
    BY DEF Stream, Run
  <2>2. k \in 0 .. SeqMod /\ k < SeqMod /\ k \in Nat
    BY Sizes
  <2>3. s \in Seqs /\ s = IF FirstSeq + k < SeqMod THEN FirstSeq + k ELSE FirstSeq + k - SeqMod
    BY <2>1, <2>2, Sum, Sizes
  <2>4. Place(s) = IF s >= FirstSeq THEN s - FirstSeq ELSE s - FirstSeq + SeqMod
    BY <2>3, Offset, Sizes DEF Place
  <2>5. FirstSeq \in 0 .. SeqMod - 1 /\ s \in 0 .. SeqMod - 1
    BY <2>3, Sizes DEF Seqs
  <2> QED
    BY <2>2, <2>3, <2>4, <2>5, Sizes
<1>2. ASSUME NEW s \in Seqs, Place(s) < MaxPackets PROVE s \in Stream
  <2>1. Place(s) \in 0 .. SeqMod - 1
        /\ Place(s) = IF s >= FirstSeq THEN s - FirstSeq ELSE s - FirstSeq + SeqMod
    BY Offset, Sizes DEF Place
  <2>2. Place(s) \in 0 .. MaxPackets - 1 /\ Place(s) \in 0 .. SeqMod
    BY <1>2, <2>1, Sizes
  <2>3. SeqAdd(FirstSeq, Place(s)) = IF FirstSeq + Place(s) < SeqMod THEN FirstSeq + Place(s)
                                     ELSE FirstSeq + Place(s) - SeqMod
    BY <2>2, Sum, Sizes
  <2>4. FirstSeq \in 0 .. SeqMod - 1 /\ s \in 0 .. SeqMod - 1
    BY Sizes DEF Seqs
  <2>5. SeqAdd(FirstSeq, Place(s)) = s
    BY <2>1, <2>3, <2>4, Sizes
  <2> QED
    BY <2>2, <2>5 DEF Stream, Run
<1> QED
  BY <1>1, <1>2

(* Two packets of the stream: their numbers compare as their places do.    *)
LEMMA Places ==
  ASSUME NEW a \in Stream, NEW b \in Stream
  PROVE  /\ a \in Seqs /\ Place(a) \in 0 .. MaxPackets - 1
         /\ Place(a) = Place(b) => a = b
         /\ OffsetOf(a, b) = IF Place(a) >= Place(b) THEN Place(a) - Place(b)
                             ELSE Place(a) - Place(b) + SeqMod
         /\ SeqCmp(a, b) = Place(a) - Place(b)
         /\ SeqAdd(b, 1) \in Seqs
         /\ SeqCmp(a, SeqAdd(b, 1)) = Place(a) - Place(b) - 1
         /\ OffsetOf(SeqAdd(b, 1), a) = IF Place(b) + 1 >= Place(a) THEN Place(b) + 1 - Place(a)
                                        ELSE Place(b) + 1 - Place(a) + SeqMod
<1> DEFINE c == SeqAdd(b, 1)
           f == FirstSeq
<1>1. a \in Seqs /\ b \in Seqs /\ f \in Seqs /\ Place(a) < MaxPackets /\ Place(b) < MaxPackets
  BY PlaceInStream, Sizes
<1>2. 1 \in 0 .. SeqMod
  BY Sizes
<1>3. c \in Seqs /\ c = IF b + 1 < SeqMod THEN b + 1 ELSE b + 1 - SeqMod
  BY <1>1, <1>2, Sum
<1>4. /\ Place(a) = IF a >= f THEN a - f ELSE a - f + SeqMod
      /\ Place(b) = IF b >= f THEN b - f ELSE b - f + SeqMod
  BY <1>1, Offset DEF Place
<1>5. /\ OffsetOf(a, b) = IF a >= b THEN a - b ELSE a - b + SeqMod
      /\ OffsetOf(a, c) = IF a >= c THEN a - c ELSE a - c + SeqMod
      /\ OffsetOf(c, a) = IF c >= a THEN c - a ELSE c - a + SeqMod
  BY <1>1, <1>3, Offset
<1>6. /\ SeqCmp(a, b) = IF OffsetOf(a, b) >= SeqMod \div 2
                        THEN OffsetOf(a, b) - SeqMod ELSE OffsetOf(a, b)
      /\ SeqCmp(a, c) = IF OffsetOf(a, c) >= SeqMod \div 2
                        THEN OffsetOf(a, c) - SeqMod ELSE OffsetOf(a, c)
  BY <1>1, <1>3, Difference
<1>7. a \in 0 .. SeqMod - 1 /\ b \in 0 .. SeqMod - 1 /\ c \in 0 .. SeqMod - 1 /\ f \in 0 .. SeqMod - 1
  BY <1>1, <1>3 DEF Seqs
<1> DEFINE h == SeqMod \div 2
<1>8. /\ h \in Nat /\ MaxPackets \in Nat /\ SeqMod \in Nat /\ MaxPackets <= h /\ 2 * h <= SeqMod
  BY Sizes
<1> HIDE DEF h, c, f
<1>9. Place(a) \in 0 .. MaxPackets - 1 /\ Place(b) \in 0 .. MaxPackets - 1
      /\ (Place(a) = Place(b) => a = b)
  BY <1>1, <1>4, <1>7, <1>8
<1>10. OffsetOf(a, b) = IF Place(a) >= Place(b) THEN Place(a) - Place(b)
                        ELSE Place(a) - Place(b) + SeqMod
  BY <1>1, <1>4, <1>5, <1>7, <1>8
<1>11. OffsetOf(a, c) = IF Place(a) >= Place(b) + 1 THEN Place(a) - Place(b) - 1
                        ELSE Place(a) - Place(b) - 1 + SeqMod
  BY <1>1, <1>3, <1>4, <1>5, <1>7, <1>8, <1>9
<1>12. OffsetOf(c, a) = IF Place(b) + 1 >= Place(a) THEN Place(b) + 1 - Place(a)
                        ELSE Place(b) + 1 - Place(a) + SeqMod
  BY <1>1, <1>3, <1>4, <1>5, <1>7, <1>8, <1>9
<1>13. SeqCmp(a, b) = Place(a) - Place(b)
  BY <1>6, <1>8, <1>9, <1>10 DEF h
<1>14. SeqCmp(a, c) = Place(a) - Place(b) - 1
  BY <1>6, <1>8, <1>9, <1>11 DEF h
<1> QED
  BY <1>1, <1>3, <1>9, <1>10, <1>12, <1>13, <1>14 DEF c

(* The packet n places after another one.                                  *)
LEMMA Onward ==
  ASSUME NEW a \in Stream, NEW n \in Nat, Place(a) + n < MaxPackets
  PROVE  SeqAdd(a, n) \in Stream /\ Place(SeqAdd(a, n)) = Place(a) + n
<1> DEFINE c == SeqAdd(a, n)
<1>1. a \in Seqs /\ FirstSeq \in Seqs /\ Place(a) \in 0 .. MaxPackets - 1
  BY Places, Sizes
<1>2. n \in 0 .. SeqMod
  BY <1>1, Sizes
<1>3. c \in Seqs /\ c = IF a + n < SeqMod THEN a + n ELSE a + n - SeqMod
  BY <1>1, <1>2, Sum
<1> HIDE DEF c
<1>4. /\ Place(a) = IF a >= FirstSeq THEN a - FirstSeq ELSE a - FirstSeq + SeqMod
      /\ Place(c) = IF c >= FirstSeq THEN c - FirstSeq ELSE c - FirstSeq + SeqMod
  BY <1>1, <1>3, Offset DEF Place
<1>5. a \in 0 .. SeqMod - 1 /\ FirstSeq \in 0 .. SeqMod - 1 /\ c \in 0 .. SeqMod - 1
  BY <1>1, <1>3 DEF Seqs
<1>6. MaxPackets \in Nat /\ SeqMod \in Nat /\ MaxPackets <= SeqMod
  BY Sizes
<1>7. Place(c) = Place(a) + n
  BY <1>1, <1>2, <1>3, <1>4, <1>5, <1>6
<1> QED
  BY <1>3, <1>7, PlaceInStream DEF c

-----------------------------------------------------------------------------
(* The window *)

(* A set of natural numbers has a least member: of the finite sets 0 .. x  *)
(* one has no other below it.                                              *)
LEMMA HasLeast ==
  ASSUME NEW S, S \subseteq Nat, S # {}
  PROVE  Min(S) \in S /\ \A x \in S : Min(S) <= x
<1> DEFINE Below(x) == 0 .. x
           T == {Below(x) : x \in S}
           R == StrictSubsetOrdering(Nat)
<1>1. \A x \in S : Below(x) \in FiniteSubsetsOf(Nat)
  <2> SUFFICES ASSUME NEW x \in S PROVE Below(x) \in FiniteSubsetsOf(Nat)
    OBVIOUS
  <2>1. x \in Nat /\ 0 \in Int
    OBVIOUS
  <2>2. IsFiniteSet(0 .. x)
    BY <2>1, FS_Interval
  <2>3. 0 .. x \in SUBSET Nat
    BY <2>1
  <2> QED
    BY <2>2, <2>3 DEF FiniteSubsetsOf
<1>2. T \subseteq FiniteSubsetsOf(Nat) /\ T # {}
  BY <1>1
<1>3. IsWellFoundedOn(R, FiniteSubsetsOf(Nat))
  BY FS_StrictSubsetOrderingWellFounded
<1> HIDE DEF T, R
<1>4. PICK s \in T : \A t \in T : ~ (<<t, s>> \in R)
  BY <1>2, <1>3, WFMin
<1>5. PICK x \in S : s = Below(x)
  BY <1>4 DEF T
<1>6. \A y \in S : x <= y
  <2> SUFFICES ASSUME NEW y \in S, y < x PROVE FALSE
    OBVIOUS
  <2>1. x \in Nat /\ y \in Nat
    OBVIOUS
  <2>2. Below(y) \subseteq Below(x) /\ x \in Below(x) /\ x \notin Below(y)
    BY <2>1, y < x
  <2>3. Below(y) \in SUBSET Nat /\ Below(x) \in SUBSET Nat
    BY <2>1
  <2>4. Below(y) \in T
    BY DEF T
  <2> HIDE DEF Below
  <2>5. <<Below(y), Below(x)>> \in R
    BY <2>2, <2>3 DEF R, StrictSubsetOrdering
  <2> QED
    BY <2>4, <2>5, <1>4, <1>5
<1> QED
  BY <1>6 DEF Min

(* Sliding keeps the window's type.                                        *)
LEMMA SlideType ==
  ASSUME NEW w \in Windows
  PROVE  Slide(w) \in Windows
<1>1. CASE w.mask = {}
  BY <1>1 DEF Slide
<1>2. CASE w.mask # {}
  <2> DEFINE m == Min(w.mask)
  <2>1. w.first \in Seqs /\ w.mask \subseteq Offsets
    BY DEF Windows
  <2>2. w.mask \subseteq Nat
    BY <2>1, Sizes DEF Offsets
  <2>3. m \in w.mask /\ \A o \in w.mask : m <= o
    BY <1>2, <2>2, HasLeast
  <2> HIDE DEF m
  <2>4. SeqAdd(w.first, m) \in Seqs
    <3>1. m \in 0 .. SeqMod
      BY <2>1, <2>3, Sizes DEF Offsets
    <3> QED
      BY <2>1, <3>1, Sum
  <2>5. {o - m : o \in w.mask} \subseteq Offsets
    BY <2>1, <2>3, Sizes DEF Offsets
  <2> QED
    BY <1>2, <2>4, <2>5 DEF Slide, Windows, m
<1> QED
  BY <1>1, <1>2

(* So does adding a gap.                                                   *)
LEMMA TrackType ==
  ASSUME NEW w \in Windows, NEW first \in Seqs, NEW count \in 1 .. WindowBits
  PROVE  TrackMissing(w, first, count) \in Windows
<1>1. w.first \in Seqs /\ w.mask \subseteq Offsets
  BY DEF Windows
<1>2. OffsetOf(first, w.first) \in Nat
  BY <1>1, Offset
<1>3. MaskForCount(count) \subseteq Offsets
  BY DEF MaskForCount
<1>4. FitsWindow(w, first, count) =>
        {OffsetOf(first, w.first) + k : k \in MaskForCount(count)} \subseteq Offsets
  BY <1>2, Sizes DEF FitsWindow, MaskForCount, Offsets
<1> QED
  BY <1>1, <1>3, <1>4 DEF TrackMissing, Windows

(* The hole at an offset, and the offset of a hole.                        *)
LEMMA Holes ==
  ASSUME NEW w \in Windows, NEW last \in Stream, w.mask # {}, w.first \in Stream,
         \A o \in w.mask : Place(w.first) + o < Place(last)
  PROVE  /\ \A o \in w.mask : /\ o \in Nat /\ SeqAdd(w.first, o) \in Stream
                              /\ Place(SeqAdd(w.first, o)) = Place(w.first) + o
         /\ Missing(w) \subseteq Stream
         /\ \A s \in Missing(w) : Place(s) < Place(last)
         /\ \A s \in Stream : IsMissing(w, s) <=> s \in Missing(w)
         /\ \A s \in Missing(w) : /\ OffsetOf(s, w.first) \in w.mask
                                  /\ OffsetOf(s, w.first) = Place(s) - Place(w.first)
<1>1. Place(last) \in 0 .. MaxPackets - 1 /\ Place(w.first) \in 0 .. MaxPackets - 1
  BY Places
<1>2. w.mask \subseteq Nat
  BY Sizes DEF Windows, Offsets
<1>3. ASSUME NEW o \in w.mask
      PROVE  /\ o \in Nat /\ SeqAdd(w.first, o) \in Stream
             /\ Place(SeqAdd(w.first, o)) = Place(w.first) + o
  <2>1. o \in Nat /\ Place(w.first) + o < MaxPackets
    BY <1>1, <1>2, Sizes
  <2> QED
    BY <2>1, Onward
<1>4. ASSUME NEW s \in Stream, IsMissing(w, s) PROVE s \in Missing(w)
  <2> DEFINE o == OffsetOf(s, w.first)
  <2>1. o \in w.mask
    BY <1>4 DEF IsMissing
  <2>2. o = IF Place(s) >= Place(w.first) THEN Place(s) - Place(w.first)
            ELSE Place(s) - Place(w.first) + SeqMod
    BY Places
  <2> HIDE DEF o
  <2>3. Place(s) \in 0 .. MaxPackets - 1
    BY Places
  <2>4. Place(w.first) + o = Place(s)
    BY <1>1, <1>2, <2>1, <2>2, <2>3, Sizes
  <2>5. SeqAdd(w.first, o) = s
    BY <1>3, <2>1, <2>4, Places
  <2> QED
    BY <2>1, <2>5 DEF Missing
<1>5. ASSUME NEW s \in Missing(w)
      PROVE  /\ s \in Stream /\ Place(s) < Place(last)
             /\ OffsetOf(s, w.first) \in w.mask
             /\ OffsetOf(s, w.first) = Place(s) - Place(w.first)
  <2>1. PICK o \in w.mask : s = SeqAdd(w.first, o)
    BY DEF Missing
  <2>2. s \in Stream /\ Place(s) = Place(w.first) + o /\ o \in Nat
    BY <1>3, <2>1
  <2>3. OffsetOf(s, w.first) = IF Place(s) >= Place(w.first) THEN Place(s) - Place(w.first)
                               ELSE Place(s) - Place(w.first) + SeqMod
    BY <2>2, Places
  <2>4. OffsetOf(s, w.first) = o
    BY <1>1, <2>2, <2>3
  <2> QED
    BY <1>1, <2>2, <2>4
<1> QED
  BY <1>3, <1>4, <1>5 DEF IsMissing

(* Sliding brings the first hole to bit 0 and changes no hole.             *)
LEMMA SlideKeepsHoles ==
  ASSUME NEW w \in Windows, NEW last \in Stream, w.mask # {}, w.first \in Stream,
         \A o \in w.mask : Place(w.first) + o < Place(last)
  PROVE  Before(Slide(w), last) /\ Missing(Slide(w)) = Missing(w)
<1> DEFINE m == Min(w.mask)
           f == SeqAdd(w.first, m)
           v == Slide(w)
<1>1. w.mask \subseteq Nat
  BY Sizes DEF Windows, Offsets
<1>2. m \in w.mask /\ \A o \in w.mask : m <= o
  BY <1>1, HasLeast
<1> HIDE DEF m
<1>3. \A o \in w.mask : /\ o \in Nat /\ SeqAdd(w.first, o) \in Stream
                       /\ Place(SeqAdd(w.first, o)) = Place(w.first) + o
  BY Holes
<1>4. f \in Stream /\ Place(f) = Place(w.first) + m
  BY <1>2, <1>3
<1>5. v.first = f /\ v.mask = {o - m : o \in w.mask}
  BY DEF Slide, m
<1> HIDE DEF v, f
<1>6. Place(w.first) \in Nat /\ Place(last) \in 0 .. MaxPackets - 1
  BY Places
<1>7. ASSUME NEW o \in w.mask
      PROVE  /\ o - m \in Nat /\ Place(f) + (o - m) = Place(w.first) + o
             /\ SeqAdd(f, o - m) = SeqAdd(w.first, o)
  <2>1. o - m \in Nat /\ Place(f) + (o - m) = Place(w.first) + o
    BY <1>1, <1>2, <1>4, <1>6
  <2>2. Place(f) + (o - m) < MaxPackets
    BY <1>1, <1>6, <2>1, Sizes
  <2>3. SeqAdd(f, o - m) \in Stream /\ Place(SeqAdd(f, o - m)) = Place(w.first) + o
    BY <1>4, <2>1, <2>2, Onward
  <2> QED
    BY <1>3, <2>1, <2>3, Places
<1>8. 0 \in v.mask
  <2>1. m - m = 0
    BY <1>1, <1>2
  <2> QED
    BY <1>2, <1>5, <2>1
<1>9. \A o \in v.mask : Place(v.first) + o < Place(last)
  BY <1>5, <1>7
<1>10. Missing(v) = Missing(w)
  BY <1>5, <1>7 DEF Missing
<1> QED
  BY <1>4, <1>5, <1>8, <1>9, <1>10 DEF Before, v

(* A packet that comes is no hole any more, and the other holes stay.      *)
LEMMA MarkReceivedFillsHole ==
  ASSUME NEW w \in Windows, NEW last \in Stream, Before(w, last),
         NEW s \in Stream, IsMissing(w, s)
  PROVE  /\ Before(MarkReceived(w, s), last)
         /\ Missing(MarkReceived(w, s)) = Missing(w) \ {s}
         /\ s \in Missing(w) /\ Place(s) < Place(last)
<1> DEFINE d == OffsetOf(s, w.first)
           v == [w EXCEPT !.mask = @ \ {d}]
<1>1. d \in w.mask /\ w.mask # {}
  BY DEF IsMissing
<1>2. w.first \in Stream /\ \A o \in w.mask : Place(w.first) + o < Place(last)
  BY <1>1 DEF Before
<1>3. v \in Windows /\ v.first = w.first /\ v.mask = w.mask \ {d}
  BY DEF Windows
<1>4. /\ \A o \in w.mask : /\ o \in Nat /\ SeqAdd(w.first, o) \in Stream
                           /\ Place(SeqAdd(w.first, o)) = Place(w.first) + o
      /\ s \in Missing(w)
      /\ \A t \in Missing(w) : Place(t) < Place(last)
      /\ d = Place(s) - Place(w.first)
  BY <1>1, <1>2, Holes
<1> HIDE DEF d
<1>5. \A o \in w.mask : SeqAdd(w.first, o) = s <=> o = d
  <2>1. Place(s) \in Nat /\ Place(w.first) \in Nat
    BY <1>2, Places
  <2>2. Place(SeqAdd(w.first, d)) = Place(s)
    BY <1>1, <1>4, <2>1
  <2>3. SeqAdd(w.first, d) = s
    BY <1>1, <1>4, <2>2, Places
  <2> QED
    BY <1>4, <2>1, <2>3
<1>6. Missing(v) = Missing(w) \ {s}
  BY <1>3, <1>5 DEF Missing
<1>7. MarkReceived(w, s) = Slide(v)
  BY DEF MarkReceived, d
<1> HIDE DEF v
<1>8. CASE v.mask = {}
  <2>1. Slide(v) = v
    BY <1>8 DEF Slide
  <2> QED
    BY <1>4, <1>6, <1>7, <1>8, <2>1 DEF Before
<1>9. CASE v.mask # {}
  <2>1. v.first \in Stream /\ \A o \in v.mask : Place(v.first) + o < Place(last)
    BY <1>2, <1>3
  <2>2. Before(Slide(v), last) /\ Missing(Slide(v)) = Missing(v)
    BY <1>3, <1>9, <2>1, SlideKeepsHoles
  <2> QED
    BY <1>4, <1>6, <1>7, <2>2
<1> QED
  BY <1>8, <1>9

(* After a gap its packets are holes, beside the older holes if the gap    *)
(* fits; it does not fit only if it ends further than the window from the  *)
(* oldest hole.                                                            *)
LEMMA TrackMissingAddsHoles ==
  ASSUME NEW w \in Windows, NEW last \in Stream, Before(w, last), NEW s \in Stream,
         NEW n \in 1 .. WindowBits, n = Place(s) - Place(last) - 1
  PROVE  LET e == SeqAdd(last, 1)
             v == TrackMissing(w, e, n)
             fits == w.mask # {} /\ FitsWindow(w, e, n)
         IN  /\ Before(v, s)
             /\ Missing(v) = Run(e, n) \cup (IF fits THEN Missing(w) ELSE {})
             /\ \A t \in Run(e, n) : t \in Stream /\ Place(last) < Place(t)
             /\ w.mask # {} /\ ~fits => Place(s) - Place(w.first) > WindowBits
<1> DEFINE e == SeqAdd(last, 1)
           v == TrackMissing(w, e, n)
           fits == w.mask # {} /\ FitsWindow(w, e, n)
           d == OffsetOf(e, w.first)
<1>1. Place(last) \in 0 .. MaxPackets - 1 /\ Place(s) \in 0 .. MaxPackets - 1 /\ MaxPackets \in Nat
      /\ n \in Nat /\ n >= 1 /\ WindowBits \in Nat
  BY Places, Sizes
<1>2. e \in Stream /\ Place(e) = Place(last) + 1
  BY <1>1, Onward
<1> HIDE DEF e
<1>3. ASSUME NEW k \in 0 .. n - 1
      PROVE  SeqAdd(e, k) \in Stream /\ Place(SeqAdd(e, k)) = Place(e) + k
  <2>1. k \in Nat /\ Place(e) + k < MaxPackets
    BY <1>1, <1>2
  <2> QED
    BY <1>2, <2>1, Onward
<1>4. MaskForCount(n) = 0 .. n - 1
  BY <1>1 DEF MaskForCount, Offsets
<1>5. \A t \in Run(e, n) : t \in Stream /\ Place(last) < Place(t)
  BY <1>1, <1>2, <1>3 DEF Run
<1>6. CASE ~fits
  <2>1. v.first = e /\ v.mask = 0 .. n - 1
    BY <1>4, <1>6 DEF TrackMissing
  <2>2. Missing(v) = Run(e, n)
    BY <2>1 DEF Missing, Run
  <2>3. Before(v, s)
    BY <1>1, <1>2, <2>1 DEF Before
  <2>4. ASSUME w.mask # {} PROVE Place(s) - Place(w.first) > WindowBits
    <3>1. w.first \in Stream /\ 0 \in w.mask /\ Place(w.first) + 0 < Place(last)
      BY <2>4 DEF Before
    <3>2. Place(w.first) \in Nat /\ Place(w.first) < Place(last)
      BY <3>1, Places
    <3>3. d = IF Place(last) + 1 >= Place(w.first) THEN Place(last) + 1 - Place(w.first)
              ELSE Place(last) + 1 - Place(w.first) + SeqMod
      BY <3>1, Places DEF e
    <3> HIDE DEF d
    <3>4. d = Place(last) + 1 - Place(w.first)
      BY <1>1, <3>2, <3>3
    <3>5. ~(d < WindowBits) \/ ~(d + n <= WindowBits)
      BY <1>6, <2>4 DEF FitsWindow, d
    <3> QED
      BY <1>1, <3>2, <3>4, <3>5
  <2> HIDE DEF v, fits
  <2> QED
    BY <1>5, <1>6, <2>2, <2>3, <2>4 DEF v, fits, e
<1>7. CASE fits
  <2>1. w.mask # {} /\ d < WindowBits /\ d + n <= WindowBits
    BY <1>7 DEF FitsWindow
  <2>2. w.first \in Stream /\ 0 \in w.mask /\ \A o \in w.mask : Place(w.first) + o < Place(last)
    BY <2>1 DEF Before
  <2>3. Place(w.first) \in Nat /\ Place(w.first) + 0 < Place(last)
    BY <2>2, Places
  <2>4. d = IF Place(last) + 1 >= Place(w.first) THEN Place(last) + 1 - Place(w.first)
            ELSE Place(last) + 1 - Place(w.first) + SeqMod
    BY <2>2, Places DEF e
  <2>5. v.first = w.first /\ v.mask = w.mask \cup {d + k : k \in 0 .. n - 1}
    BY <1>4, <1>7 DEF TrackMissing, Windows
  <2> HIDE DEF d, v
  <2>6. d = Place(e) - Place(w.first) /\ d \in Nat
    BY <1>1, <1>2, <2>3, <2>4
  <2>7. \A o \in w.mask : o \in Nat
    BY Sizes DEF Windows, Offsets
  <2>8. \A o \in v.mask : Place(v.first) + o < Place(s)
    <3>1. ASSUME NEW o \in w.mask PROVE Place(w.first) + o < Place(s)
      BY <1>1, <2>2, <2>3, <2>7
    <3>2. ASSUME NEW k \in 0 .. n - 1 PROVE Place(w.first) + (d + k) < Place(s)
      BY <1>1, <1>2, <2>3, <2>6
    <3> QED
      BY <2>5, <3>1, <3>2
  <2>9. Before(v, s)
    BY <2>2, <2>5, <2>8 DEF Before
  <2>10. ASSUME NEW k \in 0 .. n - 1 PROVE SeqAdd(w.first, d + k) = SeqAdd(e, k)
    <3>1. SeqAdd(e, k) \in Stream /\ Place(SeqAdd(e, k)) = Place(e) + k
      BY <1>3
    <3>2. Place(SeqAdd(e, k)) < MaxPackets
      BY <3>1, PlaceInStream
    <3>3. d + k \in Nat /\ Place(w.first) + (d + k) = Place(e) + k
      BY <1>1, <1>2, <2>3, <2>6
    <3>4. SeqAdd(w.first, d + k) \in Stream
          /\ Place(SeqAdd(w.first, d + k)) = Place(w.first) + (d + k)
      BY <2>2, <3>1, <3>2, <3>3, Onward
    <3> QED
      BY <3>1, <3>3, <3>4, Places
  <2>11. Missing(v) = Run(e, n) \cup Missing(w)
    BY <2>5, <2>10 DEF Missing, Run
  <2> HIDE DEF fits
  <2> QED
    BY <1>5, <1>7, <2>9, <2>11 DEF v, fits, e
<1> QED
  BY <1>6, <1>7

-----------------------------------------------------------------------------
(* Types *)

(* A run of packets, the first range of holes and the packets the sender   *)
(* sends have sequence numbers.                                            *)
LEMMA NumbersType ==
  /\ \A first \in Seqs : \A count \in 1 .. WindowBits : Run(first, count) \subseteq Seqs
  /\ \A w \in Windows : NextRange(w) \subseteq Seqs
  /\ StreamPackets \subseteq Packets /\ Stream \subseteq Seqs
<1>1. ASSUME NEW first \in Seqs, NEW k \in 0 .. WindowBits PROVE SeqAdd(first, k) \in Seqs
  <2>1. k \in 0 .. SeqMod
    BY Sizes
  <2> QED
    BY <2>1, Sum
<1>2. ASSUME NEW first \in Seqs, NEW count \in 1 .. WindowBits, NEW k \in 0 .. count - 1
      PROVE  k \in 0 .. WindowBits
  BY Sizes
<1>3. \A first \in Seqs : \A count \in 1 .. WindowBits : Run(first, count) \subseteq Seqs
  BY <1>1, <1>2 DEF Run
<1>4. \A o \in Offsets : o \in 0 .. WindowBits
  BY Sizes DEF Offsets
<1>5. \A w \in Windows : NextRange(w) \subseteq Seqs
  BY <1>1, <1>4 DEF NextRange, Windows
<1>6. Stream \subseteq Seqs
  BY PlaceInStream
<1>7. StreamPackets \subseteq Packets
  BY <1>6 DEF StreamPackets, Packets
<1> QED
  BY <1>3, <1>5, <1>6, <1>7

(* A request asks for packets, or is refused.                              *)
LEMMA RequestType ==
  ASSUME TypeOK, NEW seqs \in SUBSET Seqs, Request(seqs)
  PROVE  /\ asked' \in SUBSET Seqs /\ sinceAsk' \in {"never", "recent", "due"}
         /\ backoff' \in BOOLEAN /\ troubles' \in 0 .. MaxTroubles
<1>1. CASE ~enabled \/ backoff
  BY <1>1 DEF TypeOK, Request
<1>2. CASE /\ asked' = asked \cup (seqs \cap Sent) /\ sinceAsk' = "recent"
           /\ UNCHANGED <<backoff, troubles>>
  BY <1>2 DEF TypeOK
<1>3. CASE /\ troubles < MaxTroubles /\ troubles' = troubles + 1 /\ backoff' = TRUE
           /\ UNCHANGED <<asked, sinceAsk>>
  <2>1. troubles' \in 0 .. MaxTroubles
    BY <1>3, Sizes DEF TypeOK
  <2> QED
    BY <1>3, <2>1 DEF TypeOK
<1> QED
  BY <1>1, <1>2, <1>3 DEF Request

(* The receive task at rest.                                               *)
LEMMA IdleType ==
  Idle \in [pc : {"idle", "store", "retry"}, packet : Packets, valid : BOOLEAN,
            window : [first : Seqs, mask : SUBSET Offsets]]
BY Sizes DEF Idle, Packet, Packets, NoWindow, Seqs

(* Accepting a packet.                                                     *)
LEMMA AcceptType ==
  ASSUME TypeOK, Accept
  PROVE  /\ accepted' \in [Seqs -> 0 .. 2]
         /\ recv' \in [pc : {"idle", "store", "retry"}, packet : Packets, valid : BOOLEAN,
                       window : Windows]
         /\ recv'.pc = "retry"
<1>1. recv.packet.seq \in Seqs
  BY DEF TypeOK, Packets
<1>2. NoneAccepted \in [Seqs -> 0 .. 2]
  BY DEF NoneAccepted
<1>3. accepted' \in [Seqs -> 0 .. 2]
  BY <1>1, <1>2 DEF TypeOK, Accept
<1> QED
  BY <1>3, IdleType DEF Accept, Windows

(* The type invariant holds at first.                                      *)
LEMMA InitType == Init => TypeOK
<1> SUFFICES ASSUME Init PROVE TypeOK
  OBVIOUS
<1> USE DEF Init
<1>1. sent \in 0 .. MaxPackets /\ troubles \in 0 .. MaxTroubles
  BY Sizes
<1>2. network \in SUBSET Packets /\ asked \in SUBSET Seqs
  OBVIOUS
<1>3. window \in [first : Seqs, mask : SUBSET Offsets] /\ lastSeq \in Seqs
  BY Sizes DEF NoWindow, Seqs
<1>4. accepted \in [Seqs -> 0 .. 2]
  BY DEF NoneAccepted
<1>5. /\ valid \in BOOLEAN /\ backoff \in BOOLEAN /\ enabled \in BOOLEAN /\ overlapped \in BOOLEAN
      /\ sinceAsk \in {"never", "recent", "due"} /\ rtsp \in {"idle", "first", "mask", "times"}
  OBVIOUS
<1> QED
  BY <1>1, <1>2, <1>3, <1>4, <1>5, IdleType DEF TypeOK

(* Every step keeps the types.                                             *)
LEMMA StepType ==
  ASSUME TypeOK, [Next]_vars
  PROVE  TypeOK'
<1> USE DEF TypeOK
<1>1. CASE SendPacket
  <2>1. sent' \in 0 .. MaxPackets
    BY <1>1, Sizes DEF SendPacket
  <2>2. SeqAdd(FirstSeq, sent) \in Seqs
    BY Sum, Sizes
  <2> QED
    BY <1>1, <2>1, <2>2 DEF SendPacket, Packet, Packets
<1>2. CASE LosePacket
  BY <1>2, Sizes DEF LosePacket
<1>3. CASE LoseRequest
  BY <1>3, Sizes DEF LoseRequest
<1>4. CASE RetryIntervalPasses
  BY <1>4 DEF RetryIntervalPasses
<1>5. CASE BackoffPasses
  BY <1>5 DEF BackoffPasses
<1>6. ASSUME NEW seq \in Seqs, Answer(seq) PROVE TypeOK'
  BY <1>6 DEF Answer, Packet, Packets
<1>7. ASSUME NEW p \in StreamPackets, Forward(p) PROVE TypeOK'
  <2>1. p \in Packets
    BY NumbersType
  <2> QED
    BY <1>7, <2>1 DEF Forward, Packet, Packets
<1>8. ASSUME NEW p \in StreamPackets, Load(p) PROVE TypeOK'
  <2>1. p \in Packets /\ NoneAccepted \in [Seqs -> 0 .. 2]
    BY NumbersType DEF NoneAccepted
  <2> QED
    BY <1>8, <2>1, Sizes DEF Load
<1>9. CASE AcceptFirst
  <2>1. recv.packet.seq \in Seqs
    BY DEF Packets
  <2> QED
    BY <1>9, <2>1, AcceptType DEF AcceptFirst, Windows
<1>10. CASE AcceptInOrder
  <2>1. recv.packet.seq \in Seqs
    BY DEF Packets
  <2> QED
    BY <1>10, <2>1, AcceptType DEF AcceptInOrder, Windows
<1>11. CASE AcceptAfterGap
  <2>1. recv.packet.seq \in Seqs /\ recv.window \in Windows
    BY DEF Packets, Windows
  <2>2. Expected \in Seqs
    BY Sum, Sizes DEF Expected
  <2>3. Delta \in 1 .. WindowBits
    BY <1>11 DEF AcceptAfterGap
  <2>4. TrackMissing(recv.window, Expected, Delta) \in Windows
    BY <2>1, <2>2, <2>3, TrackType
  <2>5. window' \in [first : Seqs, mask : SUBSET Offsets]
    BY <1>11, <2>4 DEF AcceptAfterGap, StoreWindow, Windows
  <2>6. Run(Expected, Delta) \in SUBSET Seqs
    BY <2>2, <2>3, NumbersType
  <2>7. /\ asked' \in SUBSET Seqs /\ sinceAsk' \in {"never", "recent", "due"}
        /\ backoff' \in BOOLEAN /\ troubles' \in 0 .. MaxTroubles
    BY <1>11, <2>6, RequestType DEF AcceptAfterGap
  <2> QED
    BY <1>11, <2>1, <2>5, <2>7, AcceptType DEF AcceptAfterGap, Windows
<1>12. CASE AcceptMissing
  <2>1. recv.window \in Windows
    BY DEF Windows
  <2>2. MarkReceived(recv.window, recv.packet.seq) \in Windows
    <3> DEFINE v == [recv.window EXCEPT !.mask = @ \ {OffsetOf(recv.packet.seq, recv.window.first)}]
    <3>1. v \in Windows
      BY <2>1 DEF Windows
    <3> HIDE DEF v
    <3>2. Slide(v) \in Windows
      BY <3>1, SlideType
    <3> QED
      BY <3>2 DEF MarkReceived, v
  <2>3. window' \in [first : Seqs, mask : SUBSET Offsets]
    BY <1>12, <2>2 DEF AcceptMissing, StoreWindow, Windows
  <2>4. sinceAsk' \in {"never", "recent", "due"}
    BY <1>12 DEF AcceptMissing
  <2> QED
    BY <1>12, <2>3, <2>4, AcceptType DEF AcceptMissing, Windows
<1>13. CASE DropStale
  BY <1>13, IdleType DEF DropStale
<1>14. CASE RetryIfDue
  <2>1. NextRange(window) \in SUBSET Seqs
    BY NumbersType DEF Windows
  <2>2. /\ asked' \in SUBSET Seqs /\ sinceAsk' \in {"never", "recent", "due"}
        /\ backoff' \in BOOLEAN /\ troubles' \in 0 .. MaxTroubles
    BY <1>14, <2>1, RequestType DEF RetryIfDue
  <2>3. /\ recv' = Idle
        /\ UNCHANGED <<sent, network, window, lastSeq, valid, enabled, rtsp, accepted, overlapped>>
    BY <1>14 DEF RetryIfDue
  <2> QED
    BY <2>2, <2>3, IdleType
<1>15. CASE ResetValid
  <2>1. NoneAccepted \in [Seqs -> 0 .. 2] /\ troubles' \in 0 .. MaxTroubles
    BY <1>15, Sizes DEF NoneAccepted, ResetValid
  <2>2. overlapped' \in BOOLEAN
    BY <1>15 DEF ResetValid
  <2>3. /\ enabled' \in BOOLEAN /\ valid' = FALSE /\ rtsp' = "first" /\ accepted' = NoneAccepted
        /\ UNCHANGED <<sent, network, asked, window, lastSeq, sinceAsk, backoff, recv>>
    BY <1>15 DEF ResetValid
  <2> QED
    BY <2>1, <2>2, <2>3
<1>16. CASE ResetFirst
  <2>1. 0 \in Seqs
    BY Sizes DEF Seqs
  <2>2. window' \in [first : Seqs, mask : SUBSET Offsets]
    BY <1>16, <2>1 DEF ResetFirst
  <2> QED
    BY <1>16, <2>2 DEF ResetFirst
<1>17. CASE ResetMask
  BY <1>17 DEF ResetMask
<1>18. CASE ResetTimes
  BY <1>18 DEF ResetTimes
<1>19. CASE UNCHANGED vars
  BY <1>19 DEF vars
<1> QED
  BY <1>1, <1>2, <1>3, <1>4, <1>5, <1>6, <1>7, <1>8, <1>9, <1>10, <1>11, <1>12, <1>13, <1>14,
     <1>15, <1>16, <1>17, <1>18, <1>19 DEF Next, Store, Reset

-----------------------------------------------------------------------------
(* The receive task's steps while no reset has met it *)

(* A packet not accepted before is then accepted once.                     *)
LEMMA AcceptNew ==
  ASSUME TypeOK, ~overlapped, Accept, recv.packet.seq \in Seqs, accepted[recv.packet.seq] = 0
  PROVE  \A s \in Seqs : accepted'[s] = IF s = recv.packet.seq THEN 1 ELSE accepted[s]
BY DEF TypeOK, Accept

(* The numbers of the packet in hand and of the newest are in the stream,  *)
(* so their difference is that of their places.                            *)
LEMMA PacketInHand ==
  ASSUME IInv, ~overlapped, recv.pc = "store"
  PROVE  /\ recv.packet.seq \in Stream /\ recv.packet.seq \in Seqs
         /\ recv.valid = valid /\ recv.window = window /\ window \in Windows /\ rtsp = "idle"
         /\ ~valid => accepted = NoneAccepted /\ window.mask = {}
         /\ valid => /\ lastSeq \in Stream /\ Before(window, lastSeq)
                     /\ Delta = Place(recv.packet.seq) - Place(lastSeq) - 1
                     /\ Place(recv.packet.seq) \in Nat /\ Place(lastSeq) \in Nat
                     /\ Expected = SeqAdd(lastSeq, 1)
<1>1. /\ recv.packet.seq \in Stream
      /\ recv.valid = valid /\ recv.window = window /\ window \in Windows /\ rtsp = "idle"
      /\ ~valid => accepted = NoneAccepted /\ window.mask = {}
      /\ valid => lastSeq \in Stream /\ Before(window, lastSeq)
  BY DEF IInv, TypeOK, Windows, Loaded, Empty, Kept
<1>2. ASSUME valid
      PROVE  /\ Delta = Place(recv.packet.seq) - Place(lastSeq) - 1
             /\ Place(recv.packet.seq) \in Nat /\ Place(lastSeq) \in Nat
  BY <1>1, <1>2, Places DEF Delta, Expected
<1> QED
  BY <1>1, <1>2, PlaceInStream DEF Expected

(* A packet that a gap precedes: the window gets the gap.                  *)
LEMMA GapIsTracked ==
  ASSUME IInv, ~overlapped, AcceptAfterGap
  PROVE  /\ recv.pc = "store" /\ valid /\ lastSeq' = recv.packet.seq /\ Accept
         /\ Delta \in 1 .. WindowBits
         /\ window' = TrackMissing(window, Expected, Delta)
<1>1. /\ recv.pc = "store" /\ recv.valid /\ lastSeq' = recv.packet.seq /\ Accept
      /\ Delta \in 1 .. WindowBits
      /\ StoreWindow(TrackMissing(recv.window, Expected, Delta),
                     recv.window.mask = {} \/ ~FitsWindow(recv.window, Expected, Delta))
  BY DEF AcceptAfterGap, Handles
<1>2. recv.window = window /\ recv.valid = valid /\ window \in Windows
  BY <1>1, PacketInHand
<1>3. CASE window.mask # {} /\ FitsWindow(window, Expected, Delta)
  <2>1. TrackMissing(window, Expected, Delta).first = window.first
    BY <1>2, <1>3 DEF TrackMissing, Windows
  <2>2. window' = [first |-> window.first, mask |-> TrackMissing(window, Expected, Delta).mask]
    BY <1>1, <1>2, <1>3 DEF StoreWindow
  <2>3. TrackMissing(window, Expected, Delta) =
          [first |-> window.first, mask |-> TrackMissing(window, Expected, Delta).mask]
    BY <1>2, <1>3, <2>1 DEF TrackMissing, Windows
  <2> QED
    BY <1>1, <1>2, <2>2, <2>3
<1>4. CASE ~(window.mask # {} /\ FitsWindow(window, Expected, Delta))
  BY <1>1, <1>2, <1>4 DEF StoreWindow, TrackMissing
<1> QED
  BY <1>3, <1>4

(* A packet that fills a hole: the window loses it.                        *)
LEMMA HoleIsFilled ==
  ASSUME IInv, ~overlapped, AcceptMissing
  PROVE  /\ recv.pc = "store" /\ valid /\ lastSeq' = lastSeq /\ Accept
         /\ IsMissing(window, recv.packet.seq)
         /\ window' = MarkReceived(window, recv.packet.seq)
<1> DEFINE w == MarkReceived(recv.window, recv.packet.seq)
<1>1. /\ recv.pc = "store" /\ lastSeq' = lastSeq /\ Accept
      /\ IsMissing(recv.window, recv.packet.seq)
      /\ StoreWindow(w, w.first # recv.window.first)
  BY DEF AcceptMissing, IsLate, Handles
<1>2. recv.window = window /\ window \in Windows /\ (~valid => window.mask = {})
  BY <1>1, PacketInHand
<1>3. valid
  BY <1>1, <1>2 DEF IsMissing, IInv, TypeOK
<1>4. w \in Windows
  <2> DEFINE v == [window EXCEPT !.mask = @ \ {OffsetOf(recv.packet.seq, window.first)}]
  <2>1. v \in Windows
    BY <1>2 DEF Windows
  <2> HIDE DEF v
  <2>2. Slide(v) \in Windows
    BY <2>1, SlideType
  <2> QED
    BY <1>2, <2>2 DEF MarkReceived, v
<1> HIDE DEF w
<1>5. window' = w
  BY <1>1, <1>2, <1>4 DEF StoreWindow, Windows
<1> QED
  BY <1>1, <1>2, <1>3, <1>5 DEF w

-----------------------------------------------------------------------------
(* The invariant *)

(* It holds at first: nothing is accepted or missing.                      *)
LEMMA InitIInv == Init => IInv
<1> SUFFICES ASSUME Init PROVE IInv
  OBVIOUS
<1>1. TypeOK
  BY InitType
<1>2. Loaded
  BY DEF Init, Loaded, Idle
<1>3. AcceptedOnce
  BY DEF Init, AcceptedOnce, NoneAccepted
<1>4. Empty /\ Kept
  BY DEF Init, Empty, Kept, NoWindow
<1> QED
  BY <1>1, <1>2, <1>3, <1>4 DEF IInv

(* A step that accepts a packet keeps what is known of the accepted ones.  *)
LEMMA AcceptKeeps ==
  ASSUME IInv, TypeOK', ~overlapped, UNCHANGED <<overlapped, rtsp>>, Accept,
         recv.pc = "store", accepted[recv.packet.seq] = 0,
         valid', lastSeq' \in Stream,
         valid => Place(lastSeq) <= Place(lastSeq'),
         Place(recv.packet.seq) <= Place(lastSeq'),
         Before(window', lastSeq'),
         \A s \in Missing(window') : s # recv.packet.seq /\ s \in Seqs /\ accepted[s] = 0
  PROVE  IInv'
<1>1. /\ recv.packet.seq \in Stream /\ recv.packet.seq \in Seqs /\ rtsp = "idle"
      /\ ~valid => accepted = NoneAccepted
  BY PacketInHand
<1>2. \A s \in Seqs : accepted'[s] = IF s = recv.packet.seq THEN 1 ELSE accepted[s]
  BY <1>1, AcceptNew DEF IInv
<1>3. /\ \A s \in Seqs : accepted[s] \in 0 .. 2 /\ accepted[s] <= 1
      /\ valid => \A s \in Seqs : accepted[s] > 0 => s \in Stream /\ Place(s) <= Place(lastSeq)
  BY DEF IInv, TypeOK, AcceptedOnce, Kept
<1>4. Loaded'
  BY DEF Loaded, Accept, Idle
<1>5. AcceptedOnce'
  BY <1>2, <1>3 DEF AcceptedOnce
<1>6. Empty'
  BY <1>1 DEF Empty
<1>7. ASSUME NEW s \in Seqs, accepted'[s] > 0
      PROVE  s \in Stream /\ Place(s) <= Place(lastSeq')
  <2>1. CASE s = recv.packet.seq
    BY <1>1, <2>1
  <2>2. CASE s # recv.packet.seq
    <3>1. accepted[s] > 0
      BY <1>2, <1>7, <2>2
    <3>2. valid
      BY <1>1, <3>1 DEF NoneAccepted, IInv, TypeOK
    <3>3. s \in Stream /\ Place(s) <= Place(lastSeq) /\ lastSeq \in Stream
      BY <1>3, <3>1, <3>2 DEF IInv, Kept
    <3>4. Place(s) \in Nat /\ Place(lastSeq) \in Nat /\ Place(lastSeq') \in Nat
      BY <3>3, Places
    <3> QED
      BY <3>2, <3>3, <3>4
  <2> QED
    BY <2>1, <2>2
<1>8. \A s \in Missing(window') : accepted'[s] = 0
  BY <1>2
<1>9. Kept'
  BY <1>7, <1>8 DEF Kept, Before, Place, Missing
<1> QED
  BY <1>4, <1>5, <1>6, <1>9 DEF IInv

(* Every step keeps the invariant.                                         *)
LEMMA StepIInv ==
  ASSUME IInv, [Next]_vars
  PROVE  IInv'
<1>1. TypeOK /\ TypeOK'
  BY StepType DEF IInv
<1> DEFINE known == <<window, lastSeq, valid, recv, rtsp, accepted, overlapped>>
<1>2. ASSUME UNCHANGED known PROVE IInv'
  <2>1. Loaded' /\ AcceptedOnce' /\ (~overlapped' => Empty' /\ Kept')
    BY <1>2 DEF IInv, Loaded, AcceptedOnce, Empty, Kept, Before, Missing, Place
  <2> QED
    BY <1>1, <2>1 DEF IInv
<1>3. CASE SendPacket
  BY <1>2, <1>3 DEF SendPacket
<1>4. CASE LosePacket
  BY <1>2, <1>4 DEF LosePacket
<1>5. CASE LoseRequest
  BY <1>2, <1>5 DEF LoseRequest
<1>6. CASE RetryIntervalPasses
  BY <1>2, <1>6 DEF RetryIntervalPasses
<1>7. CASE BackoffPasses
  BY <1>2, <1>7 DEF BackoffPasses
<1>8. ASSUME NEW seq \in Seqs, Answer(seq) PROVE IInv'
  BY <1>2, <1>8 DEF Answer
<1>9. ASSUME NEW p \in StreamPackets, Forward(p) PROVE IInv'
  BY <1>2, <1>9 DEF Forward
<1>10. ASSUME NEW p \in StreamPackets, Load(p) PROVE IInv'
  <2>1. /\ recv' = [pc |-> "store", packet |-> p, valid |-> valid, window |-> window]
        /\ overlapped' = (overlapped \/ rtsp # "idle")
        /\ accepted' = IF overlapped' THEN NoneAccepted ELSE accepted
        /\ UNCHANGED <<window, lastSeq, valid, rtsp>>
    BY <1>10 DEF Load
  <2>2. p.seq \in Stream
    BY DEF StreamPackets
  <2>3. Loaded'
    BY <2>1, <2>2 DEF Loaded
  <2>4. ~overlapped' => ~overlapped /\ UNCHANGED accepted
    BY <2>1
  <2>5. AcceptedOnce'
    BY <2>4 DEF IInv, AcceptedOnce
  <2>6. ~overlapped' => Empty' /\ Kept'
    BY <2>1, <2>4 DEF IInv, Empty, Kept, Before, Missing, Place
  <2> QED
    BY <1>1, <2>3, <2>5, <2>6 DEF IInv
<1>11. ASSUME overlapped, overlapped', recv'.pc # "store" PROVE IInv'
  BY <1>1, <1>11 DEF IInv, Loaded, AcceptedOnce
<1>12. CASE AcceptFirst
  <2>1. /\ recv.pc = "store" /\ ~recv.valid /\ valid' = TRUE /\ lastSeq' = recv.packet.seq
        /\ Accept /\ UNCHANGED <<window, overlapped, rtsp>> /\ recv'.pc = "retry"
    BY <1>12 DEF AcceptFirst, Handles, Accept, Idle
  <2>2. CASE ~overlapped
    <3>1. /\ recv.packet.seq \in Stream /\ recv.packet.seq \in Seqs
          /\ ~valid /\ accepted = NoneAccepted /\ window.mask = {}
      BY <2>1, <2>2, PacketInHand
    <3>2. accepted[recv.packet.seq] = 0
      BY <3>1 DEF NoneAccepted
    <3>3. Before(window', lastSeq') /\ Missing(window') = {}
      BY <2>1, <3>1 DEF Before, Missing
    <3>4. Place(recv.packet.seq) \in Nat
      BY <3>1, Places
    <3> QED
      BY <1>1, <2>1, <2>2, <3>1, <3>2, <3>3, <3>4, AcceptKeeps
  <2> QED
    BY <1>11, <2>1, <2>2 DEF IInv, TypeOK
<1>13. CASE AcceptInOrder
  <2>1. /\ recv.pc = "store" /\ recv.valid /\ (Delta = 0 \/ Delta > WindowBits)
        /\ lastSeq' = recv.packet.seq
        /\ Accept /\ UNCHANGED <<window, valid, overlapped, rtsp>> /\ recv'.pc = "retry"
    BY <1>13 DEF AcceptInOrder, Handles, Accept, Idle
  <2>2. CASE ~overlapped
    <3>1. /\ recv.packet.seq \in Stream /\ recv.packet.seq \in Seqs
          /\ valid /\ lastSeq \in Stream /\ Before(window, lastSeq) /\ window \in Windows
          /\ Delta = Place(recv.packet.seq) - Place(lastSeq) - 1
          /\ Place(recv.packet.seq) \in Nat /\ Place(lastSeq) \in Nat
      BY <2>1, <2>2, PacketInHand
    <3>2. Place(lastSeq) < Place(recv.packet.seq)
      BY <2>1, <3>1, Sizes
    <3>3. accepted[recv.packet.seq] = 0
      <4>1. accepted[recv.packet.seq] \in 0 .. 2
        BY <3>1 DEF IInv, TypeOK
      <4>2. accepted[recv.packet.seq] > 0 => Place(recv.packet.seq) <= Place(lastSeq)
        BY <2>2, <3>1 DEF IInv, Kept
      <4> QED
        BY <3>1, <3>2, <4>1, <4>2
    <3>4. Before(window, lastSeq')
      <4>1. ASSUME NEW o \in window.mask, Place(window.first) + o < Place(lastSeq),
                   window.first \in Stream
            PROVE  Place(window.first) + o < Place(recv.packet.seq)
        <5>1. o \in Nat /\ Place(window.first) \in Nat
          BY <3>1, <4>1, Places, Sizes DEF Windows, Offsets
        <5> QED
          BY <3>1, <3>2, <4>1, <5>1
      <4> QED
        BY <2>1, <3>1, <4>1 DEF Before
    <3>5. ASSUME NEW s \in Missing(window)
          PROVE  s # recv.packet.seq /\ s \in Seqs /\ accepted[s] = 0
      <4>1. window.mask # {} /\ accepted[s] = 0
        BY <2>2, <3>1 DEF Missing, IInv, Kept
      <4>2. s \in Stream /\ Place(s) < Place(lastSeq)
        BY <3>1, <4>1, Holes DEF Before
      <4>3. s \in Seqs /\ Place(s) \in Nat
        BY <4>2, Places
      <4> QED
        BY <3>1, <3>2, <4>1, <4>2, <4>3
    <3> QED
      BY <1>1, <2>1, <2>2, <3>1, <3>2, <3>3, <3>4, <3>5, AcceptKeeps
  <2> QED
    BY <1>11, <2>1, <2>2 DEF IInv, TypeOK
<1>14. CASE AcceptAfterGap
  <2>1. /\ UNCHANGED <<valid, overlapped, rtsp>> /\ recv'.pc = "retry"
    BY <1>14 DEF AcceptAfterGap, Accept, Idle
  <2>2. CASE ~overlapped
    <3> DEFINE q == recv.packet.seq
    <3>1. /\ recv.pc = "store" /\ valid /\ lastSeq' = q /\ Accept
          /\ Delta \in 1 .. WindowBits
          /\ window' = TrackMissing(window, Expected, Delta)
      BY <1>14, <2>2, GapIsTracked
    <3>2. /\ q \in Stream /\ q \in Seqs
          /\ lastSeq \in Stream /\ Before(window, lastSeq) /\ window \in Windows
          /\ Delta = Place(q) - Place(lastSeq) - 1 /\ Expected = SeqAdd(lastSeq, 1)
          /\ Place(q) \in Nat /\ Place(lastSeq) \in Nat
      BY <2>2, <3>1, PacketInHand
    <3>3. Place(lastSeq) < Place(q)
      BY <3>1, <3>2, Sizes
    <3>4. \A s \in Seqs : accepted[s] > 0 => Place(s) <= Place(lastSeq)
      BY <2>2, <3>1 DEF IInv, Kept
    <3>5. \A s \in Seqs : accepted[s] \in 0 .. 2
      BY <1>1 DEF TypeOK
    <3>6. accepted[q] = 0
      BY <3>2, <3>3, <3>4, <3>5
    <3>7. /\ Before(window', q)
          /\ \A s \in Missing(window') : s \in Run(Expected, Delta) \/ (window.mask # {} /\ s \in Missing(window))
          /\ \A s \in Run(Expected, Delta) : s \in Stream /\ Place(lastSeq) < Place(s)
      BY <3>1, <3>2, TrackMissingAddsHoles
    <3>8. window' \in Windows
      BY <1>1 DEF TypeOK, Windows
    <3>9. ASSUME NEW s \in Missing(window') PROVE s # q /\ s \in Seqs /\ accepted[s] = 0
      <4>1. window'.mask # {}
        BY <3>9 DEF Missing
      <4>2. s \in Stream /\ Place(s) < Place(q)
        BY <3>2, <3>7, <3>8, <4>1, Holes DEF Before
      <4>3. s \in Seqs /\ Place(s) \in Nat
        BY <4>2, Places
      <4>4. s # q
        BY <3>2, <4>2, <4>3
      <4>5. CASE s \in Run(Expected, Delta)
        <5>1. Place(lastSeq) < Place(s)
          BY <3>7, <4>5
        <5> QED
          BY <3>2, <3>4, <3>5, <4>3, <4>4, <5>1
      <4>6. CASE s \in Missing(window)
        BY <2>2, <3>1, <4>3, <4>4, <4>6 DEF IInv, Kept
      <4> QED
        BY <3>7, <4>5, <4>6
    <3>10. lastSeq' \in Stream /\ Place(lastSeq) <= Place(lastSeq') /\ Place(q) <= Place(lastSeq')
      BY <3>1, <3>2, <3>3
    <3> QED
      BY <1>1, <2>1, <2>2, <3>1, <3>6, <3>7, <3>9, <3>10, AcceptKeeps
  <2> QED
    BY <1>11, <2>1, <2>2 DEF IInv, TypeOK
<1>15. CASE AcceptMissing
  <2>1. /\ UNCHANGED <<valid, overlapped, rtsp>> /\ recv'.pc = "retry"
    BY <1>15 DEF AcceptMissing, Accept, Idle
  <2>2. CASE ~overlapped
    <3> DEFINE q == recv.packet.seq
    <3>1. /\ recv.pc = "store" /\ valid /\ lastSeq' = lastSeq /\ Accept
          /\ IsMissing(window, q) /\ window' = MarkReceived(window, q)
      BY <1>15, <2>2, HoleIsFilled
    <3>2. /\ q \in Stream /\ q \in Seqs /\ lastSeq \in Stream /\ Before(window, lastSeq)
          /\ window \in Windows /\ Place(q) \in Nat /\ Place(lastSeq) \in Nat
      BY <2>2, <3>1, PacketInHand
    <3>3. /\ Before(window', lastSeq) /\ Missing(window') = Missing(window) \ {q}
          /\ q \in Missing(window) /\ Place(q) < Place(lastSeq)
      BY <3>1, <3>2, MarkReceivedFillsHole
    <3>4. \A s \in Missing(window) : accepted[s] = 0
      BY <2>2, <3>1 DEF IInv, Kept
    <3>5. \A s \in Missing(window) : s \in Seqs
      <4>1. window.mask # {} /\ Missing(window) \subseteq Stream
        BY <3>2, <3>3, Holes DEF Before, Missing
      <4> QED
        BY <4>1, PlaceInStream
    <3>6. Before(window', lastSeq')
      BY <3>1, <3>3
    <3>7. \A s \in Missing(window') : s # q /\ s \in Seqs /\ accepted[s] = 0
      BY <3>3, <3>4, <3>5
    <3>8. /\ accepted[q] = 0 /\ valid' /\ lastSeq' \in Stream
          /\ Place(lastSeq) <= Place(lastSeq') /\ Place(q) <= Place(lastSeq')
      BY <2>1, <3>1, <3>2, <3>3, <3>4
    <3> QED
      BY <1>1, <2>1, <2>2, <3>1, <3>6, <3>7, <3>8, AcceptKeeps
  <2> QED
    BY <1>11, <2>1, <2>2 DEF IInv, TypeOK
<1>16. ASSUME recv'.pc = "idle", UNCHANGED <<window, lastSeq, valid, rtsp, accepted, overlapped>>
       PROVE  IInv'
  <2>1. Loaded' /\ AcceptedOnce' /\ (~overlapped' => Empty' /\ Kept')
    BY <1>16 DEF IInv, Loaded, AcceptedOnce, Empty, Kept, Before, Missing, Place
  <2> QED
    BY <1>1, <2>1 DEF IInv
<1>17. CASE DropStale
  BY <1>16, <1>17 DEF DropStale, Idle
<1>18. CASE RetryIfDue
  BY <1>16, <1>18 DEF RetryIfDue, Idle
<1>19. CASE ResetValid
  <2>1. /\ valid' = FALSE /\ rtsp' = "first" /\ accepted' = NoneAccepted
        /\ overlapped' = (recv.pc = "store") /\ UNCHANGED recv
    BY <1>19 DEF ResetValid
  <2>2. Loaded'
    BY <2>1 DEF IInv, Loaded
  <2>3. AcceptedOnce'
    BY <2>1 DEF AcceptedOnce, NoneAccepted
  <2>4. Empty' /\ Kept'
    BY <2>1 DEF Empty, Kept, NoneAccepted
  <2> QED
    BY <1>1, <2>2, <2>3, <2>4 DEF IInv
<1>20. ASSUME ~overlapped', rtsp # "idle", ~valid', UNCHANGED <<overlapped, valid, recv, accepted>>,
              rtsp' \in {"idle", "times"} => window'.mask = {}
       PROVE  IInv'
  <2>1. recv.pc # "store" /\ accepted = NoneAccepted
    BY <1>20 DEF IInv, Loaded, Empty
  <2>2. Loaded' /\ Empty' /\ Kept'
    BY <1>20, <2>1 DEF Loaded, Empty, Kept
  <2>3. AcceptedOnce'
    BY <1>20 DEF IInv, AcceptedOnce
  <2> QED
    BY <1>1, <2>2, <2>3 DEF IInv
<1>21. ASSUME overlapped, UNCHANGED <<overlapped, recv, accepted>> PROVE IInv'
  BY <1>1, <1>21 DEF IInv, Loaded, AcceptedOnce
<1>22. ASSUME ~overlapped, rtsp # "idle" PROVE ~valid /\ (rtsp = "times" => window.mask = {})
  BY <1>22 DEF IInv, Empty
<1>23. CASE ResetFirst
  BY <1>20, <1>21, <1>22, <1>23 DEF ResetFirst, IInv, TypeOK
<1>24. CASE ResetMask
  BY <1>20, <1>21, <1>22, <1>24 DEF ResetMask, IInv, TypeOK
<1>25. CASE ResetTimes
  BY <1>20, <1>21, <1>22, <1>25 DEF ResetTimes, IInv, TypeOK
<1>26. CASE UNCHANGED vars
  BY <1>2, <1>26 DEF vars
<1> QED
  BY <1>3, <1>4, <1>5, <1>6, <1>7, <1>8, <1>9, <1>10, <1>12, <1>13, <1>14, <1>15, <1>17, <1>18,
     <1>19, <1>23, <1>24, <1>25, <1>26 DEF Next, Store, Reset

-----------------------------------------------------------------------------
(* Theorems *)

(* IInv is an invariant.                                                   *)
THEOREM Invariant == Spec => []IInv
<1>1. Init => IInv
  BY InitIInv
<1>2. IInv /\ [Next]_vars => IInv'
  BY StepIInv
<1> QED
  BY <1>1, <1>2, PTL DEF Spec

(* The variables keep their types.                                         *)
THEOREM TypeCorrect == Spec => []TypeOK
<1>1. IInv => TypeOK
  BY DEF IInv
<1> QED
  BY <1>1, Invariant, PTL

(* No packet is decoded twice between two resets, whatever the sender and  *)
(* the network repeat, as long as no reset met the receive task.           *)
THEOREM DecodedOnce == Spec => []AcceptedOnce
<1>1. IInv => AcceptedOnce
  BY DEF IInv
<1> QED
  BY <1>1, Invariant, PTL

(* What the window calls missing lies before the newest packet and was not *)
(* accepted, and the arithmetic on the sequence numbers does not wrap      *)
(* around the window.                                                      *)
THEOREM MissingIsMissing == Spec => []WindowIsMissing
<1>1. ASSUME IInv PROVE WindowIsMissing
  <2> SUFFICES ASSUME ~overlapped, rtsp = "idle", window.mask # {}
               PROVE  /\ \A s \in Missing(window) : valid /\ SeqCmp(s, lastSeq) < 0 /\ accepted[s] = 0
                      /\ 0 \in window.mask
    BY DEF WindowIsMissing, Missing
  <2>1. /\ valid /\ lastSeq \in Stream /\ Before(window, lastSeq) /\ window \in Windows
        /\ \A s \in Missing(window) : accepted[s] = 0
    BY <1>1 DEF IInv, TypeOK, Empty, Kept, Windows
  <2>2. Missing(window) \subseteq Stream /\ \A s \in Missing(window) : Place(s) < Place(lastSeq)
    BY <2>1, Holes DEF Before
  <2>3. ASSUME NEW s \in Missing(window) PROVE SeqCmp(s, lastSeq) < 0
    <3>1. SeqCmp(s, lastSeq) = Place(s) - Place(lastSeq) /\ Place(s) \in Nat /\ Place(lastSeq) \in Nat
      BY <2>1, <2>2, Places
    <3> QED
      BY <2>2, <3>1
  <2> QED
    BY <2>1, <2>3 DEF Before
<1> QED
  BY <1>1, Invariant, PTL

(* A number behind the new newest packet and ahead of the old one belongs  *)
(* to the gap between them.                                                *)
LEMMA SkippedIsGap ==
  ASSUME NEW last \in Seqs, NEW n \in 0 .. MaxPackets, NEW s \in Seqs, NEW next \in Seqs,
         next = SeqAdd(SeqAdd(last, 1), n), SeqCmp(s, last) > 0, SeqCmp(s, next) < 0
  PROVE  s \in Run(SeqAdd(last, 1), n)
<1> DEFINE e == SeqAdd(last, 1)
           d == OffsetOf(s, last)
           h == SeqMod \div 2
<1>1. 1 \in 0 .. SeqMod /\ n \in 0 .. SeqMod /\ n \in Nat
  BY Sizes
<1>2. e \in Seqs /\ e = IF last + 1 < SeqMod THEN last + 1 ELSE last + 1 - SeqMod
  BY <1>1, Sum
<1>3. next = IF e + n < SeqMod THEN e + n ELSE e + n - SeqMod
  BY <1>1, <1>2, Sum
<1>4. d \in 0 .. SeqMod - 1 /\ d = IF s >= last THEN s - last ELSE s - last + SeqMod
  BY Offset
<1>5. OffsetOf(s, next) = IF s >= next THEN s - next ELSE s - next + SeqMod
  BY Offset
<1>6. SeqCmp(s, last) = IF d >= h THEN d - SeqMod ELSE d
  BY Difference
<1>7. SeqCmp(s, next) = IF OffsetOf(s, next) >= h THEN OffsetOf(s, next) - SeqMod ELSE OffsetOf(s, next)
  BY Difference
<1>8. SeqMod \in Nat /\ h \in Nat /\ n <= h /\ 2 * h <= SeqMod /\ last \in 0 .. SeqMod - 1
      /\ s \in 0 .. SeqMod - 1 /\ next \in 0 .. SeqMod - 1 /\ e \in 0 .. SeqMod - 1
  BY <1>2, Sizes DEF Seqs
<1> HIDE DEF e, d, h
<1>9. d >= 1 /\ d < h
  BY <1>4, <1>6, <1>8
<1>10. OffsetOf(s, next) = IF d - 1 - n >= 0 THEN d - 1 - n ELSE d - 1 - n + SeqMod
  BY <1>1, <1>2, <1>3, <1>4, <1>5, <1>8, <1>9
<1>11. d - 1 < n
  BY <1>1, <1>4, <1>7, <1>8, <1>9, <1>10
<1>12. d - 1 \in 0 .. n - 1 /\ d - 1 \in 0 .. SeqMod
  BY <1>1, <1>4, <1>8, <1>9, <1>11
<1>13. SeqAdd(e, d - 1) = IF e + (d - 1) < SeqMod THEN e + (d - 1) ELSE e + (d - 1) - SeqMod
  BY <1>2, <1>12, Sum
<1>14. SeqAdd(e, d - 1) = s
  BY <1>2, <1>4, <1>8, <1>9, <1>13
<1> QED
  BY <1>12, <1>14 DEF Run, e

(* A gap of more than WindowBits packets skips more than WindowBits.       *)
LEMMA WideGap ==
  ASSUME TypeOK, NEW last \in Stream, NEW s \in Stream, lastSeq = last, lastSeq' = s,
         Place(s) - Place(last) - 1 > WindowBits
  PROVE  ~(Cardinality(Skipped) <= WindowBits)
<1> DEFINE K == 1 .. WindowBits + 1
           F == [k \in K |-> SeqAdd(last, k)]
<1>1. Place(last) \in Nat /\ Place(s) \in 0 .. MaxPackets - 1 /\ WindowBits \in Nat /\ MaxPackets \in Nat
  BY Places, Sizes
<1>2. ASSUME NEW k \in K
      PROVE  SeqAdd(last, k) \in Skipped /\ Place(SeqAdd(last, k)) = Place(last) + k
  <2> DEFINE t == SeqAdd(last, k)
  <2>1. k \in Nat /\ Place(last) + k < MaxPackets /\ Place(last) + k < Place(s)
    BY <1>1
  <2>2. t \in Stream /\ Place(t) = Place(last) + k
    BY <2>1, Onward
  <2>3. t \in Seqs /\ SeqCmp(t, last) = Place(t) - Place(last) /\ SeqCmp(t, s) = Place(t) - Place(s)
    BY <2>2, Places
  <2> HIDE DEF t
  <2>4. SeqCmp(t, last) > 0 /\ SeqCmp(t, s) < 0
    BY <1>1, <2>1, <2>2, <2>3
  <2> QED
    BY <2>2, <2>3, <2>4 DEF Skipped, t
<1>3. F \in Injection(K, Skipped)
  <2>1. F \in [K -> Skipped]
    BY <1>2
  <2>2. ASSUME NEW j \in K, NEW k \in K, F[j] = F[k] PROVE j = k
    BY <1>1, <1>2, <2>2
  <2> QED
    BY <2>1, <2>2 DEF Injection, IsInjective
<1>4. IsFiniteSet(Skipped)
  <2>1. IsFiniteSet(Seqs)
    BY FS_Interval, Sizes DEF Seqs
  <2> QED
    BY <2>1, FS_Subset DEF Skipped
<1>5. IsFiniteSet(K) /\ Cardinality(K) = WindowBits + 1
  BY <1>1, FS_Interval
<1>6. Cardinality(K) <= Cardinality(Skipped)
  BY <1>3, <1>4, FS_Injection
<1>7. Cardinality(Skipped) \in Nat
  BY <1>4, FS_CardinalityType
<1> QED
  BY <1>1, <1>5, <1>6, <1>7

(* Between resets no hole is forgotten: a packet found missing by a gap    *)
(* that fits is in the window, until it comes or a gap leaves the window.  *)
THEOREM HolesAreKept == Spec => NoHoleForgotten
<1> DEFINE P ==
      valid /\ valid' /\ rtsp = "idle" /\ ~overlapped' =>
        /\ \A s \in Missing(window) :
             \/ s \in Missing(window') \/ accepted'[s] > 0
             \/ SeqCmp(lastSeq', window.first) > WindowBits
        /\ Cardinality(Skipped) <= WindowBits => Skipped \subseteq Missing(window')
<1>1. ASSUME IInv, [Next]_vars PROVE [P]_vars
  <2> SUFFICES ASSUME valid, valid', rtsp = "idle", ~overlapped', Next PROVE P
    BY <1>1
  <2>1. TypeOK
    BY <1>1 DEF IInv
  <2>2. ASSUME lastSeq' = lastSeq PROVE Skipped = {}
    <3>1. ASSUME NEW s \in Seqs PROVE ~(SeqCmp(s, lastSeq) > 0 /\ SeqCmp(s, lastSeq') < 0)
      <4>1. SeqCmp(s, lastSeq) \in Int
        BY <2>1, Difference DEF TypeOK
      <4> QED
        BY <2>2, <4>1
    <3> QED
      BY <3>1 DEF Skipped
  <2>3. ASSUME UNCHANGED <<window, lastSeq>> PROVE P
    BY <2>2, <2>3 DEF Missing
  <2>4. CASE AcceptInOrder
    <3>1. /\ recv.pc = "store" /\ (Delta = 0 \/ Delta > WindowBits)
          /\ lastSeq' = recv.packet.seq /\ UNCHANGED <<window, overlapped>>
      BY <2>4 DEF AcceptInOrder, Handles
    <3>2. /\ recv.packet.seq \in Stream /\ recv.packet.seq \in Seqs /\ lastSeq \in Stream
          /\ Delta = Place(recv.packet.seq) - Place(lastSeq) - 1
          /\ Place(recv.packet.seq) \in Nat /\ Place(lastSeq) \in Nat
      BY <1>1, <3>1, PacketInHand
    <3>3. Cardinality(Skipped) <= WindowBits => Skipped = {}
      <4>1. CASE Delta = 0
        <5>1. SeqCmp(lastSeq', SeqAdd(lastSeq, 1)) = 0
          BY <3>1, <3>2, <4>1, Places
        <5>2. Place(lastSeq) + 1 < MaxPackets /\ Place(recv.packet.seq) = Place(lastSeq) + 1
          BY <3>2, <4>1, PlaceInStream
        <5>3. lastSeq' = SeqAdd(lastSeq, 1)
          BY <3>1, <3>2, <5>2, Onward, Places
        <5>4. lastSeq' = SeqAdd(SeqAdd(lastSeq, 1), 0) /\ lastSeq \in Seqs /\ lastSeq' \in Seqs
          <6>1. SeqAdd(lastSeq, 1) \in Seqs /\ 0 \in 0 .. SeqMod
            BY <3>1, <3>2, <5>3, Sizes
          <6>2. SeqAdd(lastSeq, 1) \in Int /\ SeqAdd(lastSeq, 1) + 0 < SeqMod
            BY <6>1, Sizes DEF Seqs
          <6>3. SeqAdd(SeqAdd(lastSeq, 1), 0) = SeqAdd(lastSeq, 1)
            BY <6>1, <6>2, Sum
          <6> QED
            BY <2>1, <5>3, <6>1, <6>3 DEF TypeOK
        <5>5. ASSUME NEW t \in Skipped PROVE FALSE
          <6>1. t \in Seqs /\ SeqCmp(t, lastSeq) > 0 /\ SeqCmp(t, lastSeq') < 0
            BY DEF Skipped
          <6>2. 0 \in 0 .. MaxPackets
            BY Sizes
          <6>3. t \in Run(SeqAdd(lastSeq, 1), 0)
            BY <5>4, <6>1, <6>2, SkippedIsGap
          <6> QED
            BY <6>3 DEF Run
        <5> QED
          BY <5>5
      <4>2. CASE Delta > WindowBits
        BY <2>1, <3>1, <3>2, <4>2, WideGap
      <4> QED
        BY <3>1, <4>1, <4>2
    <3> QED
      BY <3>1, <3>3 DEF Missing
  <2>5. CASE AcceptAfterGap
    <3> DEFINE q == recv.packet.seq
    <3>1. UNCHANGED overlapped
      BY <2>5 DEF AcceptAfterGap
    <3>2. /\ recv.pc = "store" /\ lastSeq' = q /\ Delta \in 1 .. WindowBits
          /\ window' = TrackMissing(window, Expected, Delta)
      BY <1>1, <2>5, <3>1, GapIsTracked
    <3>3. /\ q \in Stream /\ q \in Seqs /\ lastSeq \in Stream /\ Before(window, lastSeq)
          /\ window \in Windows /\ Expected = SeqAdd(lastSeq, 1)
          /\ Delta = Place(q) - Place(lastSeq) - 1 /\ Place(q) \in Nat /\ Place(lastSeq) \in Nat
      BY <1>1, <3>1, <3>2, PacketInHand
    <3> DEFINE fits == window.mask # {} /\ FitsWindow(window, Expected, Delta)
    <3>4. /\ Missing(window') = Run(Expected, Delta) \cup (IF fits THEN Missing(window) ELSE {})
          /\ window.mask # {} /\ ~fits => Place(q) - Place(window.first) > WindowBits
      BY <3>2, <3>3, TrackMissingAddsHoles
    <3> HIDE DEF fits
    <3>5. ASSUME NEW s \in Missing(window), s \notin Missing(window')
          PROVE  SeqCmp(lastSeq', window.first) > WindowBits
      <4>1. window.mask # {} /\ ~fits
        BY <3>4, <3>5 DEF Missing
      <4>2. window.first \in Stream
        BY <3>3, <4>1 DEF Before
      <4>3. SeqCmp(q, window.first) = Place(q) - Place(window.first)
        BY <3>3, <4>2, Places
      <4> QED
        BY <3>2, <3>4, <4>1, <4>3
    <3>6. ASSUME NEW s \in Skipped PROVE s \in Missing(window')
      <4>1. s \in Seqs /\ SeqCmp(s, lastSeq) > 0 /\ SeqCmp(s, lastSeq') < 0
        BY DEF Skipped
      <4>2. Delta \in 0 .. MaxPackets
        <5>1. Place(q) < MaxPackets
          BY <3>3, PlaceInStream
        <5> QED
          BY <3>2, <3>3, <5>1, Sizes
      <4>3. lastSeq' = SeqAdd(SeqAdd(lastSeq, 1), Delta)
        <5>1. Place(q) < MaxPackets
          BY <3>3, PlaceInStream
        <5>2. Place(lastSeq) + 1 < MaxPackets /\ Delta \in Nat
          BY <3>2, <3>3, <5>1, Sizes
        <5>3. Expected \in Stream /\ Place(Expected) = Place(lastSeq) + 1
          BY <3>3, <5>2, Onward
        <5>4. Place(Expected) + Delta = Place(q)
          BY <3>3, <5>3
        <5>5. SeqAdd(Expected, Delta) \in Stream /\ Place(SeqAdd(Expected, Delta)) = Place(q)
          BY <5>1, <5>2, <5>3, <5>4, Onward
        <5>6. SeqAdd(Expected, Delta) = q
          BY <3>3, <5>5, Places
        <5> QED
          BY <3>2, <3>3, <5>6
      <4>4. lastSeq \in Seqs /\ lastSeq' \in Seqs
        BY <2>1, <3>2, <3>3 DEF TypeOK
      <4>5. s \in Run(Expected, Delta)
        BY <3>3, <4>1, <4>2, <4>3, <4>4, SkippedIsGap
      <4> QED
        BY <3>4, <4>5
    <3> QED
      BY <3>5, <3>6
  <2>6. CASE AcceptMissing
    <3>1. UNCHANGED overlapped
      BY <2>6 DEF AcceptMissing
    <3>2. /\ recv.pc = "store" /\ lastSeq' = lastSeq /\ Accept
          /\ IsMissing(window, recv.packet.seq) /\ window' = MarkReceived(window, recv.packet.seq)
      BY <1>1, <2>6, <3>1, HoleIsFilled
    <3>3. /\ recv.packet.seq \in Stream /\ recv.packet.seq \in Seqs /\ lastSeq \in Stream
          /\ Before(window, lastSeq) /\ window \in Windows
      BY <1>1, <3>1, <3>2, PacketInHand
    <3>4. /\ Missing(window') = Missing(window) \ {recv.packet.seq}
          /\ recv.packet.seq \in Missing(window)
      BY <3>2, <3>3, MarkReceivedFillsHole
    <3>5. accepted[recv.packet.seq] = 0
      BY <1>1, <3>1, <3>4 DEF IInv, Kept
    <3>6. accepted'[recv.packet.seq] > 0
      BY <2>1, <3>1, <3>2, <3>3, <3>5, AcceptNew
    <3> QED
      BY <2>2, <3>2, <3>4, <3>6
  <2>7. CASE Reset \/ AcceptFirst
    <3>1. ~Reset
      BY DEF Reset, ResetFirst, ResetMask, ResetTimes
    <3>2. AcceptFirst
      BY <2>7, <3>1
    <3>3. recv.pc = "store" /\ ~recv.valid /\ UNCHANGED overlapped
      BY <3>2 DEF AcceptFirst, Handles
    <3> QED
      BY <1>1, <3>3, PacketInHand
  <2>8. ASSUME \/ SendPacket \/ LosePacket \/ LoseRequest \/ RetryIntervalPasses \/ BackoffPasses
               \/ \E seq \in Seqs : Answer(seq)
               \/ \E p \in StreamPackets : Forward(p) \/ Load(p)
               \/ DropStale \/ RetryIfDue \/ ResetValid
        PROVE  UNCHANGED <<window, lastSeq>>
    BY <2>8 DEF SendPacket, LosePacket, LoseRequest, RetryIntervalPasses, BackoffPasses, Answer,
                Forward, Load, DropStale, RetryIfDue, ResetValid
  <2> HIDE DEF P
  <2> QED
    BY <2>3, <2>4, <2>5, <2>6, <2>7, <2>8 DEF Next, Store
<1>2. Spec => [][P]_vars
  BY <1>1, Invariant, PTL DEF Spec
<1> QED
  BY <1>2 DEF NoHoleForgotten

=============================================================================
