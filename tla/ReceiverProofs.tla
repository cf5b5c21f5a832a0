--------------------------- MODULE ReceiverProofs ---------------------------
(***************************************************************************)
(* Theorems about Receiver, for every width of a timestamp, any tracks     *)
(* that are far apart, any number of seeks and pauses, any ring and any    *)
(* connection.                                                             *)
(***************************************************************************)
EXTENDS Receiver, FiniteSetTheorems, SequenceTheorems, WellFoundedInduction, TLAPS

-----------------------------------------------------------------------------
(* The inductive invariant.  p is where the track before this one started. *)

(* A frame of the track that starts at s; a position of playback in it,    *)
(* after n pauses.                                                         *)
InTrack(ts, s) == \E k \in 0 .. SegmentSize - 1 : ts = TsAdd(s, k)
AtPosition(ts, s, n) == \E k \in 0 .. n * MaxElapsed : ts = TsAdd(s, k)

(* A frame of this track or of the one before. *)
FromTrack(f, p) ==
  \/ f.seg = sender.seg /\ InTrack(f.ts, sender.start)
  \/ sender.seg = f.seg + 1 /\ InTrack(f.ts, p)

IsOld(f) == f.seg < sender.seg

(* What is in flight is of this track or of the one before it, in order.   *)
FramesInv(p) ==
  /\ sender.seg > 0 => p # sender.start
  /\ \A i \in 1 .. Len(backlog) : FromTrack(backlog[i], p)
  /\ \A i, j \in 1 .. Len(backlog) : i < j => backlog[i].seg <= backlog[j].seg
  /\ stream.pc # "read" =>
       /\ FromTrack(stream.frame, p)
       /\ \A i \in 1 .. Len(backlog) : stream.frame.seg <= backlog[i].seg

(* Where the RTSP task sets an anchor. *)
AnchorSteps == {"anchor", "lower", "upper", "open", "check", "set"}

NewFlush == Request("flush", 0, sender.seg)
NewAnchor == Request("anchor", sender.start, sender.seg)

(* A seek, or the first anchor, is under way ... *)
Seeking ==
  \/ task.pc = "idle" /\ rtsp = <<NewAnchor>>
  \/ task.pc = "idle" /\ rtsp = <<NewFlush, NewAnchor>> /\ sender.seg > 0
  \/ task.pc \in {"disarm", "close"} /\ rtsp = <<NewAnchor>> /\ sender.seg > 0 /\ ~anchor.valid
  \/ task.pc \in AnchorSteps /\ rtsp = <<>> /\ task.req = NewAnchor

IsResume(r) ==
  /\ r.op = "resume" /\ r.seg = sender.seg
  /\ AtPosition(r.rtp, sender.start, pauses)

(* ... or its anchor is set, and at most a pause or a resume is. *)
Steady ==
  /\ anchor.valid /\ anchor.seg = sender.seg
  /\ \/ task.pc = "idle" /\ rtsp = <<>>
     \/ task.pc = "idle" /\ rtsp = <<Request("pause", 0, sender.seg)>>
     \/ task.pc = "idle" /\ rtsp = <<Head(rtsp)>> /\ IsResume(Head(rtsp)) /\ ~playing
     \/ task.pc \in AnchorSteps /\ rtsp = <<>> /\ IsResume(task.req) /\ ~playing

PauseAsked == rtsp # <<>> /\ Head(rtsp).op = "pause"

(* Where playback can be. *)
PositionInv(p) ==
  /\ Steady =>
       IF playing /\ ~PauseAsked THEN AtPosition(anchor.rtp, sender.start, pauses)
       ELSE pauses > 0 /\ AtPosition(anchor.rtp, sender.start, pauses - 1)
  /\ Seeking /\ anchor.valid => sender.seg = anchor.seg + 1 /\ AtPosition(anchor.rtp, p, pauses)
  /\ gates.arm => ~anchor.valid /\ task.pc \notin AnchorSteps \ {"anchor"}
  /\ Seeking /\ sender.seg > 0 =>
       /\ (task.pc = "idle" /\ rtsp = <<NewAnchor>>) \/ task.pc = "anchor" =>
            gates.arm \/ anchor.valid
       /\ task.pc \in AnchorSteps \ {"anchor"} => task.armed

(* The anchor under way, if any, has armed the gate. *)
LowerArmed == ~Seeking \/ task.pc \in {"upper", "open", "check", "set"}
UpperArmed == ~Seeking \/ task.pc \in {"open", "check", "set"}

(* An old frame that has still to pass the gates. *)
OldAhead ==
  \/ \E i \in 1 .. Len(backlog) : IsOld(backlog[i])
  \/ stream.pc \notin {"read", "queue"} /\ IsOld(stream.frame)

(* Gates are of this track, and while old frames come the one that refuses *)
(* them is on.                                                             *)
GatesInv(p) ==
  /\ stream.pc = "passLower" => gates.beforeOn
  /\ stream.pc = "passUpper" => gates.aboveOn
  /\ gates.beforeOn => AtPosition(gates.before, sender.start, pauses)
  /\ gates.aboveOn =>
       \E r \in AllTimestamps : AtPosition(r, sender.start, pauses) /\ gates.above = UpperBound(r)
  /\ sender.seg > 0 =>
       /\ ~LowerArmed => ~gates.beforeOn
       /\ ~UpperArmed => ~gates.aboveOn
       /\ OldAhead /\ Later(sender.start, p) /\ LowerArmed => gates.beforeOn
       /\ OldAhead /\ Later(p, sender.start) /\ UpperArmed => gates.aboveOn
       /\ stream.pc = "passLower" /\ IsOld(stream.frame) => ~Later(sender.start, p)
       /\ stream.pc = "passUpper" /\ IsOld(stream.frame) => ~Later(p, sender.start)

Arriving == ring \cup IF stream.pc = "queue" THEN {stream.frame} ELSE {}
AtMostOne(n) == \A f, g \in Arriving : f.seg < n /\ g.seg < n => f = g

(* What an anchor left of older tracks. *)
RingInv(p) ==
  /\ ~(Seeking /\ anchor.valid /\ task.pc \in {"idle", "anchor"}) =>
       \A f \in ring : FromTrack(f, p)
  /\ anchor.valid /\ ~masked /\ (Seeking => task.pc = "idle") => AtMostOne(anchor.seg)
  /\ Seeking /\ task.pc = "set" /\ ~masked => AtMostOne(sender.seg)

SeekInvFrom(p) ==
  (Seeking \/ Steady) /\ FramesInv(p) /\ PositionInv(p) /\ GatesInv(p) /\ RingInv(p)

SeekInv == \E p \in Starts : SeekInvFrom(p)

IInv == TypeOK /\ SeekInv

-----------------------------------------------------------------------------
(* Constants and timestamps *)

(* The constants.                                                          *)
LEMMA Sizes ==
  /\ TsMod \in Nat \ {0} /\ TsMod \div 2 \in Nat /\ 2 * (TsMod \div 2) <= TsMod
  /\ Starts \subseteq AllTimestamps /\ First \in Starts
  /\ MaxSegment \in Nat /\ MaxPauses \in Nat /\ MaxElapsed \in Nat
  /\ SeekThreshold \in Nat /\ GateWindow \in Nat
  /\ Lead \in Nat /\ SegmentSize \in Nat \ {0} /\ Lead < SegmentSize
  /\ RingSize \in Nat \ {0} /\ BacklogSize \in Nat \ {0}
  /\ 0 \in Segments /\ 0 \in AllTimestamps
<1>1. TsMod \in Nat /\ TsMod >= 2
  BY TsModAssumption
<1> DEFINE h == TsMod \div 2
<1>2. h \in Int /\ TsMod % 2 \in 0 .. 1 /\ TsMod = 2 * h + (TsMod % 2)
  BY <1>1
<1> HIDE DEF h
<1>3. h \in Nat /\ 2 * h <= TsMod
  BY <1>1, <1>2
<1>4. 0 \in AllTimestamps
  BY <1>1 DEF AllTimestamps
<1>5. 0 \in Segments
  BY ReceiverAssumption DEF Segments
<1> QED
  BY <1>1, <1>3, <1>4, <1>5, ReceiverAssumption DEF h

(* A remainder, of a number at most one turn away.                         *)
LEMMA Remainder ==
  ASSUME NEW m \in Nat \ {0}, NEW n \in Int
  PROVE  /\ n % m \in 0 .. m - 1
         /\ n \in 0 .. m - 1 => n % m = n
         /\ n \in -m .. -1 => n % m = n + m
         /\ n \in m .. 2 * m - 1 => n % m = n - m
<1>1. n \div m \in Int /\ n % m \in 0..(m - 1) /\ n = m * (n \div m) + (n % m)
  OBVIOUS
<1> QED
  BY <1>1

(* The signed difference, by cases.                                        *)
LEMMA CmpCases ==
  ASSUME NEW a \in AllTimestamps, NEW b \in AllTimestamps
  PROVE  LET d == IF a >= b THEN a - b ELSE a - b + TsMod
         IN  /\ TsCmp(a, b) = IF d >= TsMod \div 2 THEN d - TsMod ELSE d
             /\ TsCmp(a, b) \in Int
<1> DEFINE n == a - b
           r == n % TsMod
<1>1. TsMod \in Nat \ {0} /\ a \in 0 .. TsMod - 1 /\ b \in 0 .. TsMod - 1
  BY Sizes DEF AllTimestamps
<1>2. n \in Int /\ (a >= b => n \in 0 .. TsMod - 1) /\ (~(a >= b) => n \in -TsMod .. -1)
  BY <1>1
<1>3. TsCmp(a, b) = IF r >= TsMod \div 2 THEN r - TsMod ELSE r
  BY DEF TsCmp
<1> HIDE DEF n
<1>4. /\ r \in 0 .. TsMod - 1
      /\ n \in 0 .. TsMod - 1 => r = n
      /\ n \in -TsMod .. -1 => r = n + TsMod
  BY <1>1, <1>2, Remainder
<1> HIDE DEF r
<1>5. r = IF a >= b THEN n ELSE n + TsMod
  BY <1>2, <1>4
<1>6. TsCmp(a, b) \in Int
  BY <1>1, <1>3, <1>4
<1> QED
  BY <1>1, <1>3, <1>5, <1>6 DEF n

(* A sum is a timestamp.                                                   *)
LEMMA AddType ==
  ASSUME NEW a \in AllTimestamps, NEW n \in Nat
  PROVE  TsAdd(a, n) \in AllTimestamps
<1>1. a + n \in Int /\ TsMod \in Nat \ {0}
  BY Sizes DEF AllTimestamps
<1>2. (a + n) % TsMod \in 0 .. TsMod - 1
  BY <1>1, Remainder
<1> QED
  BY <1>2 DEF TsAdd, AllTimestamps

(* A remainder is the only one.                                            *)
LEMMA RemainderUnique ==
  ASSUME NEW m \in Nat \ {0}, NEW q \in Int, NEW r \in 0 .. m - 1
  PROVE  (m * q + r) % m = r
<1> DEFINE n == m * q + r
           q2 == n \div m
           r2 == n % m
<1>1. n \in Int
  OBVIOUS
<1>2. q2 \in Int /\ r2 \in 0 .. m - 1 /\ n = m * q2 + r2
  BY <1>1
<1> HIDE DEF q2, r2
<1>3. m * (q - q2) = r2 - r
  BY <1>2
<1>4. q - q2 \in Int /\ r2 - r < m /\ r2 - r > -m
  BY <1>2
<1> DEFINE z == q - q2
<1> HIDE DEF z
<1>5. m * z < m /\ m * z > -m /\ z \in Int
  BY <1>3, <1>4 DEF z
<1>6. ~(z >= 1) /\ ~(z <= -1)
  <2>1. z >= 1 => m * z >= m
    BY <1>5
  <2>2. z <= -1 => m * z <= -m
    BY <1>5
  <2> QED
    BY <2>1, <2>2, <1>5
<1>7. z = 0
  BY <1>5, <1>6
<1>8. r2 = r
  BY <1>2, <1>3, <1>7 DEF z
<1> QED
  BY <1>8 DEF r2

(* Sums add up, however often they wrap.                                   *)
LEMMA AddAdd ==
  ASSUME NEW a \in AllTimestamps, NEW i \in Nat, NEW j \in Nat
  PROVE  TsAdd(TsAdd(a, i), j) = TsAdd(a, i + j)
<1> DEFINE x == a + i
           r == x % TsMod
           q == x \div TsMod
           y == r + j
           r2 == y % TsMod
           q2 == y \div TsMod
<1>1. TsMod \in Nat \ {0} /\ a \in Int /\ i \in Int /\ j \in Int
  BY Sizes DEF AllTimestamps
<1>2. x \in Int
  BY <1>1
<1> HIDE DEF x
<1>3. q \in Int /\ r \in 0 .. TsMod - 1 /\ x = TsMod * q + r
  BY <1>1, <1>2
<1> HIDE DEF q, r
<1>4. y \in Int
  BY <1>1, <1>3
<1> HIDE DEF y
<1>5. q2 \in Int /\ r2 \in 0 .. TsMod - 1 /\ y = TsMod * q2 + r2
  BY <1>1, <1>4
<1> HIDE DEF q2, r2
<1>6. a + (i + j) = TsMod * (q + q2) + r2
  <2>1. a + (i + j) = TsMod * q + (r + j)
    BY <1>1, <1>3 DEF x
  <2>2. r + j = TsMod * q2 + r2
    BY <1>5 DEF y
  <2> QED
    BY <1>1, <1>3, <1>5, <2>1, <2>2
<1>7. (TsMod * (q + q2) + r2) % TsMod = r2
  BY <1>1, <1>3, <1>5, RemainderUnique
<1>8. TsAdd(a, i + j) = r2
  BY <1>6, <1>7 DEF TsAdd
<1>9. TsAdd(a, i) = r /\ TsAdd(r, j) = r2
  BY DEF TsAdd, r, x, r2, y
<1> QED
  BY <1>8, <1>9

(* A sum, of a number less than one turn.                                  *)
LEMMA AddCases ==
  ASSUME NEW a \in AllTimestamps, NEW n \in 0 .. TsMod - 1
  PROVE  TsAdd(a, n) = IF a + n < TsMod THEN a + n ELSE a + n - TsMod
<1> DEFINE x == a + n
           y == x % TsMod
<1>1. TsMod \in Nat \ {0} /\ x \in Int /\ (x < TsMod => x \in 0 .. TsMod - 1)
      /\ (~(x < TsMod) => x \in TsMod .. 2 * TsMod - 1)
  BY Sizes DEF AllTimestamps
<1>2. TsAdd(a, n) = y
  BY DEF TsAdd
<1> HIDE DEF x
<1>3. /\ y \in 0 .. TsMod - 1
      /\ x \in 0 .. TsMod - 1 => y = x
      /\ x \in TsMod .. 2 * TsMod - 1 => y = x - TsMod
  BY <1>1, Remainder
<1> HIDE DEF y
<1>4. y = IF x < TsMod THEN x ELSE x - TsMod
  BY <1>1, <1>3
<1> QED
  BY <1>1, <1>2, <1>4 DEF x, AllTimestamps

(* Positions of two tracks differ as the tracks' starts do, if the         *)
(* difference stays between zero and half the range.                       *)
LEMMA Spread ==
  ASSUME NEW a \in AllTimestamps, NEW b \in AllTimestamps,
         NEW i \in 0 .. TsMod - 1, NEW j \in 0 .. TsMod - 1,
         0 <= TsCmp(a, b), 0 < TsCmp(a, b) + i - j,
         TsCmp(a, b) + i - j < TsMod \div 2
  PROVE  /\ TsCmp(TsAdd(a, i), TsAdd(b, j)) = TsCmp(a, b) + i - j
         /\ TsCmp(TsAdd(b, j), TsAdd(a, i)) = -(TsCmp(a, b) + i - j)
<1> DEFINE h == TsMod \div 2
           d == TsCmp(a, b)
           x == TsAdd(a, i)
           y == TsAdd(b, j)
<1>1. /\ TsMod \in Nat \ {0} /\ h \in Nat /\ 2 * h <= TsMod
      /\ a \in 0 .. TsMod - 1 /\ b \in 0 .. TsMod - 1
  BY Sizes DEF AllTimestamps
<1>2. /\ x = IF a + i < TsMod THEN a + i ELSE a + i - TsMod
      /\ y = IF b + j < TsMod THEN b + j ELSE b + j - TsMod
  BY AddCases
<1>3. x \in AllTimestamps /\ y \in AllTimestamps /\ x \in 0 .. TsMod - 1 /\ y \in 0 .. TsMod - 1
  <2>1. i \in Nat /\ j \in Nat
    BY <1>1
  <2>2. x \in AllTimestamps /\ y \in AllTimestamps
    BY <2>1, AddType
  <2> QED
    BY <2>2 DEF AllTimestamps
<1> HIDE DEF x, y
<1> DEFINE D(u, v) == IF u >= v THEN u - v ELSE u - v + TsMod
           C(u, v) == IF D(u, v) >= h THEN D(u, v) - TsMod ELSE D(u, v)
<1>4. d = C(a, b) /\ TsCmp(x, y) = C(x, y) /\ TsCmp(y, x) = C(y, x)
  BY <1>3, CmpCases
<1> HIDE DEF h, d
<1>5. d \in Int /\ 0 <= d /\ 0 < d + i - j /\ d + i - j < h
  BY CmpCases DEF d, h
<1>6. d = D(a, b)
  BY <1>1, <1>4, <1>5
<1>7. D(x, y) = d + i - j
  BY <1>1, <1>2, <1>3, <1>5, <1>6
<1>8. D(y, x) = TsMod - (d + i - j)
  BY <1>1, <1>3, <1>5, <1>7
<1>9. C(x, y) = d + i - j /\ C(y, x) = -(d + i - j)
  BY <1>1, <1>5, <1>7, <1>8
<1> QED
  BY <1>4, <1>9 DEF d, x, y

(* How far playback gets, and how far tracks are apart.                    *)
LEMMA Reaches ==
  /\ MaxPauses * MaxElapsed \in Nat /\ Apart \in Nat
  /\ Apart = GateWindow + SeekThreshold + SegmentSize + MaxPauses * MaxElapsed + MaxElapsed
  /\ \A n \in 0 .. MaxPauses :
       n * MaxElapsed \in Nat /\ n * MaxElapsed <= MaxPauses * MaxElapsed
<1>1. MaxPauses \in Nat /\ MaxElapsed \in Nat /\ GateWindow \in Nat /\ SeekThreshold \in Nat
      /\ SegmentSize \in Nat
  BY Sizes
<1>2. MaxPauses * MaxElapsed \in Nat
  BY <1>1
<1>3. (MaxPauses + 1) * MaxElapsed = MaxPauses * MaxElapsed + MaxElapsed
  BY <1>1
<1>4. ASSUME NEW n \in 0 .. MaxPauses
      PROVE  n * MaxElapsed \in Nat /\ n * MaxElapsed <= MaxPauses * MaxElapsed
  <2>1. n \in Nat /\ MaxPauses - n \in Nat
    BY <1>1
  <2>2. n * MaxElapsed \in Nat /\ (MaxPauses - n) * MaxElapsed \in Nat
    BY <1>1, <2>1
  <2>3. MaxPauses * MaxElapsed = n * MaxElapsed + (MaxPauses - n) * MaxElapsed
    BY <1>1, <2>1
  <2> QED
    BY <1>2, <2>2, <2>3
<1> QED
  BY <1>1, <1>2, <1>3, <1>4 DEF Apart

(* Two places at most Apart from the starts of two tracks.                 *)
LEMMA TrackSpread ==
  ASSUME NEW s \in Starts, NEW t \in Starts, Later(s, t),
         NEW i \in 0 .. Apart, NEW j \in 0 .. Apart, i # Apart, j # Apart
  PROVE  /\ TsCmp(TsAdd(s, i), TsAdd(t, j)) >= Apart + i - j
         /\ TsCmp(TsAdd(t, j), TsAdd(s, i)) <= -(Apart + i - j)
<1> DEFINE d == TsCmp(s, t)
<1>1. /\ TsMod \in Nat \ {0} /\ TsMod \div 2 \in Nat /\ 2 * (TsMod \div 2) <= TsMod
      /\ s \in AllTimestamps /\ t \in AllTimestamps /\ Apart \in Nat
  BY Sizes, Reaches
<1>2. d \in Int /\ Apart <= d /\ d <= TsMod \div 2 - Apart
  BY <1>1, CmpCases DEF Later
<1> HIDE DEF d
<1>3. i \in 0 .. TsMod - 1 /\ j \in 0 .. TsMod - 1
  BY <1>1, <1>2
<1>4. 0 <= d /\ 0 < d + i - j /\ d + i - j < TsMod \div 2
  BY <1>1, <1>2
<1>5. /\ TsCmp(TsAdd(s, i), TsAdd(t, j)) = d + i - j
      /\ TsCmp(TsAdd(t, j), TsAdd(s, i)) = -(d + i - j)
  BY <1>1, <1>3, <1>4, Spread DEF d
<1> QED
  BY <1>1, <1>2, <1>5

(* Frames of a track that lies before are before every position and every  *)
(* frame of this one, and far from them.                                   *)
LEMMA OldIsBehind ==
  ASSUME NEW s \in Starts, NEW t \in Starts, Later(s, t),
         NEW f, InTrack(f, t), NEW n \in 0 .. MaxPauses
  PROVE  /\ \A r : AtPosition(r, s, n) => TsCmp(f, r) < 0 /\ Far(f, r)
         /\ \A g : InTrack(g, s) => TsCmp(f, g) < 0
<1>1. PICK k \in 0 .. SegmentSize - 1 : f = TsAdd(t, k)
  BY DEF InTrack
<1>2. /\ SegmentSize \in Nat \ {0} /\ Apart \in Nat /\ n * MaxElapsed \in Nat
      /\ SeekThreshold \in Nat /\ GateWindow \in Nat /\ MaxElapsed \in Nat
      /\ n * MaxElapsed <= MaxPauses * MaxElapsed /\ MaxPauses * MaxElapsed \in Nat
      /\ Apart = GateWindow + SeekThreshold + SegmentSize + MaxPauses * MaxElapsed + MaxElapsed
  BY Reaches, Sizes
<1>3. ASSUME NEW j \in 0 .. n * MaxElapsed
      PROVE  TsCmp(f, TsAdd(s, j)) < 0 /\ TsCmp(TsAdd(s, j), f) > SeekThreshold
  <2>1. j \in 0 .. Apart /\ j # Apart /\ k \in 0 .. Apart /\ k # Apart
    BY <1>2
  <2>2. TsCmp(TsAdd(s, j), f) >= Apart + j - k /\ TsCmp(f, TsAdd(s, j)) <= -(Apart + j - k)
    BY <1>1, <2>1, TrackSpread
  <2>3. TsCmp(TsAdd(s, j), f) \in Int /\ TsCmp(f, TsAdd(s, j)) \in Int
    BY <1>1, <2>1, AddType, CmpCases, Sizes
  <2> QED
    BY <1>2, <2>1, <2>2, <2>3
<1>4. ASSUME NEW j \in 0 .. SegmentSize - 1
      PROVE  TsCmp(f, TsAdd(s, j)) < 0
  <2>1. j \in 0 .. Apart /\ j # Apart /\ k \in 0 .. Apart /\ k # Apart
    BY <1>2
  <2>2. TsCmp(f, TsAdd(s, j)) <= -(Apart + j - k)
    BY <1>1, <2>1, TrackSpread
  <2>3. TsCmp(f, TsAdd(s, j)) \in Int
    BY <1>1, <2>1, AddType, CmpCases, Sizes
  <2> QED
    BY <1>2, <2>1, <2>2, <2>3
<1> QED
  BY <1>3, <1>4 DEF AtPosition, InTrack, Far

(* Frames of a track that lies after are beyond the window of every        *)
(* position, and behind every frame, of this one.                          *)
LEMMA OldIsBeyond ==
  ASSUME NEW s \in Starts, NEW t \in Starts, Later(t, s),
         NEW f, InTrack(f, t), NEW n \in 0 .. MaxPauses
  PROVE  /\ \A r : AtPosition(r, s, n) => TsCmp(f, UpperBound(r)) > 0 /\ Far(f, r)
         /\ \A g : InTrack(g, s) => TsCmp(g, f) < 0
<1>1. PICK k \in 0 .. SegmentSize - 1 : f = TsAdd(t, k)
  BY DEF InTrack
<1>2. /\ SegmentSize \in Nat \ {0} /\ Apart \in Nat /\ n * MaxElapsed \in Nat
      /\ SeekThreshold \in Nat /\ GateWindow \in Nat /\ MaxElapsed \in Nat
      /\ n * MaxElapsed <= MaxPauses * MaxElapsed /\ MaxPauses * MaxElapsed \in Nat
      /\ Apart = GateWindow + SeekThreshold + SegmentSize + MaxPauses * MaxElapsed + MaxElapsed
  BY Reaches, Sizes
<1>3. ASSUME NEW j \in 0 .. n * MaxElapsed + GateWindow
      PROVE  /\ TsCmp(f, TsAdd(s, j)) > 0
             /\ j <= n * MaxElapsed => TsCmp(f, TsAdd(s, j)) > SeekThreshold
  <2>1. j \in 0 .. Apart /\ j # Apart /\ k \in 0 .. Apart /\ k # Apart
    BY <1>2
  <2>2. TsCmp(f, TsAdd(s, j)) >= Apart + k - j
    BY <1>1, <2>1, TrackSpread
  <2>3. TsCmp(f, TsAdd(s, j)) \in Int
    BY <1>1, <2>1, AddType, CmpCases, Sizes
  <2> QED
    BY <1>2, <2>1, <2>2, <2>3
<1>4. ASSUME NEW j \in 0 .. SegmentSize - 1
      PROVE  TsCmp(TsAdd(s, j), f) < 0
  <2>1. j \in 0 .. Apart /\ j # Apart /\ k \in 0 .. Apart /\ k # Apart
    BY <1>2
  <2>2. TsCmp(TsAdd(s, j), f) <= -(Apart + k - j)
    BY <1>1, <2>1, TrackSpread
  <2>3. TsCmp(TsAdd(s, j), f) \in Int
    BY <1>1, <2>1, AddType, CmpCases, Sizes
  <2> QED
    BY <1>2, <2>1, <2>2, <2>3
<1>5. ASSUME NEW j \in 0 .. n * MaxElapsed
      PROVE  /\ TsCmp(f, UpperBound(TsAdd(s, j))) > 0
             /\ TsCmp(f, TsAdd(s, j)) > SeekThreshold
  <2>1. j \in Nat /\ j + GateWindow \in 0 .. n * MaxElapsed + GateWindow
        /\ j \in 0 .. n * MaxElapsed + GateWindow /\ j <= n * MaxElapsed
    BY <1>2
  <2>2. UpperBound(TsAdd(s, j)) = TsAdd(s, j + GateWindow)
    BY <1>2, <2>1, AddAdd, Sizes DEF UpperBound
  <2> QED
    BY <1>3, <2>1, <2>2
<1> QED
  BY <1>4, <1>5 DEF AtPosition, InTrack, Far

(* A new track never looks like the old one going on.                      *)
LEMMA JumpIsFar ==
  ASSUME NEW s \in Starts, NEW t \in Starts, s # t,
         NEW r, NEW n \in 0 .. MaxPauses, AtPosition(r, t, n), NEW e \in 0 .. MaxElapsed
  PROVE  Far(s, TsAdd(r, e))
<1>1. PICK j \in 0 .. n * MaxElapsed : r = TsAdd(t, j)
  BY DEF AtPosition
<1>2. /\ SegmentSize \in Nat \ {0} /\ Apart \in Nat /\ n * MaxElapsed \in Nat
      /\ SeekThreshold \in Nat /\ GateWindow \in Nat /\ MaxElapsed \in Nat
      /\ n * MaxElapsed <= MaxPauses * MaxElapsed /\ MaxPauses * MaxElapsed \in Nat
      /\ Apart = GateWindow + SeekThreshold + SegmentSize + MaxPauses * MaxElapsed + MaxElapsed
      /\ s \in AllTimestamps /\ t \in AllTimestamps
  BY Reaches, Sizes
<1>3. /\ j + e \in Nat /\ j + e \in 0 .. Apart /\ j + e # Apart /\ j \in Nat /\ e \in Nat
      /\ 0 \in 0 .. Apart /\ 0 # Apart /\ j + e <= MaxPauses * MaxElapsed + MaxElapsed
  BY <1>2
<1>4. TsAdd(r, e) = TsAdd(t, j + e)
  BY <1>1, <1>2, <1>3, AddAdd
<1>5. TsAdd(s, 0) = s
  BY <1>2, Sizes, AddCases DEF AllTimestamps
<1> DEFINE q == TsAdd(t, j + e)
<1>6. q \in AllTimestamps /\ TsCmp(s, q) \in Int /\ TsCmp(q, s) \in Int
  BY <1>2, <1>3, AddType, CmpCases
<1>7. CASE Later(s, t)
  <2>1. TsCmp(s, q) >= Apart + 0 - (j + e)
    BY <1>3, <1>5, <1>7, TrackSpread
  <2> QED
    BY <1>2, <1>3, <1>4, <1>6, <2>1 DEF Far
<1>8. CASE Later(t, s)
  <2>1. TsCmp(q, s) >= Apart + (j + e) - 0
    BY <1>3, <1>5, <1>8, TrackSpread
  <2> QED
    BY <1>2, <1>3, <1>4, <1>6, <2>1 DEF Far
<1> QED
  BY <1>7, <1>8, SeekAssumption

-----------------------------------------------------------------------------
(* Types *)

(* Frames and requests.                                                    *)
LEMMA RecordTypes ==
  /\ NoFrame \in Frames
  /\ \A op \in Ops, ts \in AllTimestamps, n \in Segments :
       Request(op, ts, n) \in [op : Ops, rtp : AllTimestamps, seg : Segments]
  /\ NoRequest \in [op : Ops, rtp : AllTimestamps, seg : Segments]
<1>1. NoFrame \in Frames
  BY Sizes DEF NoFrame, Frames
<1>2. ASSUME NEW op \in Ops, NEW ts \in AllTimestamps, NEW n \in Segments
      PROVE  Request(op, ts, n) \in [op : Ops, rtp : AllTimestamps, seg : Segments]
  BY DEF Request
<1>3. NoRequest \in [op : Ops, rtp : AllTimestamps, seg : Segments]
  BY <1>2, Sizes DEF NoRequest, Ops
<1> QED
  BY <1>1, <1>2, <1>3

(* The types, at the start. *)
LEMMA InitTypes == Init => TypeOK
<1> SUFFICES ASSUME Init PROVE TypeOK
  OBVIOUS
<1>1. rtsp \in Seq([op : Ops, rtp : AllTimestamps, seg : Segments])
  <2>1. Request("anchor", First, 0) \in [op : Ops, rtp : AllTimestamps, seg : Segments]
    BY RecordTypes, Sizes DEF Ops
  <2> QED
    BY <2>1 DEF Init
<1>2. backlog \in Seq(Frames) /\ Len(backlog) <= BacklogSize
  BY Sizes DEF Init
<1>3. gates \in [all : BOOLEAN, arm : BOOLEAN, before : AllTimestamps,
                beforeOn : BOOLEAN, above : AllTimestamps, aboveOn : BOOLEAN]
  BY Sizes DEF Init, OpenGates
<1>4. sender \in [seg : Segments, start : Starts, sent : 0 .. SegmentSize]
  BY Sizes DEF Init
<1>5. /\ ring \in SUBSET Frames
      /\ anchor \in [valid : BOOLEAN, rtp : AllTimestamps, seg : Segments]
      /\ heard \subseteq Segments /\ masked \in BOOLEAN /\ playing \in BOOLEAN
  BY Sizes DEF Init
<1>6. elapsed \in 0 .. MaxElapsed /\ played \in 0 .. elapsed /\ pauses \in 0 .. MaxPauses
  BY Sizes DEF Init
<1>7. /\ stream \in [pc : {"read", "lower", "passLower", "upper", "passUpper", "decode", "queue"},
                    frame : Frames]
      /\ task \in [pc : {"idle", "disarm", "close", "anchor", "lower", "upper", "open", "check", "set"},
                  req : [op : Ops, rtp : AllTimestamps, seg : Segments], armed : BOOLEAN]
  BY RecordTypes DEF Init
<1> QED
  BY <1>1, <1>2, <1>3, <1>4, <1>5, <1>6, <1>7 DEF TypeOK

(* The sender and the clock. *)
LEMMA SenderTypes ==
  ASSUME TypeOK, User \/ SendFrame \/ Tick
  PROVE  TypeOK'
<1> DEFINE Requests == [op : Ops, rtp : AllTimestamps, seg : Segments]
<1>1. /\ sender \in [seg : Segments, start : Starts, sent : 0 .. SegmentSize]
      /\ sender.seg \in Segments /\ sender.start \in AllTimestamps /\ sender.sent \in 0 .. SegmentSize
      /\ backlog \in Seq(Frames) /\ Len(backlog) \in Nat /\ rtsp \in Seq(Requests)
      /\ anchor.rtp \in AllTimestamps /\ played \in Nat /\ elapsed \in 0 .. MaxElapsed
      /\ played <= elapsed /\ pauses \in 0 .. MaxPauses
  BY Sizes DEF TypeOK
<1>2. CASE SendFrame
  <2> DEFINE f == [ts |-> TsAdd(sender.start, sender.sent), seg |-> sender.seg]
  <2>1. f \in Frames
    BY <1>1, Sizes, AddType DEF Frames
  <2>2. backlog' = Append(backlog, f) /\ Len(backlog) < BacklogSize
    BY <1>2 DEF SendFrame
  <2> HIDE DEF f
  <2>3. backlog' \in Seq(Frames) /\ Len(backlog') <= BacklogSize
    BY <1>1, <2>1, <2>2, Sizes
  <2>4. sender.sent < SegmentSize
    BY <1>1, <1>2, Sizes DEF SendFrame
  <2>5. sender' \in [seg : Segments, start : Starts, sent : 0 .. SegmentSize]
    <3>1. sender.sent + 1 \in 0 .. SegmentSize
      BY <1>1, <2>4, Sizes
    <3>2. sender' = [sender EXCEPT !.sent = sender.sent + 1]
      BY <1>2 DEF SendFrame
    <3> QED
      BY <1>1, <3>1, <3>2
  <2> QED
    BY <1>2, <2>3, <2>5 DEF SendFrame, TypeOK
<1>3. CASE Seek
  <2>1. PICK s \in Starts, flush \in {<<>>, <<Request("flush", 0, sender.seg + 1)>>} :
          /\ sender' = [seg |-> sender.seg + 1, start |-> s, sent |-> 0]
          /\ rtsp' = rtsp \o flush \o <<Request("anchor", s, sender.seg + 1)>>
    BY <1>3 DEF Seek
  <2>2. sender.seg + 1 \in Segments
    BY <1>1, <1>3, Sizes DEF Seek, Segments
  <2>3. Request("flush", 0, sender.seg + 1) \in Requests /\ Request("anchor", s, sender.seg + 1) \in Requests
    BY <2>2, RecordTypes, Sizes DEF Ops
  <2> DEFINE F == Request("flush", 0, sender.seg + 1)
             A == Request("anchor", s, sender.seg + 1)
  <2> HIDE DEF F, A
  <2>4. flush \in Seq(Requests) /\ <<A>> \in Seq(Requests)
    <3>1. F \in Requests /\ A \in Requests
      BY <2>3 DEF F, A
    <3>2. <<>> \in Seq(Requests) /\ <<F>> \in Seq(Requests) /\ <<A>> \in Seq(Requests)
      BY <3>1
    <3> QED
      BY <2>1, <3>2 DEF F
  <2>5. rtsp' \in Seq(Requests)
    BY <1>1, <2>1, <2>4 DEF A
  <2>6. sender' \in [seg : Segments, start : Starts, sent : 0 .. SegmentSize]
    BY <2>1, <2>2, Sizes
  <2> QED
    BY <1>3, <2>5, <2>6 DEF Seek, TypeOK
<1>4. CASE Pause \/ Resume
  <2>1. /\ Request("pause", 0, sender.seg) \in Requests
        /\ Request("resume", TsAdd(anchor.rtp, played), sender.seg) \in Requests
    BY <1>1, RecordTypes, Sizes, AddType DEF Ops
  <2>2. rtsp' \in Seq(Requests)
    <3>1. \A r \in Requests : <<r>> \in Seq(Requests)
      OBVIOUS
    <3>2. \/ rtsp' = <<Request("pause", 0, sender.seg)>>
          \/ rtsp' = <<Request("resume", TsAdd(anchor.rtp, played), sender.seg)>>
      BY <1>4 DEF Pause, Resume
    <3> QED
      BY <2>1, <3>1, <3>2
  <2>3. pauses' \in 0 .. MaxPauses
    BY <1>1, <1>4, Sizes DEF Pause, Resume
  <2> QED
    BY <1>4, <2>2, <2>3 DEF Pause, Resume, TypeOK
<1>5. CASE Tick
  <2>1. elapsed' \in 0 .. MaxElapsed /\ played' \in 0 .. elapsed'
    BY <1>1, <1>5, Sizes DEF Tick
  <2>2. ring' \in SUBSET Frames
    BY <1>5 DEF Tick, TypeOK
  <2> QED
    BY <1>5, <2>1, <2>2 DEF Tick, TypeOK
<1> QED
  BY <1>2, <1>3, <1>4, <1>5 DEF User

(* The stream task. *)
LEMMA StreamTypes ==
  ASSUME TypeOK, StreamTask
  PROVE  TypeOK'
<1>1. /\ stream.frame \in Frames /\ stream.frame.seg \in Segments /\ NoFrame \in Frames
      /\ backlog \in Seq(Frames)
      /\ backlog # <<>> => Head(backlog) \in Frames /\ Tail(backlog) \in Seq(Frames)
                           /\ Len(Tail(backlog)) <= Len(backlog)
      /\ gates \in [all : BOOLEAN, arm : BOOLEAN, before : AllTimestamps,
                    beforeOn : BOOLEAN, above : AllTimestamps, aboveOn : BOOLEAN]
  <2>1. backlog # <<>> => Head(backlog) \in Frames /\ Tail(backlog) \in Seq(Frames)
                           /\ Len(Tail(backlog)) <= Len(backlog)
    BY HeadTailProperties, LenProperties DEF TypeOK
  <2> QED
    BY <2>1, RecordTypes DEF TypeOK, Frames
<1>2. ASSUME NEW f \in Frames,
             NEW l \in {"read", "lower", "passLower", "upper", "passUpper", "decode", "queue"}
      PROVE  StreamAt(l, f) =>
               stream' \in [pc : {"read", "lower", "passLower", "upper", "passUpper", "decode", "queue"},
                            frame : Frames]
  BY DEF StreamAt
<1>3. CASE ReadPacket
  <2>1. stream' \in [pc : {"read", "lower", "passLower", "upper", "passUpper", "decode", "queue"},
                     frame : Frames]
    BY <1>1, <1>2, <1>3 DEF ReadPacket, TypeOK
  <2>2. backlog' \in Seq(Frames) /\ Len(backlog') <= BacklogSize
    BY <1>1, <1>3, Sizes, LenProperties DEF ReadPacket, TypeOK
  <2> QED
    BY <1>3, <2>1, <2>2 DEF ReadPacket, TypeOK
<1>4. CASE CheckLower \/ CheckUpper \/ Recheck
  <2>1. stream' \in [pc : {"read", "lower", "passLower", "upper", "passUpper", "decode", "queue"},
                     frame : Frames]
    BY <1>1, <1>2, <1>4 DEF CheckLower, CheckUpper, Recheck
  <2> QED
    BY <1>4, <2>1 DEF CheckLower, CheckUpper, Recheck, TypeOK
<1>5. CASE DisarmLower \/ DisarmUpper
  <2>1. stream' \in [pc : {"read", "lower", "passLower", "upper", "passUpper", "decode", "queue"},
                     frame : Frames]
    BY <1>1, <1>2, <1>5 DEF DisarmLower, DisarmUpper
  <2>2. gates' \in [all : BOOLEAN, arm : BOOLEAN, before : AllTimestamps,
                    beforeOn : BOOLEAN, above : AllTimestamps, aboveOn : BOOLEAN]
    BY <1>1, <1>5 DEF DisarmLower, DisarmUpper
  <2> QED
    BY <1>5, <2>1, <2>2 DEF DisarmLower, DisarmUpper, TypeOK
<1>6. CASE QueueFrame
  <2>1. stream' \in [pc : {"read", "lower", "passLower", "upper", "passUpper", "decode", "queue"},
                     frame : Frames]
    BY <1>1, <1>2, <1>6 DEF QueueFrame
  <2>2. ring' \in SUBSET Frames /\ heard' \subseteq Segments
    BY <1>1, <1>6 DEF QueueFrame, TypeOK
  <2> QED
    BY <1>6, <2>1, <2>2 DEF QueueFrame, TypeOK
<1> QED
  BY <1>3, <1>4, <1>5, <1>6 DEF StreamTask

(* The RTSP task. *)
LEMMA TaskTypes ==
  ASSUME TypeOK, RtspTask
  PROVE  TypeOK'
<1> DEFINE Requests == [op : Ops, rtp : AllTimestamps, seg : Segments]
           Places == {"idle", "disarm", "close", "anchor", "lower", "upper", "open", "check", "set"}
           Tasks == [pc : Places, req : Requests, armed : BOOLEAN]
           Gates == [all : BOOLEAN, arm : BOOLEAN, before : AllTimestamps,
                     beforeOn : BOOLEAN, above : AllTimestamps, aboveOn : BOOLEAN]
<1>1. /\ task \in Tasks /\ task.req \in Requests
      /\ task.req.rtp \in AllTimestamps /\ task.req.seg \in Segments /\ gates \in Gates
      /\ UpperBound(task.req.rtp) \in AllTimestamps
  BY AddType, Sizes DEF TypeOK, UpperBound
<1>2. \A l \in Places : TaskAt(l) => task' \in Tasks
  BY <1>1 DEF TaskAt
<1>3. ASSUME NEW ops, NEW l \in Places, Receive(ops, l)
      PROVE  task' \in Tasks /\ rtsp' \in Seq(Requests)
  <2>1. rtsp \in Seq(Requests) /\ rtsp # <<>>
    BY <1>3 DEF Receive, TypeOK
  <2>2. Head(rtsp) \in Requests /\ Tail(rtsp) \in Seq(Requests)
    BY <2>1, HeadTailProperties
  <2> QED
    BY <1>3, <2>2 DEF Receive
<1>4. CASE FlushBuffered \/ PauseStream \/ BeginAnchor
  <2>1. task' \in Tasks /\ rtsp' \in Seq(Requests)
    BY <1>3, <1>4 DEF FlushBuffered, PauseStream, BeginAnchor
  <2>2. anchor' \in [valid : BOOLEAN, rtp : AllTimestamps, seg : Segments]
    BY <1>4 DEF FlushBuffered, PauseStream, BeginAnchor, TypeOK
  <2>3. elapsed' \in 0 .. MaxElapsed /\ played' \in 0 .. elapsed'
    <3>1. \/ elapsed' = 0 /\ played' = 0
          \/ elapsed' = elapsed /\ played' = played
      BY <1>4 DEF FlushBuffered, PauseStream, BeginAnchor
    <3> QED
      BY <3>1, Sizes DEF TypeOK
  <2>4. ring' \in SUBSET Frames /\ playing' \in BOOLEAN
    BY <1>4 DEF FlushBuffered, PauseStream, BeginAnchor, TypeOK
  <2> QED
    BY <1>4, <2>1, <2>2, <2>3, <2>4 DEF FlushBuffered, PauseStream, BeginAnchor, TypeOK
<1>5. CASE DisarmGates \/ CloseGate \/ ArmLower \/ ArmUpper \/ OpenGate
  <2>1. task' \in Tasks
    BY <1>2, <1>5 DEF DisarmGates, CloseGate, ArmLower, ArmUpper, OpenGate
  <2>2. gates' \in Gates
    <3>1. OpenGates \in Gates
      BY Sizes DEF OpenGates
    <3>2. CASE DisarmGates
      BY <3>1, <3>2 DEF DisarmGates
    <3>3. CASE CloseGate \/ OpenGate
      BY <1>1, <3>3 DEF CloseGate, OpenGate
    <3>4. CASE ArmLower \/ ArmUpper
      BY <1>1, <3>4 DEF ArmLower, ArmUpper
    <3> QED
      BY <1>5, <3>2, <3>3, <3>4
  <2> QED
    BY <1>5, <2>1, <2>2 DEF DisarmGates, CloseGate, ArmLower, ArmUpper, OpenGate, TypeOK
<1>6. CASE ArmOnAnchor \/ FlushOnJump
  <2>1. task' \in Tasks
    BY <1>1, <1>6 DEF ArmOnAnchor, FlushOnJump
  <2>2. gates' \in Gates /\ ring' \in SUBSET Frames
    BY <1>1, <1>6 DEF ArmOnAnchor, FlushOnJump, TypeOK
  <2> QED
    BY <1>6, <2>1, <2>2 DEF ArmOnAnchor, FlushOnJump, TypeOK
<1>7. CASE SameTrack \/ FlushStale \/ KeepRing
  <2>1. task' \in Tasks
    BY <1>2, <1>7 DEF SameTrack, FlushStale, KeepRing
  <2>2. ring' \in SUBSET Frames /\ masked' \in BOOLEAN
    BY <1>7 DEF SameTrack, FlushStale, KeepRing, Masked, TypeOK
  <2> QED
    BY <1>7, <2>1, <2>2 DEF SameTrack, FlushStale, KeepRing, TypeOK
<1>8. CASE SetAnchor
  <2>1. task' \in Tasks
    BY <1>8, RecordTypes DEF SetAnchor
  <2>2. anchor' \in [valid : BOOLEAN, rtp : AllTimestamps, seg : Segments]
    BY <1>1, <1>8 DEF SetAnchor
  <2>3. elapsed' \in 0 .. MaxElapsed /\ played' \in 0 .. elapsed' /\ playing' \in BOOLEAN
    BY <1>8, Sizes DEF SetAnchor
  <2> QED
    BY <1>8, <2>1, <2>2, <2>3 DEF SetAnchor, TypeOK
<1> QED
  BY <1>4, <1>5, <1>6, <1>7, <1>8 DEF RtspTask, SetAnchorTime

(* Every step keeps them. *)
LEMMA StepTypes == TypeOK /\ [Next]_vars => TypeOK'
<1>1. ASSUME TypeOK, UNCHANGED vars PROVE TypeOK'
  BY <1>1 DEF vars, TypeOK
<1> QED
  BY <1>1, SenderTypes, StreamTypes, TaskTypes DEF Next

(* The variables have their types, however the tasks interleave: the gates *)
(* hold timestamps, across the wrap too, nothing plays longer than its     *)
(* anchor is old.                                                          *)
THEOREM TypeCorrect == Spec => []TypeOK
BY InitTypes, StepTypes, PTL DEF Spec

-----------------------------------------------------------------------------
(* At most one stale frame *)

(* A set of natural numbers has a least member: of the finite sets 0 .. x  *)
(* one has no other below it.                                              *)
LEMMA HasLeast ==
  ASSUME NEW S, S \subseteq Nat, S # {}
  PROVE  \E x \in S : \A y \in S : x <= y
<1> DEFINE UpTo(x) == 0 .. x
           T == {UpTo(x) : x \in S}
           R == StrictSubsetOrdering(Nat)
<1>1. \A x \in S : UpTo(x) \in FiniteSubsetsOf(Nat)
  <2> SUFFICES ASSUME NEW x \in S PROVE UpTo(x) \in FiniteSubsetsOf(Nat)
    OBVIOUS
  <2>1. x \in Nat /\ 0 \in Int
    OBVIOUS
  <2>2. IsFiniteSet(0 .. x)
    BY <2>1, FS_Interval
  <2>3. 0 .. x \in SUBSET Nat
    BY <2>1
  <2> QED
    BY <2>2, <2>3 DEF FiniteSubsetsOf
<1>2. T \subseteq FiniteSubsetsOf(Nat) /\ T # {}
  BY <1>1
<1>3. IsWellFoundedOn(R, FiniteSubsetsOf(Nat))
  BY FS_StrictSubsetOrderingWellFounded
<1> HIDE DEF T, R
<1>4. PICK s \in T : \A t \in T : ~ (<<t, s>> \in R)
  BY <1>2, <1>3, WFMin
<1>5. PICK x \in S : s = UpTo(x)
  BY <1>4 DEF T
<1>6. \A y \in S : x <= y
  <2> SUFFICES ASSUME NEW y \in S, y < x PROVE FALSE
    OBVIOUS
  <2>1. x \in Nat /\ y \in Nat
    OBVIOUS
  <2>2. UpTo(y) \subseteq UpTo(x) /\ x \in UpTo(x) /\ x \notin UpTo(y)
    BY <2>1, y < x
  <2>3. UpTo(y) \in SUBSET Nat /\ UpTo(x) \in SUBSET Nat
    BY <2>1
  <2>4. UpTo(y) \in T
    BY DEF T
  <2> HIDE DEF UpTo
  <2>5. <<UpTo(y), UpTo(x)>> \in R
    BY <2>2, <2>3 DEF R, StrictSubsetOrdering
  <2> QED
    BY <2>4, <2>5, <1>4, <1>5
<1> QED
  BY <1>6

(* Two frames of a track compare as their numbers in it.                   *)
LEMMA TrackOrder ==
  ASSUME NEW s \in AllTimestamps, SegmentSize <= TsMod \div 2,
         NEW i \in 0 .. SegmentSize - 1, NEW j \in 0 .. SegmentSize - 1, i <= j
  PROVE  TsCmp(TsAdd(s, i), TsAdd(s, j)) <= 0
<1>1. /\ TsMod \in Nat \ {0} /\ TsMod \div 2 \in Nat /\ 2 * (TsMod \div 2) <= TsMod
      /\ SegmentSize \in Nat /\ i \in Nat /\ j \in Nat
  BY Sizes
<1>2. \A a \in AllTimestamps : TsCmp(a, a) = 0
  <2> SUFFICES ASSUME NEW a \in AllTimestamps PROVE TsCmp(a, a) = 0
    OBVIOUS
  <2>1. a \in Int /\ a >= a /\ a - a = 0
    BY <1>1 DEF AllTimestamps
  <2>2. TsMod \div 2 > 0
    BY <1>1, SegmentSize <= TsMod \div 2, Sizes
  <2> DEFINE h == TsMod \div 2
  <2>3. TsCmp(a, a) = IF (IF a >= a THEN a - a ELSE a - a + TsMod) >= h
                      THEN (IF a >= a THEN a - a ELSE a - a + TsMod) - TsMod
                      ELSE (IF a >= a THEN a - a ELSE a - a + TsMod)
    BY CmpCases
  <2> HIDE DEF h
  <2>4. h > 0 /\ h \in Nat
    BY <1>1, <2>2 DEF h
  <2> QED
    BY <2>1, <2>3, <2>4
<1>3. CASE i = j
  <2>1. TsAdd(s, i) \in AllTimestamps
    BY <1>1, AddType
  <2> QED
    BY <1>2, <1>3, <2>1
<1>4. CASE i < j
  <2>1. TsCmp(s, s) = 0
    BY <1>2
  <2>2. i \in 0 .. TsMod - 1 /\ j \in 0 .. TsMod - 1
        /\ 0 < 0 + j - i /\ 0 + j - i < TsMod \div 2
    BY <1>1, <1>4, SegmentSize <= TsMod \div 2
  <2>3. TsCmp(TsAdd(s, i), TsAdd(s, j)) = -(0 + j - i)
    BY <2>1, <2>2, Spread
  <2> QED
    BY <1>1, <1>4, <2>3
<1> QED
  BY <1>1, <1>3, <1>4

(* Frames of one track have an oldest.                                     *)
LEMMA TrackHasOldest ==
  ASSUME NEW s \in AllTimestamps, SegmentSize <= TsMod \div 2, NEW S, S # {},
         \A f \in S : InTrack(f.ts, s)
  PROVE  \E f \in S : \A g \in S : TsCmp(f.ts, g.ts) <= 0
<1> DEFINE K == {k \in 0 .. SegmentSize - 1 : \E f \in S : f.ts = TsAdd(s, k)}
<1>1. K \subseteq Nat /\ K # {} /\ \A k \in K : k \in 0 .. SegmentSize - 1
  <2>1. PICK f \in S : InTrack(f.ts, s)
    OBVIOUS
  <2>2. PICK k \in 0 .. SegmentSize - 1 : f.ts = TsAdd(s, k)
    BY <2>1 DEF InTrack
  <2> QED
    BY <2>2, Sizes
<1>2. \A g \in S : \E j \in K : g.ts = TsAdd(s, j)
  BY DEF InTrack
<1>3. \A k \in K : \E f \in S : f.ts = TsAdd(s, k)
  OBVIOUS
<1> HIDE DEF K
<1>4. PICK k \in K : \A j \in K : k <= j
  BY <1>1, HasLeast
<1>5. PICK f \in S : f.ts = TsAdd(s, k)
  BY <1>3
<1>6. ASSUME NEW g \in S PROVE TsCmp(f.ts, g.ts) <= 0
  <2>1. PICK j \in K : g.ts = TsAdd(s, j)
    BY <1>2
  <2>2. k <= j
    BY <1>4
  <2> QED
    BY <1>1, <1>5, <2>1, <2>2, TrackOrder
<1> QED
  BY <1>6

(* A request is under way for a seek or for a pause, not for both.         *)
LEMMA OneMode == ~(Seeking /\ Steady)
<1> SUFFICES ASSUME Seeking, Steady PROVE FALSE
  OBVIOUS
<1>1. NewAnchor.op = "anchor" /\ NewFlush.op = "flush" /\ Request("pause", 0, sender.seg).op = "pause"
  BY DEF NewAnchor, NewFlush, Request
<1>2. \A r : IsResume(r) => r.op = "resume"
  BY DEF IsResume
<1>3. CASE task.pc = "idle"
  <2>1. rtsp = <<NewAnchor>> \/ rtsp = <<NewFlush, NewAnchor>>
    BY <1>3 DEF Seeking, AnchorSteps
  <2>2. rtsp # <<>> /\ Head(rtsp) \in {NewAnchor, NewFlush}
    BY <2>1
  <2>3. Head(rtsp).op \in {"anchor", "flush"}
    BY <1>1, <2>2
  <2>4. Head(rtsp).op \in {"pause", "resume"}
    BY <1>1, <1>2, <1>3, <2>2 DEF Steady, AnchorSteps
  <2> QED
    BY <2>3, <2>4
<1>4. CASE task.pc # "idle"
  <2>1. IsResume(task.req) /\ rtsp = <<>>
    BY <1>4 DEF Steady
  <2>2. task.req = NewAnchor
    BY <1>4, <2>1 DEF Seeking
  <2> QED
    BY <1>1, <1>2, <2>1, <2>2
<1> QED
  BY <1>3, <1>4

(* Where a request is depends on the sender's track, the requests, the     *)
(* anchor and the RTSP task.                                               *)
LEMMA SameControl ==
  ASSUME NEW p, UNCHANGED <<pauses, rtsp, anchor, playing, task>>,
         sender'.seg = sender.seg, sender'.start = sender.start
  PROVE  /\ Seeking' <=> Seeking
         /\ Steady' <=> Steady
         /\ LowerArmed' <=> LowerArmed
         /\ UpperArmed' <=> UpperArmed
         /\ gates'.arm = gates.arm /\ PositionInv(p) => PositionInv(p)'
         /\ \A f : FromTrack(f, p)' <=> FromTrack(f, p)
         /\ \A f : IsOld(f)' <=> IsOld(f)
<1>1. Seeking' <=> Seeking
  BY DEF Seeking, NewAnchor, NewFlush, Request, AnchorSteps
<1>2. Steady' <=> Steady
  BY DEF Steady, IsResume, Request, AnchorSteps
<1>3. (LowerArmed' <=> LowerArmed) /\ (UpperArmed' <=> UpperArmed)
  BY <1>1 DEF LowerArmed, UpperArmed
<1>4. gates'.arm = gates.arm /\ PositionInv(p) => PositionInv(p)'
  BY <1>1, <1>2 DEF PositionInv, PauseAsked, NewAnchor, Request, AnchorSteps
<1>5. \A f : (FromTrack(f, p)' <=> FromTrack(f, p)) /\ (IsOld(f)' <=> IsOld(f))
  BY DEF FromTrack, IsOld
<1> QED
  BY <1>1, <1>2, <1>3, <1>4, <1>5

(* The types the proofs use. *)
LEMMA Typed ==
  ASSUME TypeOK
  PROVE  /\ sender.seg \in Nat /\ sender.start \in Starts /\ sender.start \in AllTimestamps
         /\ sender.sent \in Nat /\ anchor.seg \in Nat
         /\ anchor.valid \in BOOLEAN /\ pauses \in 0 .. MaxPauses
         /\ \A i \in 1 .. Len(backlog) : backlog[i] \in Frames /\ backlog[i].seg \in Nat
         /\ Len(backlog) \in Nat /\ backlog \in Seq(Frames)
         /\ \A f \in ring : f \in Frames /\ f.seg \in Nat
         /\ stream.frame \in Frames /\ stream.frame.seg \in Nat
         /\ rtsp \in Seq([op : Ops, rtp : AllTimestamps, seg : Segments])
<1>1. \A n \in Segments : n \in Nat
  BY Sizes DEF Segments
<1>2. \A f \in Frames : f.seg \in Segments
  BY DEF Frames
<1>3. \A i \in 1 .. Len(backlog) : backlog[i] \in Frames
  BY DEF TypeOK
<1> QED
  BY <1>1, <1>2, <1>3, Sizes DEF TypeOK

(* A frame of the track before: how it lies, and which gate refuses it.    *)
LEMMA OldIsRefused ==
  ASSUME TypeOK, NEW p \in Starts, FramesInv(p), GatesInv(p),
         stream.pc # "read", IsOld(stream.frame)
  PROVE  /\ sender.seg > 0
         /\ Later(sender.start, p) \/ Later(p, sender.start)
         /\ Later(sender.start, p) /\ gates.beforeOn => BelowLower
         /\ Later(p, sender.start) /\ gates.aboveOn => AboveUpper
         /\ stream.pc # "queue" /\ LowerArmed /\ UpperArmed => BelowLower \/ AboveUpper
<1>1. FromTrack(stream.frame, p)
  BY DEF FramesInv
<1>2. stream.frame.seg \in Nat /\ sender.seg \in Nat /\ stream.frame.seg < sender.seg
  BY Typed DEF IsOld
<1>3. InTrack(stream.frame.ts, p) /\ sender.seg > 0
  BY <1>1, <1>2 DEF FromTrack
<1>4. p # sender.start /\ sender.start \in Starts
  BY <1>3, Typed DEF FramesInv
<1>5. Later(sender.start, p) \/ Later(p, sender.start)
  BY <1>4, SeekAssumption
<1>6. pauses \in 0 .. MaxPauses
  BY Typed
<1>7. ASSUME Later(sender.start, p), gates.beforeOn
      PROVE  BelowLower
  <2>1. AtPosition(gates.before, sender.start, pauses)
    BY <1>7 DEF GatesInv
  <2>2. TsCmp(stream.frame.ts, gates.before) < 0
    BY <1>3, <1>4, <1>6, <1>7, <2>1, OldIsBehind
  <2> QED
    BY <1>7, <2>2 DEF BelowLower
<1>8. ASSUME Later(p, sender.start), gates.aboveOn
      PROVE  AboveUpper
  <2>1. PICK r \in AllTimestamps : AtPosition(r, sender.start, pauses) /\ gates.above = UpperBound(r)
    BY <1>8 DEF GatesInv
  <2>2. TsCmp(stream.frame.ts, UpperBound(r)) > 0
    BY <1>3, <1>4, <1>6, <1>8, <2>1, OldIsBeyond
  <2> QED
    BY <1>8, <2>1, <2>2 DEF AboveUpper
<1>9. ASSUME stream.pc # "queue", LowerArmed, UpperArmed
      PROVE  BelowLower \/ AboveUpper
  <2>1. OldAhead
    BY <1>9 DEF OldAhead
  <2>2. (Later(sender.start, p) => gates.beforeOn) /\ (Later(p, sender.start) => gates.aboveOn)
    BY <1>3, <1>9, <2>1 DEF GatesInv
  <2> QED
    BY <1>5, <1>7, <1>8, <2>2
<1> QED
  BY <1>3, <1>5, <1>7, <1>8, <1>9

(* Behind a new frame every frame is new.                                  *)
LEMMA NewIsLast ==
  ASSUME TypeOK, NEW p \in Starts, FramesInv(p), stream.pc # "read", ~IsOld(stream.frame)
  PROVE  ~OldAhead
<1>1. FromTrack(stream.frame, p) /\ \A i \in 1 .. Len(backlog) : stream.frame.seg <= backlog[i].seg
  BY DEF FramesInv
<1>2. sender.seg \in Nat /\ stream.frame.seg \in Nat /\ ~(stream.frame.seg < sender.seg)
      /\ \A i \in 1 .. Len(backlog) : backlog[i].seg \in Nat
  BY Typed DEF IsOld
<1> QED
  BY <1>1, <1>2 DEF OldAhead, IsOld

(* The steps of the sender's stream, of the clock and of the stream task   *)
(* leave the control part alone ...                                        *)
LEMMA ControlKept ==
  ASSUME TypeOK, SendFrame \/ Tick \/ StreamTask
  PROVE  /\ UNCHANGED <<pauses, rtsp, anchor, playing, task, masked>>
         /\ sender'.seg = sender.seg /\ sender'.start = sender.start
         /\ gates'.arm = gates.arm
<1>1. CASE SendFrame
  BY <1>1 DEF SendFrame
<1>2. CASE Tick
  BY <1>2 DEF Tick
<1>3. CASE ReadPacket \/ CheckLower \/ CheckUpper \/ Recheck \/ QueueFrame
  BY <1>3 DEF ReadPacket, CheckLower, CheckUpper, Recheck, QueueFrame
<1>4. CASE DisarmLower \/ DisarmUpper
  BY <1>4 DEF DisarmLower, DisarmUpper, TypeOK
<1> QED
  BY <1>1, <1>2, <1>3, <1>4 DEF StreamTask

(* ... keep the frames in order ...                                        *)
LEMMA StreamFrames ==
  ASSUME TypeOK, NEW p \in Starts, FramesInv(p), SendFrame \/ Tick \/ StreamTask
  PROVE  FramesInv(p)'
<1>1. /\ sender'.seg = sender.seg /\ sender'.start = sender.start
      /\ \A f : FromTrack(f, p)' <=> FromTrack(f, p)
  BY ControlKept, SameControl
<1>2. /\ sender.seg > 0 => p # sender.start
      /\ \A i \in 1 .. Len(backlog) : FromTrack(backlog[i], p)
      /\ \A i, j \in 1 .. Len(backlog) : i < j => backlog[i].seg <= backlog[j].seg
      /\ stream.pc # "read" =>
           /\ FromTrack(stream.frame, p)
           /\ \A i \in 1 .. Len(backlog) : stream.frame.seg <= backlog[i].seg
  BY DEF FramesInv
<1>3. /\ sender.seg \in Nat /\ Len(backlog) \in Nat /\ backlog \in Seq(Frames)
      /\ \A i \in 1 .. Len(backlog) : backlog[i].seg \in Nat
      /\ stream.frame.seg \in Nat
  BY Typed
<1>4. CASE SendFrame
  <2> DEFINE f == [ts |-> TsAdd(sender.start, sender.sent), seg |-> sender.seg]
             b == Append(backlog, f)
  <2>1. backlog' = b /\ stream' = stream
    BY <1>4 DEF SendFrame
  <2>2. /\ Len(b) = Len(backlog) + 1 /\ b[Len(backlog) + 1] = f
        /\ \A i \in 1 .. Len(backlog) : b[i] = backlog[i]
    BY <1>3, AppendProperties
  <2>3. sender.sent \in 0 .. SegmentSize - 1
    <3>1. sender.sent \in Nat
      BY Typed
    <3>2. sender.sent < SegmentSize \/ sender.sent < Lead
      BY <1>4 DEF SendFrame
    <3> QED
      BY <3>1, <3>2, Sizes
  <2>4. FromTrack(f, p) /\ f.seg = sender.seg
    BY <2>3 DEF FromTrack, InTrack
  <2>5. \A g : FromTrack(g, p) /\ g.seg \in Nat => g.seg <= sender.seg
    BY <1>3 DEF FromTrack
  <2> HIDE DEF f, b
  <2>6. \A i \in 1 .. Len(b) : i \in 1 .. Len(backlog) \/ i = Len(backlog) + 1
    BY <1>3, <2>2
  <2>7. \A i \in 1 .. Len(b) : FromTrack(b[i], p)
    BY <1>2, <2>2, <2>4, <2>6
  <2>8. \A i, j \in 1 .. Len(b) : i < j => b[i].seg <= b[j].seg
    <3> SUFFICES ASSUME NEW i \in 1 .. Len(b), NEW j \in 1 .. Len(b), i < j
                 PROVE  b[i].seg <= b[j].seg
      OBVIOUS
    <3>1. i \in 1 .. Len(backlog)
      BY <1>3, <2>2
    <3>2. backlog[i].seg <= sender.seg
      BY <1>2, <1>3, <2>5, <3>1
    <3> QED
      BY <1>2, <2>2, <2>4, <2>6, <3>1, <3>2
  <2>9. stream.pc # "read" => \A i \in 1 .. Len(b) : stream.frame.seg <= b[i].seg
    BY <1>2, <1>3, <2>2, <2>4, <2>5, <2>6
  <2> QED
    BY <1>1, <1>2, <2>1, <2>7, <2>8, <2>9 DEF FramesInv
<1>5. CASE ReadPacket
  <2>1. backlog # <<>> /\ backlog' = Tail(backlog)
        /\ (stream' = stream \/ stream' = [pc |-> "lower", frame |-> Head(backlog)])
        /\ stream.pc = "read"
    BY <1>5 DEF ReadPacket, StreamAt
  <2> DEFINE b == Tail(backlog)
  <2>2. /\ Len(b) = Len(backlog) - 1 /\ Head(backlog) = backlog[1]
        /\ \A i \in 1 .. Len(b) : b[i] = backlog[i + 1]
    BY <1>3, <2>1, HeadTailProperties
  <2> HIDE DEF b
  <2>3. \A i \in 1 .. Len(b) : i + 1 \in 1 .. Len(backlog) /\ 1 < i + 1
    BY <1>3, <2>2
  <2>4. 1 \in 1 .. Len(backlog)
    BY <1>3, <2>1
  <2>5. \A i \in 1 .. Len(b) : FromTrack(b[i], p) /\ backlog[1].seg <= b[i].seg
    BY <1>2, <2>2, <2>3, <2>4
  <2>6. \A i, j \in 1 .. Len(b) : i < j => b[i].seg <= b[j].seg
    <3> SUFFICES ASSUME NEW i \in 1 .. Len(b), NEW j \in 1 .. Len(b), i < j
                 PROVE  b[i].seg <= b[j].seg
      OBVIOUS
    <3>1. i + 1 < j + 1
      BY <1>3, <2>2
    <3> QED
      BY <1>2, <2>2, <2>3, <3>1
  <2>7. FromTrack(Head(backlog), p)
    BY <1>2, <2>2, <2>4
  <2>8. backlog' = b
    BY <2>1 DEF b
  <2> QED
    BY <1>1, <1>2, <2>1, <2>2, <2>5, <2>6, <2>7, <2>8 DEF FramesInv
<1>6. CASE Tick \/ CheckLower \/ DisarmLower \/ CheckUpper \/ DisarmUpper \/ Recheck \/ QueueFrame
  <2>1. backlog' = backlog
    BY <1>6 DEF Tick, CheckLower, DisarmLower, CheckUpper, DisarmUpper, Recheck, QueueFrame
  <2>2. stream'.pc # "read" => stream.pc # "read" /\ stream'.frame = stream.frame
    BY <1>6 DEF Tick, CheckLower, DisarmLower, CheckUpper, DisarmUpper, Recheck, QueueFrame, StreamAt
  <2> QED
    BY <1>1, <1>2, <2>1, <2>2 DEF FramesInv
<1> QED
  BY <1>4, <1>5, <1>6 DEF StreamTask

(* ... keep the gates that are needed on ...                               *)
LEMMA StreamGates ==
  ASSUME TypeOK, NEW p \in Starts, FramesInv(p), GatesInv(p), SendFrame \/ Tick \/ StreamTask
  PROVE  GatesInv(p)'
<1>1. /\ sender'.seg = sender.seg /\ sender'.start = sender.start /\ pauses' = pauses
      /\ LowerArmed' <=> LowerArmed
      /\ UpperArmed' <=> UpperArmed
      /\ \A f : IsOld(f)' <=> IsOld(f)
  BY ControlKept, SameControl
<1>2. CASE SendFrame \/ Tick
  <2>1. gates' = gates /\ stream' = stream
    BY <1>2 DEF SendFrame, Tick
  <2>2. OldAhead' => OldAhead
    <3>1. CASE Tick
      BY <1>1, <3>1 DEF Tick, OldAhead
    <3>2. CASE SendFrame
      <4> DEFINE f == [ts |-> TsAdd(sender.start, sender.sent), seg |-> sender.seg]
                 b == Append(backlog, f)
      <4>1. backlog' = b /\ stream' = stream /\ ~IsOld(f)
        BY <3>2, Typed DEF SendFrame, IsOld
      <4>2. /\ Len(b) = Len(backlog) + 1 /\ b[Len(backlog) + 1] = f
            /\ \A i \in 1 .. Len(backlog) : b[i] = backlog[i]
        BY Typed, AppendProperties
      <4> HIDE DEF f, b
      <4>3. \A i \in 1 .. Len(b) : i \in 1 .. Len(backlog) \/ i = Len(backlog) + 1
        BY Typed, <4>2
      <4>4. \A i \in 1 .. Len(b) : IsOld(b[i]) => i \in 1 .. Len(backlog) /\ IsOld(backlog[i])
        BY <4>1, <4>2, <4>3
      <4> QED
        BY <1>1, <4>1, <4>4 DEF OldAhead
    <3> QED
      BY <1>2, <3>1, <3>2
  <2> QED
    BY <1>1, <2>1, <2>2 DEF GatesInv
<1>3. CASE ReadPacket
  <2>1. backlog # <<>> /\ backlog' = Tail(backlog) /\ gates' = gates
        /\ (stream' = stream \/ stream' = [pc |-> "lower", frame |-> Head(backlog)])
    BY <1>3 DEF ReadPacket, StreamAt
  <2> DEFINE b == Tail(backlog)
  <2>2. /\ Len(b) = Len(backlog) - 1 /\ Head(backlog) = backlog[1]
        /\ \A i \in 1 .. Len(b) : b[i] = backlog[i + 1]
    BY Typed, <2>1, HeadTailProperties
  <2>3. backlog' = b
    BY <2>1
  <2> HIDE DEF b
  <2>4. (\A i \in 1 .. Len(b) : i + 1 \in 1 .. Len(backlog)) /\ 1 \in 1 .. Len(backlog)
    BY Typed, <2>1, <2>2
  <2>5. OldAhead' => OldAhead
    BY <1>1, <2>1, <2>2, <2>3, <2>4 DEF OldAhead
  <2> QED
    BY <1>1, <2>1, <2>5 DEF GatesInv
<1>4. CASE CheckLower \/ CheckUpper \/ Recheck \/ QueueFrame
  <2>1. backlog' = backlog /\ gates' = gates
    BY <1>4 DEF CheckLower, CheckUpper, Recheck, QueueFrame
  <2>2. stream'.pc \notin {"read", "queue"} =>
          stream.pc \notin {"read", "queue"} /\ stream'.frame = stream.frame
    BY <1>4 DEF CheckLower, CheckUpper, Recheck, QueueFrame, StreamAt
  <2>3. OldAhead' => OldAhead
    BY <1>1, <2>1, <2>2 DEF OldAhead
  <2>4. stream'.pc = "passLower" =>
          stream'.frame = stream.frame /\ gates.beforeOn /\ ~BelowLower /\ stream.pc # "read"
    BY <1>4 DEF CheckLower, CheckUpper, Recheck, QueueFrame, StreamAt
  <2>5. stream'.pc = "passUpper" =>
          stream'.frame = stream.frame /\ gates.aboveOn /\ ~AboveUpper /\ stream.pc # "read"
    BY <1>4 DEF CheckLower, CheckUpper, Recheck, QueueFrame, StreamAt
  <2>6. stream'.pc = "passLower" /\ IsOld(stream.frame) => ~Later(sender.start, p)
    BY <2>4, OldIsRefused
  <2>7. stream'.pc = "passUpper" /\ IsOld(stream.frame) => ~Later(p, sender.start)
    BY <2>5, OldIsRefused
  <2>8. /\ (IsOld(stream.frame)' /\ stream'.frame = stream.frame) => IsOld(stream.frame)
    BY <1>1 DEF IsOld
  <2> QED
    BY <1>1, <2>1, <2>3, <2>4, <2>5, <2>6, <2>7, <2>8 DEF GatesInv
<1>5. CASE DisarmLower
  <2>1. /\ stream.pc = "passLower" /\ stream'.pc = "upper" /\ stream'.frame = stream.frame
        /\ backlog' = backlog
    BY <1>5 DEF DisarmLower, StreamAt
  <2>2. gates'.beforeOn = FALSE /\ gates'.aboveOn = gates.aboveOn /\ gates'.above = gates.above
    BY <1>5 DEF DisarmLower, TypeOK
  <2>3. OldAhead' <=> OldAhead
    BY <1>1, <2>1 DEF OldAhead
  <2>4. sender.seg > 0 => ~(OldAhead /\ Later(sender.start, p))
    <3>1. CASE IsOld(stream.frame)
      BY <2>1, <3>1 DEF GatesInv
    <3>2. CASE ~IsOld(stream.frame)
      BY <2>1, <3>2, NewIsLast
    <3> QED
      BY <3>1, <3>2
  <2> QED
    BY <1>1, <2>1, <2>2, <2>3, <2>4 DEF GatesInv
<1>6. CASE DisarmUpper
  <2>1. /\ stream.pc = "passUpper" /\ stream'.pc = "decode" /\ stream'.frame = stream.frame
        /\ backlog' = backlog
    BY <1>6 DEF DisarmUpper, StreamAt
  <2>2. gates'.aboveOn = FALSE /\ gates'.beforeOn = gates.beforeOn /\ gates'.before = gates.before
    BY <1>6 DEF DisarmUpper, TypeOK
  <2>3. OldAhead' <=> OldAhead
    BY <1>1, <2>1 DEF OldAhead
  <2>4. sender.seg > 0 => ~(OldAhead /\ Later(p, sender.start))
    <3>1. CASE IsOld(stream.frame)
      BY <2>1, <3>1 DEF GatesInv
    <3>2. CASE ~IsOld(stream.frame)
      BY <2>1, <3>2, NewIsLast
    <3> QED
      BY <3>1, <3>2
  <2> QED
    BY <1>1, <2>1, <2>2, <2>3, <2>4 DEF GatesInv
<1> QED
  BY <1>2, <1>3, <1>4, <1>5, <1>6 DEF StreamTask

(* If no older frame comes in, at most one stays at most one.              *)
LEMMA StillAtMostOne ==
  ASSUME NEW n, AtMostOne(n), \A f \in Arriving' : f.seg < n => f \in Arriving
  PROVE  \A f, g \in Arriving' : f.seg < n /\ g.seg < n => f = g
BY DEF AtMostOne

(* ... and let no frame in that the anchor does not cover, but one that    *)
(* was past its last gate before the gates were armed.                     *)
LEMMA StreamRing ==
  ASSUME TypeOK, NEW p \in Starts, SeekInvFrom(p), SendFrame \/ Tick \/ StreamTask
  PROVE  RingInv(p)'
<1>1. /\ UNCHANGED <<anchor, task, masked>> /\ sender'.seg = sender.seg
      /\ (Seeking' <=> Seeking)
      /\ \A f : FromTrack(f, p)' <=> FromTrack(f, p)
  BY ControlKept, SameControl
<1>2. FramesInv(p) /\ GatesInv(p) /\ PositionInv(p) /\ RingInv(p) /\ (Seeking \/ Steady)
  BY DEF SeekInvFrom
<1>3. \A f \in ring' : f \in ring \/ (stream.pc = "queue" /\ f = stream.frame)
  <2>1. CASE SendFrame \/ Tick
    BY <2>1 DEF SendFrame, Tick
  <2>2. CASE ReadPacket \/ CheckLower \/ DisarmLower \/ CheckUpper \/ DisarmUpper \/ Recheck
    BY <2>2 DEF ReadPacket, CheckLower, DisarmLower, CheckUpper, DisarmUpper, Recheck
  <2>3. CASE QueueFrame
    BY <2>3 DEF QueueFrame
  <2> QED
    BY <2>1, <2>2, <2>3 DEF StreamTask
<1>4. \A f \in Arriving' :
        f \in Arriving \/ (Recheck /\ f = stream.frame /\ ~BelowLower /\ ~AboveUpper)
  <2>1. CASE SendFrame \/ Tick
    BY <2>1 DEF SendFrame, Tick, Arriving
  <2>2. CASE ReadPacket \/ CheckLower \/ DisarmLower \/ CheckUpper \/ DisarmUpper
    BY <2>2 DEF ReadPacket, CheckLower, DisarmLower, CheckUpper, DisarmUpper, StreamAt, Arriving
  <2>3. CASE Recheck
    BY <2>3 DEF Recheck, StreamAt, Arriving
  <2>4. CASE QueueFrame
    BY <2>4 DEF QueueFrame, StreamAt, Arriving
  <2> QED
    BY <2>1, <2>2, <2>3, <2>4 DEF StreamTask
<1>5. \A f \in ring' : f \in ring \/ FromTrack(f, p)
  BY <1>2, <1>3 DEF FramesInv
<1>6. ASSUME Recheck, ~BelowLower, ~AboveUpper
      PROVE  /\ stream.frame.seg < sender.seg =>
                  Seeking /\ task.pc \notin {"open", "check", "set"} /\ stream.frame.seg + 1 = sender.seg
             /\ FromTrack(stream.frame, p)
  <2>1. stream.pc = "decode"
    BY <1>6 DEF Recheck
  <2>2. FromTrack(stream.frame, p)
    BY <1>2, <2>1 DEF FramesInv
  <2>3. ASSUME stream.frame.seg < sender.seg
        PROVE  ~LowerArmed \/ ~UpperArmed
    BY <1>2, <1>6, <2>1, <2>3, OldIsRefused DEF IsOld
  <2>4. stream.frame.seg < sender.seg => stream.frame.seg + 1 = sender.seg
    BY <2>2, Typed DEF FromTrack
  <2> QED
    BY <2>2, <2>3, <2>4 DEF LowerArmed, UpperArmed
<1>7. sender.seg \in Nat /\ anchor.seg \in Nat /\ stream.frame.seg \in Nat
  BY Typed
<1>8. ASSUME anchor.valid, ~masked, Seeking => task.pc = "idle"
      PROVE  AtMostOne(anchor.seg)'
  <2>1. AtMostOne(anchor.seg)
    BY <1>2, <1>8 DEF RingInv
  <2>2. Recheck /\ ~BelowLower /\ ~AboveUpper => ~(stream.frame.seg < anchor.seg)
    <3>1. Seeking => sender.seg = anchor.seg + 1
      BY <1>2, <1>8 DEF PositionInv
    <3>2. ~Seeking => sender.seg = anchor.seg
      BY <1>2 DEF Steady
    <3>3. Recheck /\ ~BelowLower /\ ~AboveUpper =>
            stream.frame.seg = sender.seg \/ (Seeking /\ stream.frame.seg + 1 = sender.seg)
      <4>1. FromTrack(stream.frame, p) => stream.frame.seg = sender.seg \/ stream.frame.seg < sender.seg
        BY <1>7 DEF FromTrack
      <4> QED
        BY <1>6, <4>1
    <3> QED
      BY <1>7, <3>1, <3>2, <3>3
  <2>3. \A f \in Arriving' : f.seg < anchor.seg => f \in Arriving
    BY <1>4, <2>2
  <2> QED
    BY <1>1, <2>1, <2>3, StillAtMostOne DEF AtMostOne
<1>9. ASSUME Seeking, task.pc = "set", ~masked
      PROVE  AtMostOne(sender.seg)'
  <2>1. AtMostOne(sender.seg)
    BY <1>2, <1>9 DEF RingInv
  <2>2. Recheck /\ ~BelowLower /\ ~AboveUpper => ~(stream.frame.seg < sender.seg)
    BY <1>6, <1>9
  <2>3. \A f \in Arriving' : f.seg < sender.seg => f \in Arriving
    BY <1>4, <2>2
  <2> QED
    BY <1>1, <2>1, <2>3, StillAtMostOne DEF AtMostOne
<1> QED
  BY <1>1, <1>2, <1>5, <1>8, <1>9 DEF RingInv

(* So they keep the invariant.                                             *)
LEMMA StreamKeeps ==
  ASSUME TypeOK, NEW p \in Starts, SeekInvFrom(p), SendFrame \/ Tick \/ StreamTask
  PROVE  SeekInvFrom(p)'
<1>1. (Seeking \/ Steady)' /\ PositionInv(p)'
  BY ControlKept, SameControl DEF SeekInvFrom
<1>2. FramesInv(p)' /\ GatesInv(p)' /\ RingInv(p)'
  BY StreamFrames, StreamGates, StreamRing DEF SeekInvFrom
<1> QED
  BY <1>1, <1>2 DEF SeekInvFrom

(* A position of fewer pauses is one of more, and a track starts at one.   *)
LEMMA Positions ==
  ASSUME NEW n \in 0 .. MaxPauses, NEW s \in AllTimestamps
  PROVE  /\ AtPosition(s, s, n)
         /\ \A r : n > 0 /\ AtPosition(r, s, n - 1) => AtPosition(r, s, n)
         /\ \A r, k : n > 0 /\ AtPosition(r, s, n - 1) /\ k \in 0 .. MaxElapsed =>
              AtPosition(TsAdd(r, k), s, n)
<1>1. n \in Nat /\ MaxElapsed \in Nat /\ n * MaxElapsed \in Nat
  BY Sizes, Reaches
<1>2. n > 0 => n - 1 \in 0 .. MaxPauses /\ (n - 1) * MaxElapsed \in Nat
               /\ n * MaxElapsed = (n - 1) * MaxElapsed + MaxElapsed
  <2> SUFFICES ASSUME n > 0
               PROVE  n - 1 \in 0 .. MaxPauses /\ (n - 1) * MaxElapsed \in Nat
                      /\ n * MaxElapsed = (n - 1) * MaxElapsed + MaxElapsed
    OBVIOUS
  <2>1. n - 1 \in 0 .. MaxPauses /\ n - 1 \in Nat
    BY <1>1, Sizes
  <2>2. n * MaxElapsed = (n - 1) * MaxElapsed + MaxElapsed
    BY <1>1, <2>1
  <2> QED
    BY <2>1, <2>2, Reaches
<1>3. AtPosition(s, s, n)
  <2>1. s = TsAdd(s, 0)
    BY Sizes, AddCases DEF AllTimestamps
  <2>2. 0 \in 0 .. n * MaxElapsed
    BY <1>1
  <2> QED
    BY <2>1, <2>2 DEF AtPosition
<1>4. ASSUME NEW r, NEW k \in 0 .. MaxElapsed, n > 0, AtPosition(r, s, n - 1)
      PROVE  AtPosition(r, s, n) /\ AtPosition(TsAdd(r, k), s, n)
  <2>1. PICK j \in 0 .. (n - 1) * MaxElapsed : r = TsAdd(s, j)
    BY <1>4 DEF AtPosition
  <2>2. /\ j \in Nat /\ k \in Nat
        /\ j \in 0 .. n * MaxElapsed /\ j + k \in 0 .. n * MaxElapsed
    BY <1>1, <1>2, <1>4, <2>1
  <2>3. TsAdd(r, k) = TsAdd(s, j + k)
    BY <2>1, <2>2, AddAdd
  <2> QED
    BY <2>1, <2>2, <2>3 DEF AtPosition
<1>5. 0 \in 0 .. MaxElapsed
  BY <1>1
<1> QED
  BY <1>3, <1>4, <1>5

(* The first anchor is under way.                                          *)
LEMMA SeekInit == Init => SeekInv
<1> SUFFICES ASSUME Init PROVE SeekInvFrom(First)
  BY Sizes DEF SeekInv
<1>1. /\ sender.seg = 0 /\ sender.start = First /\ backlog = <<>> /\ ring = {}
      /\ rtsp = <<Request("anchor", First, 0)>> /\ task.pc = "idle" /\ stream.pc = "read"
      /\ anchor.valid = FALSE /\ pauses = 0
      /\ gates.arm = FALSE /\ gates.beforeOn = FALSE /\ gates.aboveOn = FALSE
  BY DEF Init, OpenGates
<1>2. Seeking /\ ~Steady
  BY <1>1 DEF Seeking, Steady, NewAnchor
<1>3. FramesInv(First)
  BY <1>1 DEF FramesInv
<1>4. PositionInv(First)
  BY <1>1, <1>2 DEF PositionInv, AnchorSteps
<1>5. GatesInv(First)
  BY <1>1 DEF GatesInv
<1>6. RingInv(First)
  BY <1>1 DEF RingInv
<1> QED
  BY <1>2, <1>3, <1>4, <1>5, <1>6 DEF SeekInvFrom

(* A seek that waits for the last one to settle starts from nothing old in *)
(* flight and no gate on; the track before it becomes the old one.         *)
LEMMA SeekKeeps ==
  ASSUME TypeOK, NEW p \in Starts, SeekInvFrom(p), Patient, Seek,
         NEW q \in Starts, q = sender.start
  PROVE  SeekInvFrom(q)'
<1>1. PICK s \in Starts \ {q}, flush \in {<<>>, <<Request("flush", 0, sender.seg + 1)>>} :
        /\ sender' = [seg |-> sender.seg + 1, start |-> s, sent |-> 0]
        /\ rtsp' = rtsp \o flush \o <<Request("anchor", s, sender.seg + 1)>>
  BY DEF Seek
<1>2. UNCHANGED <<pauses, backlog, ring, gates, anchor, playing, stream, task, masked>>
  BY DEF Seek
<1>3. /\ rtsp = <<>> /\ task.pc = "idle" /\ ~gates.beforeOn /\ ~gates.aboveOn
      /\ \A f \in InFlight : f.seg = sender.seg
  BY DEF Seek, Settled
<1>4. FramesInv(p) /\ PositionInv(p) /\ GatesInv(p) /\ RingInv(p) /\ (Seeking \/ Steady)
  BY DEF SeekInvFrom
<1>5. ~Seeking /\ Steady
  BY <1>3, <1>4 DEF Seeking, AnchorSteps
<1>6. anchor.valid /\ anchor.seg = sender.seg /\ ~PauseAsked
  BY <1>3, <1>5 DEF Steady, PauseAsked
<1>7. /\ sender.seg \in Nat /\ q \in AllTimestamps /\ pauses \in 0 .. MaxPauses
      /\ sender'.seg = sender.seg + 1 /\ sender'.start = s /\ s # q
  BY <1>1, Typed
<1>8. rtsp' = <<NewAnchor'>> \/ rtsp' = <<NewFlush', NewAnchor'>>
  <2>1. NewAnchor' = Request("anchor", s, sender.seg + 1)
    BY <1>7 DEF NewAnchor, Request
  <2>2. NewFlush' = Request("flush", 0, sender.seg + 1)
    BY <1>7 DEF NewFlush, Request
  <2>3. <<>> \o <<>> \o <<NewAnchor'>> = <<NewAnchor'>>
    OBVIOUS
  <2>4. <<>> \o <<NewFlush'>> \o <<NewAnchor'>> = <<NewFlush', NewAnchor'>>
    <3> DEFINE F == NewFlush'
               A == NewAnchor'
    <3> HIDE DEF F, A
    <3>1. <<>> \o <<F>> = <<F>>
      OBVIOUS
    <3>2. <<F>> \o <<A>> = <<F, A>>
      <4>1. <<F>> \in Seq({F, A}) /\ <<A>> \in Seq({F, A}) /\ <<F, A>> \in Seq({F, A})
        OBVIOUS
      <4> DEFINE c == <<F>> \o <<A>>
      <4>2. c \in Seq({F, A}) /\ Len(c) = 2 /\ c[1] = F /\ c[2] = A
        BY <4>1, ConcatProperties
      <4> HIDE DEF c
      <4>3. Len(c) = Len(<<F, A>>) /\ \A i \in 1 .. Len(c) : c[i] = <<F, A>>[i]
        BY <4>2
      <4> QED
        BY <4>1, <4>2, <4>3, SeqEqual DEF c
    <3> QED
      BY <3>1, <3>2 DEF F, A
  <2> QED
    BY <1>1, <1>3, <2>1, <2>2, <2>3, <2>4
<1>9. Seeking'
  BY <1>2, <1>3, <1>7, <1>8 DEF Seeking
<1>10. ~Steady'
  BY <1>2, <1>6, <1>7 DEF Steady
<1>11. FramesInv(q)'
  <2>1. ASSUME NEW f, FromTrack(f, p), f.seg = sender.seg
        PROVE  FromTrack(f, q)'
    <3>1. InTrack(f.ts, q)
      BY <1>7, <2>1 DEF FromTrack
    <3> QED
      BY <1>7, <2>1, <3>1 DEF FromTrack
  <2>2. \A i \in 1 .. Len(backlog) : FromTrack(backlog[i], p) /\ backlog[i].seg = sender.seg
    <3>1. \A i \in 1 .. Len(backlog) : backlog[i] \in InFlight
      BY Typed DEF InFlight
    <3> QED
      BY <1>3, <1>4, <3>1 DEF FramesInv
  <2>3. stream.pc # "read" => FromTrack(stream.frame, p) /\ stream.frame.seg = sender.seg
    BY <1>3, <1>4 DEF FramesInv, InFlight
  <2> QED
    BY <1>2, <1>4, <1>7, <2>1, <2>2, <2>3 DEF FramesInv
<1>12. PositionInv(q)'
  <2>1. AtPosition(anchor.rtp, q, pauses)
    BY <1>4, <1>5, <1>6, <1>7, Positions DEF PositionInv
  <2>2. ~gates.arm
    BY <1>4, <1>6 DEF PositionInv
  <2> QED
    BY <1>2, <1>3, <1>6, <1>7, <1>10, <2>1, <2>2 DEF PositionInv, AnchorSteps
<1>13. GatesInv(q)'
  <2>1. ~LowerArmed' /\ ~UpperArmed'
    BY <1>2, <1>3, <1>9 DEF LowerArmed, UpperArmed
  <2>2. stream.pc \notin {"passLower", "passUpper"}
    BY <1>3, <1>4 DEF GatesInv
  <2> QED
    BY <1>2, <1>3, <2>1, <2>2 DEF GatesInv
<1>14. RingInv(q)'
  <2>1. ~masked => AtMostOne(anchor.seg)
    BY <1>4, <1>5, <1>6 DEF RingInv
  <2>2. ~masked => AtMostOne(anchor.seg)'
    BY <1>2, <2>1 DEF AtMostOne, Arriving
  <2> QED
    BY <1>2, <1>3, <1>6, <1>9, <2>2 DEF RingInv
<1> QED
  BY <1>9, <1>11, <1>12, <1>13, <1>14 DEF SeekInvFrom

(* The pause and the resume it allows move playback on in the track.       *)
LEMMA PauseKeeps ==
  ASSUME TypeOK, NEW p \in Starts, SeekInvFrom(p), Pause \/ Resume
  PROVE  SeekInvFrom(p)'
<1>1. UNCHANGED <<sender, backlog, ring, gates, anchor, playing, stream, task, masked>>
  BY DEF Pause, Resume
<1>2. rtsp = <<>> /\ task.pc = "idle"
  BY DEF Pause, Resume
<1>3. FramesInv(p) /\ PositionInv(p) /\ GatesInv(p) /\ RingInv(p) /\ (Seeking \/ Steady)
  BY DEF SeekInvFrom
<1>4. ~Seeking /\ Steady
  BY <1>2, <1>3 DEF Seeking, AnchorSteps
<1>5. anchor.valid /\ anchor.seg = sender.seg /\ ~PauseAsked
  BY <1>2, <1>4 DEF Steady, PauseAsked
<1>6. /\ sender.seg \in Nat /\ sender.start \in AllTimestamps /\ pauses \in 0 .. MaxPauses
      /\ pauses' \in 0 .. MaxPauses /\ played \in 0 .. MaxElapsed
  <2>1. pauses \in 0 .. MaxPauses /\ elapsed \in 0 .. MaxElapsed /\ played \in 0 .. elapsed
    BY DEF TypeOK
  <2>2. pauses' \in 0 .. MaxPauses
    BY <2>1, Sizes DEF Pause, Resume
  <2> QED
    BY <2>1, <2>2, Typed, Sizes
<1>7. \/ Pause /\ playing /\ pauses' = pauses + 1 /\ rtsp' = <<Request("pause", 0, sender.seg)>>
      \/ Resume /\ ~playing /\ pauses' = pauses
         /\ rtsp' = <<Request("resume", TsAdd(anchor.rtp, played), sender.seg)>>
  BY DEF Pause, Resume
<1>8. rtsp' # <<>> /\ Head(rtsp').op \in {"pause", "resume"} /\ (Head(rtsp').op = "pause" <=> playing)
      /\ rtsp' = <<Head(rtsp')>>
  BY <1>7 DEF Request
<1>9. ~Seeking'
  <2>1. NewAnchor'.op = "anchor" /\ NewFlush'.op = "flush"
    BY DEF NewAnchor, NewFlush, Request
  <2>2. rtsp' # <<NewAnchor'>> /\ rtsp' # <<NewFlush', NewAnchor'>>
    BY <1>8, <2>1
  <2> QED
    BY <1>1, <1>2, <2>2 DEF Seeking, AnchorSteps
<1>10. AtPosition(anchor.rtp, sender.start, IF playing THEN pauses ELSE pauses - 1)
       /\ (~playing => pauses > 0)
  BY <1>3, <1>4, <1>5 DEF PositionInv
<1>11. Steady'
  <2>1. CASE playing
    <3>1. rtsp' = <<Request("pause", 0, sender.seg)>>
      BY <1>7, <2>1
    <3> QED
      BY <1>1, <1>2, <1>5, <3>1 DEF Steady
  <2>2. CASE ~playing
    <3>1. AtPosition(TsAdd(anchor.rtp, played), sender.start, pauses)
      BY <1>6, <1>10, <2>2, Positions
    <3>2. IsResume(Head(rtsp))'
      BY <1>1, <1>7, <2>2, <3>1 DEF IsResume, Request
    <3> QED
      BY <1>1, <1>2, <1>5, <1>8, <2>2, <3>2 DEF Steady
  <2> QED
    BY <2>1, <2>2
<1>12. PositionInv(p)'
  <2>1. ~gates.arm
    BY <1>3, <1>5 DEF PositionInv
  <2>2. PauseAsked' <=> playing
    BY <1>8 DEF PauseAsked
  <2>3. pauses' > 0 /\ AtPosition(anchor.rtp, sender.start, pauses' - 1)
    BY <1>6, <1>7, <1>10
  <2> QED
    BY <1>1, <1>9, <2>1, <2>2, <2>3 DEF PositionInv
<1>13. FramesInv(p)'
  BY <1>1, <1>3 DEF FramesInv, FromTrack
<1>14. GatesInv(p)'
  <2>1. \A r : AtPosition(r, sender.start, pauses) => AtPosition(r, sender.start, pauses')
    BY <1>6, <1>7, Positions
  <2>2. LowerArmed /\ UpperArmed /\ LowerArmed' /\ UpperArmed'
    BY <1>4, <1>9 DEF LowerArmed, UpperArmed
  <2>3. OldAhead' <=> OldAhead
    BY <1>1 DEF OldAhead, IsOld
  <2> QED
    BY <1>1, <1>3, <2>1, <2>2, <2>3 DEF GatesInv, IsOld
<1>15. RingInv(p)'
  BY <1>1, <1>3, <1>4, <1>9 DEF RingInv, AtMostOne, Arriving, FromTrack
<1> QED
  BY <1>11, <1>12, <1>13, <1>14, <1>15 DEF SeekInvFrom

(* The RTSP task touches no frame on its way ...                           *)
LEMMA TaskFrames ==
  ASSUME NEW p, FramesInv(p), UNCHANGED <<sender, backlog, stream>>
  PROVE  /\ FramesInv(p)'
         /\ OldAhead' <=> OldAhead
         /\ \A f : (FromTrack(f, p)' <=> FromTrack(f, p)) /\ (IsOld(f)' <=> IsOld(f))
<1>1. \A f : (FromTrack(f, p)' <=> FromTrack(f, p)) /\ (IsOld(f)' <=> IsOld(f))
  BY DEF FromTrack, IsOld
<1>2. OldAhead' <=> OldAhead
  BY <1>1 DEF OldAhead
<1> QED
  BY <1>1, <1>2 DEF FramesInv

(* ... and where it leaves the window gates, they are as they should be.   *)
LEMMA TaskGates ==
  ASSUME NEW p, FramesInv(p), GatesInv(p), UNCHANGED <<sender, backlog, stream, pauses>>,
         gates'.beforeOn = gates.beforeOn, gates'.aboveOn = gates.aboveOn,
         gates'.before = gates.before, gates'.above = gates.above,
         LowerArmed' <=> LowerArmed, UpperArmed' <=> UpperArmed
  PROVE  GatesInv(p)'
<1>1. (OldAhead' <=> OldAhead) /\ (IsOld(stream.frame)' <=> IsOld(stream.frame))
  BY TaskFrames
<1> QED
  BY <1>1 DEF GatesInv

(* Taking a pause.                                                         *)
LEMMA PauseStreamKeeps ==
  ASSUME TypeOK, NEW p \in Starts, SeekInvFrom(p), PauseStream
  PROVE  SeekInvFrom(p)'
<1>1. /\ UNCHANGED <<sender, pauses, backlog, ring, gates, anchor, stream, masked>>
      /\ task.pc = "idle" /\ rtsp # <<>> /\ Head(rtsp).op = "pause"
      /\ task'.pc = "idle" /\ rtsp' = Tail(rtsp) /\ playing' = FALSE
  BY DEF PauseStream, Receive
<1>2. FramesInv(p) /\ PositionInv(p) /\ GatesInv(p) /\ RingInv(p) /\ (Seeking \/ Steady)
  BY DEF SeekInvFrom
<1>3. ~Seeking /\ Steady
  <2>1. NewAnchor.op = "anchor" /\ NewFlush.op = "flush"
    BY DEF NewAnchor, NewFlush, Request
  <2>2. rtsp # <<NewAnchor>> /\ rtsp # <<NewFlush, NewAnchor>>
    BY <1>1, <2>1
  <2> QED
    BY <1>1, <1>2, <2>2 DEF Seeking, AnchorSteps
<1>4. rtsp' = <<>>
  <2>1. \A r : Tail(<<r>>) = <<>>
    OBVIOUS
  <2>2. rtsp = <<Request("pause", 0, sender.seg)>> \/ rtsp = <<Head(rtsp)>>
    BY <1>1, <1>3 DEF Steady, AnchorSteps
  <2> QED
    BY <1>1, <2>1, <2>2
<1>5. Steady' /\ ~Seeking'
  <2>1. anchor.valid /\ anchor.seg = sender.seg
    BY <1>3 DEF Steady
  <2>2. Steady'
    BY <1>1, <1>4, <2>1 DEF Steady
  <2>3. \A r, q : <<>> # <<r>> /\ <<>> # <<r, q>>
    OBVIOUS
  <2>4. ~Seeking'
    BY <1>1, <1>4, <2>3 DEF Seeking, AnchorSteps
  <2> QED
    BY <2>2, <2>4
<1>6. PositionInv(p)'
  <2>1. PauseAsked
    BY <1>1 DEF PauseAsked
  <2>2. pauses > 0 /\ AtPosition(anchor.rtp, sender.start, pauses - 1) /\ ~gates.arm
    BY <1>2, <1>3, <2>1 DEF PositionInv, Steady
  <2> QED
    BY <1>1, <1>5, <2>2 DEF PositionInv
<1>7. FramesInv(p)' /\ \A f : FromTrack(f, p)' <=> FromTrack(f, p)
  BY <1>1, <1>2, TaskFrames
<1>8. GatesInv(p)'
  BY <1>1, <1>2, <1>3, <1>5, TaskGates DEF LowerArmed, UpperArmed
<1>9. RingInv(p)'
  BY <1>1, <1>2, <1>3, <1>5, <1>7 DEF RingInv, AtMostOne, Arriving
<1> QED
  BY <1>5, <1>6, <1>7, <1>8, <1>9 DEF SeekInvFrom

(* Taking a flush: the timing is reset first, so that the anchor of the    *)
(* old track does not outlive its frames ...                               *)
LEMMA FlushBufferedKeeps ==
  ASSUME TypeOK, NEW p \in Starts, SeekInvFrom(p), FlushBuffered
  PROVE  SeekInvFrom(p)'
<1>1. /\ UNCHANGED <<sender, pauses, backlog, gates, playing, stream, masked>>
      /\ task.pc = "idle" /\ rtsp # <<>> /\ Head(rtsp).op = "flush"
      /\ task'.pc = "disarm" /\ rtsp' = Tail(rtsp) /\ ring' = {}
  BY DEF FlushBuffered, Receive
<1>2. FramesInv(p) /\ PositionInv(p) /\ GatesInv(p) /\ RingInv(p) /\ (Seeking \/ Steady)
  BY DEF SeekInvFrom
<1>3. ~anchor'.valid
  BY DEF FlushBuffered, TypeOK
<1>4. Seeking /\ rtsp = <<NewFlush, NewAnchor>> /\ sender.seg > 0
  <2>1. NewAnchor.op = "anchor" /\ Request("pause", 0, sender.seg).op = "pause"
    BY DEF NewAnchor, Request
  <2>2. rtsp # <<NewAnchor>> /\ rtsp # <<Request("pause", 0, sender.seg)>> /\ ~IsResume(Head(rtsp))
    BY <1>1, <2>1 DEF IsResume
  <2> QED
    BY <1>1, <1>2, <2>2 DEF Seeking, Steady, AnchorSteps
<1>5. rtsp' = <<NewAnchor>>
  <2>1. \A r, q : Tail(<<r, q>>) = <<q>>
    OBVIOUS
  <2> QED
    BY <1>1, <1>4, <2>1
<1>6. NewAnchor' = NewAnchor
  BY <1>1 DEF NewAnchor
<1>7. Seeking' /\ ~Steady'
  BY <1>1, <1>3, <1>4, <1>5, <1>6 DEF Seeking, Steady
<1>8. PositionInv(p)'
  BY <1>1, <1>3, <1>7 DEF PositionInv, AnchorSteps
<1>9. FramesInv(p)'
  BY <1>1, <1>2, TaskFrames
<1>10. GatesInv(p)'
  BY <1>1, <1>2, <1>4, <1>7, TaskGates DEF LowerArmed, UpperArmed
<1>11. RingInv(p)'
  BY <1>1, <1>3 DEF RingInv
<1> QED
  BY <1>7, <1>8, <1>9, <1>10, <1>11 DEF SeekInvFrom

(* ... then the gates are, and the blanket gate closes.                    *)
LEMMA FlushStepsKeep ==
  ASSUME TypeOK, NEW p \in Starts, SeekInvFrom(p), DisarmGates \/ CloseGate
  PROVE  SeekInvFrom(p)'
<1>1. /\ UNCHANGED <<sender, pauses, backlog, rtsp, ring, anchor, playing, stream, masked>>
      /\ task.pc \in {"disarm", "close"} /\ task'.pc \in {"close", "idle"}
  BY DEF DisarmGates, CloseGate, TaskAt, TypeOK
<1>2. FramesInv(p) /\ PositionInv(p) /\ GatesInv(p) /\ RingInv(p) /\ (Seeking \/ Steady)
  BY DEF SeekInvFrom
<1>3. Seeking /\ ~Steady /\ rtsp = <<NewAnchor>> /\ sender.seg > 0 /\ ~anchor.valid
  BY <1>1, <1>2 DEF Seeking, Steady, AnchorSteps
<1>4. NewAnchor' = NewAnchor
  BY <1>1 DEF NewAnchor
<1>5. Seeking' /\ ~Steady'
  BY <1>1, <1>3, <1>4 DEF Seeking, Steady
<1>6. ~LowerArmed /\ ~UpperArmed /\ ~LowerArmed' /\ ~UpperArmed'
  BY <1>1, <1>3, <1>5 DEF LowerArmed, UpperArmed
<1>7. PositionInv(p)'
  <2>1. task'.pc = "idle" => gates'.arm
    BY DEF DisarmGates, CloseGate, TaskAt, TypeOK
  <2> QED
    BY <1>1, <1>3, <1>5, <2>1 DEF PositionInv, AnchorSteps
<1>8. FramesInv(p)' /\ \A f : FromTrack(f, p)' <=> FromTrack(f, p)
  BY <1>1, <1>2, TaskFrames
<1>9. GatesInv(p)'
  <2>1. CASE CloseGate
    <3>1. /\ gates'.beforeOn = gates.beforeOn /\ gates'.aboveOn = gates.aboveOn
          /\ gates'.before = gates.before /\ gates'.above = gates.above
      BY <2>1 DEF CloseGate, TypeOK
    <3> QED
      BY <1>1, <1>2, <1>6, <3>1, TaskGates
  <2>2. CASE DisarmGates
    <3>1. ~gates'.beforeOn /\ ~gates'.aboveOn
      BY <2>2 DEF DisarmGates, OpenGates
    <3>2. stream.pc \notin {"passLower", "passUpper"}
      BY <1>2, <1>3, <1>6 DEF GatesInv
    <3> QED
      BY <1>1, <1>6, <3>1, <3>2 DEF GatesInv
  <2> QED
    BY <2>1, <2>2
<1>10. RingInv(p)'
  BY <1>1, <1>2, <1>3, <1>8 DEF RingInv
<1> QED
  BY <1>5, <1>7, <1>8, <1>9, <1>10 DEF SeekInvFrom

(* Taking an anchor, of a seek or of a resume.                             *)
LEMMA BeginAnchorKeeps ==
  ASSUME TypeOK, NEW p \in Starts, SeekInvFrom(p), BeginAnchor
  PROVE  SeekInvFrom(p)'
<1>1. /\ UNCHANGED <<sender, pauses, backlog, ring, gates, anchor, playing, stream, masked>>
      /\ task.pc = "idle" /\ rtsp # <<>> /\ Head(rtsp).op \in {"anchor", "resume"}
      /\ task'.pc = "anchor" /\ task'.req = Head(rtsp) /\ rtsp' = Tail(rtsp)
  BY DEF BeginAnchor, Receive
<1>2. FramesInv(p) /\ PositionInv(p) /\ GatesInv(p) /\ RingInv(p) /\ (Seeking \/ Steady)
  BY DEF SeekInvFrom
<1>3. \A r, q : Tail(<<r>>) = <<>> /\ Head(<<r>>) = r /\ Head(<<r, q>>) = r
  OBVIOUS
<1>4. /\ NewAnchor.op = "anchor" /\ NewFlush.op = "flush"
      /\ Request("pause", 0, sender.seg).op = "pause" /\ NewAnchor' = NewAnchor
      /\ \A r : IsResume(r) => r.op = "resume"
  BY <1>1 DEF NewAnchor, NewFlush, Request, IsResume
<1>5. FramesInv(p)' /\ \A f : FromTrack(f, p)' <=> FromTrack(f, p)
  BY <1>1, <1>2, TaskFrames
<1>6. CASE Seeking
  <2>1. ~Steady
    BY <1>6, OneMode
  <2>2. rtsp = <<NewAnchor>>
    <3>1. rtsp # <<NewFlush, NewAnchor>>
      BY <1>1, <1>3, <1>4
    <3> QED
      BY <1>1, <1>6, <3>1 DEF Seeking, AnchorSteps
  <2>3. rtsp' = <<>> /\ task'.req = NewAnchor
    BY <1>1, <1>3, <2>2
  <2>4. Seeking'
    BY <1>1, <1>4, <2>3 DEF Seeking, AnchorSteps
  <2>5. ~Steady'
    <3>1. ~IsResume(task.req)'
      BY <1>4, <2>3 DEF IsResume
    <3> QED
      BY <1>1, <3>1 DEF Steady
  <2>6. PositionInv(p)'
    <3>1. anchor.valid => sender.seg = anchor.seg + 1 /\ AtPosition(anchor.rtp, p, pauses)
      BY <1>2, <1>6 DEF PositionInv
    <3>2. gates.arm => ~anchor.valid
      BY <1>2 DEF PositionInv
    <3>3. sender.seg > 0 => gates.arm \/ anchor.valid
      BY <1>1, <1>2, <1>6, <2>2 DEF PositionInv
    <3> QED
      BY <1>1, <2>5, <3>1, <3>2, <3>3 DEF PositionInv, AnchorSteps
  <2>7. GatesInv(p)'
    <3>1. ~LowerArmed /\ ~UpperArmed /\ ~LowerArmed' /\ ~UpperArmed'
      BY <1>1, <1>6, <2>4 DEF LowerArmed, UpperArmed
    <3> QED
      BY <1>1, <1>2, <3>1, TaskGates
  <2>8. RingInv(p)'
    BY <1>1, <1>2, <1>5, <1>6, <2>4 DEF RingInv
  <2> QED
    BY <1>5, <2>4, <2>6, <2>7, <2>8 DEF SeekInvFrom
<1>7. CASE ~Seeking
  <2>1. anchor.valid /\ anchor.seg = sender.seg
    BY <1>2, <1>7 DEF Steady
  <2>2. rtsp = <<Head(rtsp)>> /\ IsResume(Head(rtsp)) /\ ~playing
    <3>1. rtsp # <<Request("pause", 0, sender.seg)>>
      BY <1>1, <1>3, <1>4
    <3> QED
      BY <1>1, <1>2, <1>7, <3>1 DEF Steady, AnchorSteps
  <2>3. rtsp' = <<>> /\ IsResume(task'.req)
    BY <1>1, <1>3, <2>2
  <2>4. IsResume(task.req)'
    BY <1>1, <2>3 DEF IsResume
  <2>5. Steady'
    BY <1>1, <2>1, <2>2, <2>3, <2>4 DEF Steady, AnchorSteps
  <2>6. ~Seeking'
    <3>1. task'.req # NewAnchor'
      BY <1>4, <2>3
    <3> QED
      BY <1>1, <3>1 DEF Seeking
  <2>7. PositionInv(p)'
    <3>1. pauses > 0 /\ AtPosition(anchor.rtp, sender.start, pauses - 1)
      BY <1>2, <1>7, <2>2 DEF PositionInv
    <3>2. ~gates.arm
      BY <1>2, <2>1 DEF PositionInv
    <3> QED
      BY <1>1, <2>2, <2>6, <3>1, <3>2 DEF PositionInv
  <2>8. GatesInv(p)'
    BY <1>1, <1>2, <1>7, <2>6, TaskGates DEF LowerArmed, UpperArmed
  <2>9. RingInv(p)'
    BY <1>1, <1>2, <1>5, <1>7, <2>6 DEF RingInv, AtMostOne, Arriving
  <2> QED
    BY <1>5, <2>5, <2>7, <2>8, <2>9 DEF SeekInvFrom
<1> QED
  BY <1>6, <1>7

(* The timestamp of a request that sets an anchor is one the track plays.  *)
LEMMA AnchorPosition ==
  ASSUME TypeOK, NEW p \in Starts, SeekInvFrom(p), task.pc \in AnchorSteps
  PROVE  /\ AtPosition(task.req.rtp, sender.start, pauses) /\ task.req.seg = sender.seg
         /\ task.req.rtp \in AllTimestamps /\ rtsp = <<>>
         /\ Seeking => task.req = NewAnchor
         /\ ~Seeking => IsResume(task.req) /\ ~playing /\ anchor.valid /\ anchor.seg = sender.seg
<1>1. task.pc \notin {"idle", "disarm", "close"} /\ task.req.rtp \in AllTimestamps
  BY DEF AnchorSteps, TypeOK
<1>2. CASE Seeking
  <2>1. task.req = NewAnchor /\ rtsp = <<>>
    BY <1>1, <1>2 DEF Seeking
  <2>2. task.req.rtp = sender.start /\ task.req.seg = sender.seg
    BY <2>1 DEF NewAnchor, Request
  <2>3. AtPosition(sender.start, sender.start, pauses)
    BY Typed, Positions
  <2> QED
    BY <1>1, <1>2, <2>1, <2>2, <2>3
<1>3. CASE ~Seeking
  <2>1. IsResume(task.req) /\ ~playing /\ anchor.valid /\ anchor.seg = sender.seg /\ rtsp = <<>>
    BY <1>1, <1>3 DEF SeekInvFrom, Steady
  <2> QED
    BY <1>1, <1>3, <2>1 DEF IsResume
<1> QED
  BY <1>2, <1>3

(* The new anchor: the track is the one that plays.                        *)
LEMMA SetAnchorKeeps ==
  ASSUME TypeOK, NEW p \in Starts, SeekInvFrom(p), SetAnchor
  PROVE  SeekInvFrom(p)'
<1>1. /\ UNCHANGED <<sender, pauses, backlog, rtsp, ring, gates, stream, masked>>
      /\ task.pc = "set" /\ task.pc \in AnchorSteps \ {"anchor"}
      /\ task'.pc = "idle" /\ playing' = TRUE
      /\ anchor' = [valid |-> TRUE, rtp |-> task.req.rtp, seg |-> task.req.seg]
  BY DEF SetAnchor, AnchorSteps
<1>2. FramesInv(p) /\ PositionInv(p) /\ GatesInv(p) /\ RingInv(p) /\ (Seeking \/ Steady)
  BY DEF SeekInvFrom
<1>3. /\ AtPosition(task.req.rtp, sender.start, pauses) /\ task.req.seg = sender.seg
      /\ rtsp = <<>> /\ (~Seeking => anchor.valid /\ anchor.seg = sender.seg)
  BY <1>1, AnchorPosition
<1>4. anchor'.valid /\ anchor'.rtp = task.req.rtp /\ anchor'.seg = sender.seg
  BY <1>1, <1>3
<1>5. Steady'
  BY <1>1, <1>3, <1>4 DEF Steady
<1>6. ~Seeking'
  <2>1. \A r, q : <<>> # <<r>> /\ <<>> # <<r, q>>
    OBVIOUS
  <2> QED
    BY <1>1, <1>3, <2>1 DEF Seeking, AnchorSteps
<1>7. PositionInv(p)'
  <2>1. ~gates.arm
    BY <1>1, <1>2 DEF PositionInv
  <2>2. ~PauseAsked'
    BY <1>1, <1>3 DEF PauseAsked
  <2> QED
    BY <1>1, <1>3, <1>4, <1>6, <2>1, <2>2 DEF PositionInv
<1>8. FramesInv(p)' /\ \A f : FromTrack(f, p)' <=> FromTrack(f, p)
  BY <1>1, <1>2, TaskFrames
<1>9. GatesInv(p)'
  <2>1. LowerArmed /\ UpperArmed /\ LowerArmed' /\ UpperArmed'
    BY <1>1, <1>6 DEF LowerArmed, UpperArmed
  <2> QED
    BY <1>1, <1>2, <2>1, TaskGates
<1>10. RingInv(p)'
  <2>1. ~masked => AtMostOne(sender.seg)
    BY <1>1, <1>2, <1>3 DEF RingInv
  <2>2. \A f \in ring : FromTrack(f, p)
    BY <1>1, <1>2 DEF RingInv
  <2>3. ~masked => AtMostOne(anchor.seg)'
    BY <1>1, <1>4, <2>1 DEF AtMostOne, Arriving
  <2> QED
    BY <1>1, <1>6, <1>8, <2>2, <2>3 DEF RingInv
<1> QED
  BY <1>5, <1>7, <1>8, <1>9, <1>10 DEF SeekInvFrom

(* An anchor that finds the oldest frame near, and no frame of its own     *)
(* track before older ones, finds no frame of the track before.            *)
LEMMA RingHasNoOld ==
  ASSUME TypeOK, NEW p \in Starts, SeekInvFrom(p), task.pc = "check", ~OldestIsFar, ~Masked
  PROVE  \A f \in ring : ~(f.seg < sender.seg)
<1> DEFINE q == sender.start
           r == task.req.rtp
           S == {f \in ring : f.seg < sender.seg}
<1>1. SUFFICES ASSUME S # {} PROVE FALSE
  OBVIOUS
<1>2. /\ AtPosition(r, q, pauses) /\ task.req.seg = sender.seg /\ q \in Starts /\ q \in AllTimestamps
      /\ pauses \in 0 .. MaxPauses /\ p \in AllTimestamps
  BY AnchorPosition, Typed, Sizes DEF AnchorSteps
<1>3. \A f \in ring : FromTrack(f, p) /\ f.seg \in Nat /\ sender.seg \in Nat
  BY Typed DEF SeekInvFrom, RingInv
<1>4. \A f \in S : f \in ring /\ InTrack(f.ts, p) /\ f.seg < sender.seg
  BY <1>3 DEF FromTrack
<1>5. \A f \in ring : f \in S \/ (InTrack(f.ts, q) /\ f.seg = sender.seg)
  BY <1>3 DEF FromTrack
<1>6. sender.seg > 0
  <2>1. PICK f \in S : TRUE
    BY <1>1
  <2>2. f.seg \in Nat /\ f.seg < sender.seg /\ sender.seg \in Nat
    BY <1>3, <1>4, <2>1
  <2> QED
    BY <2>2
<1>7. Later(q, p) \/ Later(p, q)
  BY <1>2, <1>6, SeekAssumption DEF SeekInvFrom, FramesInv
<1>8. SegmentSize <= TsMod \div 2
  <2>1. /\ Apart \in Nat /\ SegmentSize \in Nat /\ TsMod \div 2 \in Nat
        /\ SegmentSize <= Apart
    <3>1. MaxElapsed \in Nat
      BY Sizes
    <3> QED
      BY Reaches, Sizes, <3>1
  <2>2. TsCmp(p, q) \in Int /\ TsCmp(q, p) \in Int
    BY <1>2, CmpCases
  <2> QED
    BY <1>7, <2>1, <2>2 DEF Later
<1> HIDE DEF S, q, r
<1>9. PICK f \in S : \A g \in S : TsCmp(f.ts, g.ts) <= 0
  BY <1>1, <1>2, <1>4, <1>8, TrackHasOldest
<1>10. f \in ring /\ InTrack(f.ts, p) /\ f.seg < sender.seg
  BY <1>4
<1>11. Far(f.ts, r)
  BY <1>2, <1>7, <1>10, OldIsBehind, OldIsBeyond
<1>12. CASE Later(q, p)
  <2>1. \A g \in ring : g \in S \/ TsCmp(f.ts, g.ts) < 0
    BY <1>2, <1>5, <1>10, <1>12, OldIsBehind
  <2>2. \A g \in ring : TsCmp(f.ts, g.ts) <= 0
    <3>1. \A g \in ring : TsCmp(f.ts, g.ts) \in Int
      <4>1. \A g \in ring : g.ts \in AllTimestamps
        BY DEF TypeOK, Frames
      <4> QED
        BY <1>10, <4>1, CmpCases
    <3> QED
      BY <1>9, <2>1, <3>1
  <2> QED
    BY <1>10, <1>11, <2>2 DEF OldestIsFar, IsOldest, r
<1>13. CASE Later(p, q)
  <2>1. \A g \in ring : g \in S
    <3> SUFFICES ASSUME NEW g \in ring, g \notin S PROVE FALSE
      OBVIOUS
    <3>1. InTrack(g.ts, q) /\ g.seg = sender.seg
      BY <1>5
    <3>2. TsCmp(g.ts, f.ts) < 0
      BY <1>2, <1>10, <1>13, <3>1, OldIsBeyond
    <3> QED
      BY <1>2, <1>10, <3>1, <3>2 DEF Masked
  <2> QED
    BY <1>9, <1>10, <1>11, <2>1 DEF OldestIsFar, IsOldest, r
<1> QED
  BY <1>7, <1>12, <1>13

(* The steps of setting an anchor, but the last. *)
ArmingSteps ==
  ArmOnAnchor \/ FlushOnJump \/ SameTrack \/ ArmLower \/ ArmUpper \/ OpenGate \/ FlushStale \/ KeepRing

(* They work for one request, which asks for gates before it looks at the  *)
(* buffer if it is a seek's: either a flush came before, or the anchor     *)
(* jumps.                                                                  *)
LEMMA ArmingControl ==
  ASSUME TypeOK, NEW p \in Starts, SeekInvFrom(p), ArmingSteps
  PROVE  /\ UNCHANGED <<sender, pauses, backlog, rtsp, anchor, playing, stream>>
         /\ task.pc \in AnchorSteps /\ task'.pc \in AnchorSteps \ {"anchor"}
         /\ Seeking' <=> Seeking
         /\ Steady' <=> Steady
         /\ Seeking /\ sender.seg > 0 => task'.armed
         /\ Seeking /\ sender.seg > 0 => ~SameTrack
         /\ PositionInv(p)'
<1>1. /\ UNCHANGED <<sender, pauses, backlog, rtsp, anchor, playing, stream>>
      /\ task.pc \in AnchorSteps /\ task'.pc \in AnchorSteps \ {"anchor"}
      /\ task'.req = task.req
  <2>1. CASE ArmOnAnchor \/ FlushOnJump
    BY <2>1 DEF ArmOnAnchor, FlushOnJump, AnchorSteps, TypeOK
  <2>2. CASE SameTrack \/ FlushStale \/ KeepRing
    BY <2>2 DEF SameTrack, FlushStale, KeepRing, TaskAt, AnchorSteps, TypeOK
  <2>3. CASE ArmLower \/ ArmUpper \/ OpenGate
    BY <2>3 DEF ArmLower, ArmUpper, OpenGate, TaskAt, AnchorSteps, TypeOK
  <2> QED
    BY <2>1, <2>2, <2>3 DEF ArmingSteps
<1>2. NewAnchor' = NewAnchor /\ (IsResume(task.req)' <=> IsResume(task.req))
  BY <1>1 DEF NewAnchor, IsResume
<1>3. task.pc \notin {"idle", "disarm", "close"} /\ task'.pc \notin {"idle", "disarm", "close"}
  BY <1>1 DEF AnchorSteps
<1>4. (Seeking' <=> Seeking) /\ (Steady' <=> Steady)
  <2>1. Seeking' <=> Seeking
    BY <1>1, <1>2, <1>3 DEF Seeking
  <2>2. Steady' <=> Steady
    BY <1>1, <1>2, <1>3 DEF Steady
  <2> QED
    BY <2>1, <2>2
<1>5. ASSUME Seeking, sender.seg > 0
      PROVE  ~SameTrack
  <2> SUFFICES ASSUME SameTrack PROVE FALSE
    OBVIOUS
  <2>1. task.pc = "anchor" /\ ~gates.arm /\ ~AnchorJumps
    BY DEF SameTrack
  <2>2. anchor.valid
    BY <1>5, <2>1 DEF SeekInvFrom, PositionInv
  <2>3. AtPosition(anchor.rtp, p, pauses) /\ p # sender.start /\ sender.start \in Starts
    BY <1>5, <2>2, Typed DEF SeekInvFrom, PositionInv, FramesInv
  <2>4. task.req.rtp = sender.start
    BY <1>1, <1>5, AnchorPosition DEF NewAnchor, Request
  <2>5. pauses \in 0 .. MaxPauses /\ elapsed \in 0 .. MaxElapsed
    BY DEF TypeOK
  <2>6. Far(sender.start, TsAdd(anchor.rtp, elapsed))
    BY <2>3, <2>5, JumpIsFar
  <2> QED
    BY <2>1, <2>2, <2>4, <2>6 DEF AnchorJumps, Reference
<1>6. ASSUME Seeking, sender.seg > 0
      PROVE  task'.armed
  <2>1. CASE ArmOnAnchor \/ FlushOnJump
    BY <2>1 DEF ArmOnAnchor, FlushOnJump, TypeOK
  <2>2. CASE ~ArmOnAnchor /\ ~FlushOnJump
    <3>1. ArmLower \/ ArmUpper \/ OpenGate \/ FlushStale \/ KeepRing
      BY <1>5, <1>6, <2>2 DEF ArmingSteps
    <3>2. task.pc \in AnchorSteps \ {"anchor"}
      BY <3>1 DEF ArmLower, ArmUpper, OpenGate, FlushStale, KeepRing, AnchorSteps
    <3>3. task.armed
      BY <1>6, <3>2 DEF SeekInvFrom, PositionInv
    <3>4. task'.armed = task.armed
      BY <3>1 DEF ArmLower, ArmUpper, OpenGate, FlushStale, KeepRing, TaskAt, TypeOK
    <3> QED
      BY <3>3, <3>4
  <2> QED
    BY <2>1, <2>2
<1>7. ~gates'.arm
  <2>1. CASE ArmOnAnchor
    BY <2>1 DEF ArmOnAnchor, TypeOK
  <2>2. CASE FlushOnJump \/ SameTrack
    BY <2>2 DEF FlushOnJump, SameTrack
  <2>3. CASE ArmLower \/ ArmUpper \/ OpenGate \/ FlushStale \/ KeepRing
    <3>1. task.pc \in AnchorSteps \ {"anchor"}
      BY <2>3 DEF ArmLower, ArmUpper, OpenGate, FlushStale, KeepRing, AnchorSteps
    <3>2. ~gates.arm
      BY <3>1 DEF SeekInvFrom, PositionInv
    <3>3. gates'.arm = gates.arm
      BY <2>3 DEF ArmLower, ArmUpper, OpenGate, FlushStale, KeepRing, TypeOK
    <3> QED
      BY <3>2, <3>3
  <2> QED
    BY <2>1, <2>2, <2>3 DEF ArmingSteps
<1>8. PositionInv(p)'
  <2>1. PauseAsked' <=> PauseAsked
    BY <1>1 DEF PauseAsked
  <2>2. PositionInv(p)
    BY DEF SeekInvFrom
  <2>3. /\ (Steady =>
              IF playing /\ ~PauseAsked THEN AtPosition(anchor.rtp, sender.start, pauses)
              ELSE pauses > 0 /\ AtPosition(anchor.rtp, sender.start, pauses - 1))'
        /\ (Seeking /\ anchor.valid => sender.seg = anchor.seg + 1 /\ AtPosition(anchor.rtp, p, pauses))'
    BY <1>1, <1>4, <2>1, <2>2 DEF PositionInv
  <2> QED
    BY <1>1, <1>3, <1>6, <1>7, <1>4, <2>3 DEF PositionInv
<1> QED
  BY <1>1, <1>4, <1>5, <1>6, <1>8

(* Each arms a gate before it is counted on.                               *)
LEMMA ArmingGates ==
  ASSUME TypeOK, NEW p \in Starts, SeekInvFrom(p), ArmingSteps
  PROVE  GatesInv(p)'
<1>1. /\ UNCHANGED <<sender, pauses, backlog, rtsp, anchor, playing, stream>>
      /\ task.pc \in AnchorSteps /\ (Seeking' <=> Seeking)
      /\ (Seeking /\ sender.seg > 0 => task'.armed)
      /\ (Seeking /\ sender.seg > 0 => ~SameTrack)
  BY ArmingControl
<1>2. FramesInv(p) /\ GatesInv(p)
  BY DEF SeekInvFrom
<1>3. (OldAhead' <=> OldAhead) /\ (IsOld(stream.frame)' <=> IsOld(stream.frame))
  BY <1>1, <1>2, TaskFrames
<1>4. /\ AtPosition(task.req.rtp, sender.start, pauses) /\ task.req.rtp \in AllTimestamps
  BY <1>1, AnchorPosition
<1>5. CASE ArmOnAnchor \/ FlushOnJump
  <2>1. /\ gates'.beforeOn = gates.beforeOn /\ gates'.aboveOn = gates.aboveOn
        /\ gates'.before = gates.before /\ gates'.above = gates.above
        /\ task.pc = "anchor" /\ task'.pc = "lower"
    BY <1>5 DEF ArmOnAnchor, FlushOnJump, TypeOK
  <2> QED
    BY <1>1, <1>2, <2>1, TaskGates DEF LowerArmed, UpperArmed
<1>6. CASE SameTrack
  <2>1. gates' = gates /\ ~(Seeking /\ sender.seg > 0)
    BY <1>1, <1>6 DEF SameTrack
  <2>2. sender.seg > 0 => LowerArmed /\ UpperArmed /\ LowerArmed' /\ UpperArmed'
    BY <1>1, <2>1 DEF LowerArmed, UpperArmed
  <2> QED
    BY <1>1, <1>2, <1>3, <2>1, <2>2 DEF GatesInv
<1>7. CASE ArmLower
  <2>1. /\ task.pc = "lower" /\ task'.pc = "upper" /\ gates'.before = task.req.rtp /\ gates'.beforeOn
        /\ gates'.above = gates.above /\ gates'.aboveOn = gates.aboveOn
    BY <1>7 DEF ArmLower, TaskAt, TypeOK
  <2>2. LowerArmed' /\ (UpperArmed' <=> UpperArmed)
    BY <1>1, <2>1 DEF LowerArmed, UpperArmed
  <2> QED
    BY <1>1, <1>2, <1>3, <1>4, <2>1, <2>2 DEF GatesInv
<1>8. CASE ArmUpper
  <2>1. /\ task.pc = "upper" /\ task'.pc = (IF task.armed THEN "open" ELSE "set")
        /\ task'.armed = task.armed
        /\ gates'.before = gates.before /\ gates'.beforeOn = gates.beforeOn
        /\ gates'.above = UpperBound(task.req.rtp) /\ gates'.aboveOn
    BY <1>8 DEF ArmUpper, TaskAt, TypeOK
  <2>2. LowerArmed /\ LowerArmed' /\ UpperArmed'
    BY <1>1, <2>1 DEF LowerArmed, UpperArmed
  <2> QED
    BY <1>1, <1>2, <1>3, <1>4, <2>1, <2>2 DEF GatesInv
<1>9. CASE OpenGate \/ KeepRing
  <2>1. /\ gates'.beforeOn = gates.beforeOn /\ gates'.aboveOn = gates.aboveOn
        /\ gates'.before = gates.before /\ gates'.above = gates.above
        /\ task.pc \in {"open", "check"} /\ task'.pc \in {"check", "set"}
    BY <1>9 DEF OpenGate, KeepRing, TaskAt, TypeOK
  <2> QED
    BY <1>1, <1>2, <2>1, TaskGates DEF LowerArmed, UpperArmed
<1>10. CASE FlushStale
  <2>1. /\ gates' = gates /\ task.pc = "check" /\ task'.armed = task.armed
        /\ task'.pc = (IF task.armed THEN "set" ELSE "lower")
    BY <1>10 DEF FlushStale, TaskAt, TypeOK
  <2>2. sender.seg > 0 => LowerArmed /\ UpperArmed /\ LowerArmed' /\ UpperArmed'
    BY <1>1, <2>1 DEF LowerArmed, UpperArmed
  <2> QED
    BY <1>1, <1>2, <1>3, <2>1, <2>2 DEF GatesInv
<1> QED
  BY <1>5, <1>6, <1>7, <1>8, <1>9, <1>10 DEF ArmingSteps

(* When the anchor is about to be set, at most the frame that is about to  *)
(* be queued is left of the track before.                                  *)
LEMMA ArmingRing ==
  ASSUME TypeOK, NEW p \in Starts, SeekInvFrom(p), ArmingSteps
  PROVE  RingInv(p)'
<1>1. /\ UNCHANGED <<sender, pauses, backlog, rtsp, anchor, playing, stream>>
      /\ task.pc \in AnchorSteps /\ task'.pc \in AnchorSteps \ {"anchor"}
      /\ (Seeking' <=> Seeking)
      /\ (Seeking /\ sender.seg > 0 => ~SameTrack)
  BY ArmingControl
<1>2. FramesInv(p) /\ PositionInv(p) /\ RingInv(p)
  BY DEF SeekInvFrom
<1>3. \A f : FromTrack(f, p)' <=> FromTrack(f, p)
  BY <1>1, <1>2, TaskFrames
<1>4. task.pc # "idle" /\ task'.pc # "idle"
  BY <1>1 DEF AnchorSteps
<1>5. ~Seeking => anchor.seg = sender.seg /\ anchor.valid
  BY <1>1, AnchorPosition
<1>6. sender.seg = 0 => AtMostOne(sender.seg)'
  <2>1. \A f \in ring' : f \in ring
    BY DEF ArmingSteps, ArmOnAnchor, FlushOnJump, SameTrack, ArmLower, ArmUpper, OpenGate,
           FlushStale, KeepRing
  <2>2. \A f \in Arriving' : f.seg \in Nat
    BY <1>1, <2>1, Typed DEF Arriving
  <2> QED
    BY <1>1, <2>2 DEF AtMostOne
<1>7. CASE FlushOnJump \/ FlushStale
  <2>1. ring' = {}
    BY <1>7 DEF FlushOnJump, FlushStale
  <2>2. \A f, g \in Arriving' : f = g
    BY <2>1 DEF Arriving
  <2> QED
    BY <2>1, <2>2 DEF RingInv, AtMostOne
<1>8. CASE KeepRing
  <2>1. /\ ring' = ring /\ task.pc = "check" /\ task'.pc = "set" /\ ~OldestIsFar
        /\ masked' = Masked
    BY <1>8 DEF KeepRing, TaskAt, TypeOK
  <2>2. \A f \in ring' : FromTrack(f, p)'
    BY <1>2, <1>3, <2>1 DEF RingInv
  <2>3. ~Masked => \A f \in ring : ~(f.seg < sender.seg)
    BY <2>1, RingHasNoOld
  <2>4. ~Masked => AtMostOne(sender.seg)'
    BY <1>1, <2>1, <2>3 DEF AtMostOne, Arriving
  <2>5. ~Masked /\ ~Seeking => AtMostOne(anchor.seg)'
    BY <1>1, <1>5, <2>4 DEF AtMostOne
  <2> QED
    BY <1>1, <1>4, <2>1, <2>2, <2>4, <2>5 DEF RingInv
<1>9. CASE ArmOnAnchor \/ SameTrack \/ ArmLower \/ ArmUpper \/ OpenGate
  <2>1. ring' = ring /\ masked' = masked
    BY <1>9 DEF ArmOnAnchor, SameTrack, ArmLower, ArmUpper, OpenGate
  <2>2. \A f \in ring : FromTrack(f, p)
    <3>1. CASE ~Seeking \/ task.pc # "anchor" \/ ~anchor.valid
      BY <1>2, <1>4, <3>1 DEF RingInv
    <3>2. CASE Seeking /\ task.pc = "anchor" /\ anchor.valid
      <4>1. SameTrack
        BY <1>2, <1>9, <3>2 DEF ArmOnAnchor, ArmLower, ArmUpper, OpenGate, PositionInv
      <4>2. sender.seg = anchor.seg + 1 /\ anchor.seg \in Nat
        BY <1>2, <3>2, Typed DEF PositionInv
      <4> QED
        BY <1>1, <3>2, <4>1, <4>2
    <3> QED
      BY <3>1, <3>2
  <2>3. ~Seeking /\ ~masked => AtMostOne(anchor.seg)'
    <3>1. ~Seeking /\ ~masked => AtMostOne(anchor.seg)
      BY <1>2, <1>5 DEF RingInv
    <3> QED
      BY <1>1, <2>1, <3>1 DEF AtMostOne, Arriving
  <2>4. Seeking /\ task'.pc = "set" => AtMostOne(sender.seg)'
    <3> SUFFICES ASSUME Seeking, task'.pc = "set" PROVE AtMostOne(sender.seg)'
      OBVIOUS
    <3>1. task.pc = "upper" /\ ~task.armed
      BY <1>9 DEF ArmOnAnchor, SameTrack, ArmLower, ArmUpper, OpenGate, TaskAt, TypeOK
    <3>2. ~(sender.seg > 0)
      BY <1>2, <3>1 DEF PositionInv, AnchorSteps
    <3> QED
      BY <1>6, <3>2, Typed
  <2> QED
    BY <1>1, <1>3, <1>4, <2>1, <2>2, <2>3, <2>4 DEF RingInv
<1> QED
  BY <1>7, <1>8, <1>9 DEF ArmingSteps

(* So they keep the invariant.                                             *)
LEMMA ArmingKeeps ==
  ASSUME TypeOK, NEW p \in Starts, SeekInvFrom(p), ArmingSteps
  PROVE  SeekInvFrom(p)'
<1>1. FramesInv(p)' /\ PositionInv(p)' /\ (Seeking \/ Steady)'
  BY ArmingControl, TaskFrames DEF SeekInvFrom
<1> QED
  BY <1>1, ArmingGates, ArmingRing DEF SeekInvFrom

(* Every step keeps the invariant, if the sender waits for a seek to       *)
(* settle before the next.                                                 *)
LEMMA SeekStep ==
  ASSUME Patient, TypeOK, SeekInv, [Next]_vars
  PROVE  SeekInv'
<1> SUFFICES ASSUME NEW p \in Starts, SeekInvFrom(p) PROVE \E q \in Starts : SeekInvFrom(q)'
  BY DEF SeekInv
<1>1. CASE Seek
  <2>1. PICK q \in Starts : q = sender.start
    BY Typed
  <2> QED
    BY <1>1, <2>1, SeekKeeps
<1>2. CASE Pause \/ Resume
  BY <1>2, PauseKeeps
<1>3. CASE SendFrame \/ Tick \/ StreamTask
  BY <1>3, StreamKeeps
<1>4. CASE RtspTask
  <2>1. CASE FlushBuffered
    BY <2>1, FlushBufferedKeeps
  <2>2. CASE DisarmGates \/ CloseGate
    BY <2>2, FlushStepsKeep
  <2>3. CASE PauseStream
    BY <2>3, PauseStreamKeeps
  <2>4. CASE BeginAnchor
    BY <2>4, BeginAnchorKeeps
  <2>5. CASE ArmingSteps
    BY <2>5, ArmingKeeps
  <2>6. CASE SetAnchor
    BY <2>6, SetAnchorKeeps
  <2> QED
    BY <1>4, <2>1, <2>2, <2>3, <2>4, <2>5, <2>6 DEF RtspTask, SetAnchorTime, ArmingSteps
<1>5. CASE UNCHANGED vars
  <2>1. SeekInvFrom(p)'
    BY <1>5 DEF vars, SeekInvFrom, FramesInv, PositionInv, GatesInv, RingInv, Seeking, Steady,
       FromTrack, IsOld, NewAnchor, NewFlush, IsResume, PauseAsked, LowerArmed, UpperArmed,
       OldAhead, Arriving, AtMostOne
  <2> QED
    BY <2>1
<1> QED
  BY <1>1, <1>2, <1>3, <1>4, <1>5 DEF Next, User

(* What the invariant says once the anchor is set.                         *)
LEMMA SeekImplies == TypeOK /\ SeekInv => AtMostOneStale
<1> SUFFICES ASSUME TypeOK, SeekInv, anchor.valid, task.pc = "idle", ~masked
             PROVE  Cardinality(Stale) <= 1
  BY DEF AtMostOneStale
<1>1. PICK p \in Starts : SeekInvFrom(p)
  BY DEF SeekInv
<1>2. AtMostOne(anchor.seg)
  BY <1>1 DEF SeekInvFrom, RingInv
<1>3. \A f, g \in Stale : f = g
  BY <1>2 DEF Stale, AtMostOne, Arriving
<1>4. Stale = {} \/ \E f : Stale = {f}
  BY <1>3
<1>5. CASE Stale = {}
  <2>1. Cardinality(Stale) = 0
    BY <1>5, FS_EmptySet
  <2> QED
    BY <2>1
<1>6. CASE \E f : Stale = {f}
  <2>1. Cardinality(Stale) = 1
    BY <1>6, FS_Singleton
  <2> QED
    BY <2>1
<1> QED
  BY <1>4, <1>5, <1>6

(* When each seek has settled before the next, at most the one frame       *)
(* between its last gate check and its insert survives a track change,     *)
(* whatever the order of the two tasks' steps, in a ring and a connection  *)
(* of any size, for tracks anywhere in the range - unless phase 2 looked   *)
(* at a frame of the new track that lay before the stale ones.             *)
THEOREM StaleFrames == Patient => (Spec => []AtMostOneStale)
<1> SUFFICES ASSUME Patient PROVE Spec => []AtMostOneStale
  OBVIOUS
<1>1. Init => TypeOK /\ SeekInv
  BY InitTypes, SeekInit
<1>2. TypeOK /\ SeekInv /\ [Next]_vars => (TypeOK /\ SeekInv)'
  BY StepTypes, SeekStep
<1>3. TypeOK /\ SeekInv => AtMostOneStale
  BY SeekImplies
<1> QED
  BY <1>1, <1>2, <1>3, PTL DEF Spec
=============================================================================
