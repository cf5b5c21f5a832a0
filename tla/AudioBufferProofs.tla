------------------------- MODULE AudioBufferProofs -------------------------
(***************************************************************************)
(* Theorems about AudioBuffer, for every pool, every set of tasks and      *)
(* every comparable set of timestamps.                                     *)
(***************************************************************************)
EXTENDS AudioBuffer, SequenceTheorems, FiniteSetTheorems, WellFoundedInduction, TLAPS

(* What InsertAt returns. *)
LEMMA InsertAtProperties ==
  ASSUME NEW S, NEW s \in Seq(S), NEW i \in 1 .. Len(s) + 1, NEW e \in S
  PROVE  /\ InsertAt(s, i, e) \in Seq(S)
         /\ Len(InsertAt(s, i, e)) = Len(s) + 1
         /\ \A j \in 1 .. Len(s) + 1 :
              InsertAt(s, i, e)[j] =
                IF j < i THEN s[j] ELSE IF j = i THEN e ELSE s[j - 1]
<1> DEFINE left  == SubSeq(s, 1, i - 1)
           right == SubSeq(s, i, Len(s))
           mid   == left \o <<e>>
<1>0. Len(s) \in Nat /\ i \in Int /\ i >= 1 /\ i <= Len(s) + 1
  BY LenProperties
<1>1. /\ left \in Seq(S)
      /\ Len(left) = i - 1
      /\ \A j \in 1 .. i - 1 : left[j] = s[j]
  <2>1. \A j \in 1 .. i - 1 : s[j] \in S
    BY <1>0, ElementOfSeq
  <2>2. 1 \in Int /\ i - 1 \in Int
    BY <1>0
  <2>. QED BY <1>0, <2>1, <2>2, SubSeqProperties, Z3
<1>2. /\ right \in Seq(S)
      /\ Len(right) = Len(s) - i + 1
      /\ \A j \in 1 .. Len(s) - i + 1 : right[j] = s[i + j - 1]
  <2>1. \A j \in i .. Len(s) : s[j] \in S
    BY <1>0, ElementOfSeq
  <2>. QED BY <1>0, <2>1, SubSeqProperties, Z3
<1>3. <<e>> \in Seq(S) /\ Len(<<e>>) = 1 /\ <<e>>[1] = e
  OBVIOUS
<1>4. /\ mid \in Seq(S)
      /\ Len(mid) = i
      /\ \A j \in 1 .. i : mid[j] = IF j < i THEN s[j] ELSE e
  <2>1. /\ mid \in Seq(S)
        /\ Len(mid) = Len(left) + 1
        /\ \A j \in 1 .. Len(left) + 1 :
             mid[j] = IF j <= Len(left) THEN left[j] ELSE <<e>>[j - Len(left)]
    BY <1>1, <1>3, ConcatProperties
  <2>. HIDE DEF left, mid
  <2>. QED BY <1>0, <1>1, <1>3, <2>1
<1>5. /\ mid \o right \in Seq(S)
      /\ Len(mid \o right) = Len(mid) + Len(right)
      /\ \A j \in 1 .. Len(mid) + Len(right) :
           (mid \o right)[j] = IF j <= Len(mid) THEN mid[j] ELSE right[j - Len(mid)]
  BY <1>2, <1>4, ConcatProperties
<1>6. InsertAt(s, i, e) = mid \o right
  BY DEF InsertAt
<1>. HIDE DEF left, mid, right
<1>. QED BY <1>0, <1>2, <1>4, <1>5, <1>6

LEMMA InsertAtElement ==
  ASSUME NEW S, NEW s \in Seq(S), NEW i \in 1 .. Len(s) + 1, NEW e \in S,
         NEW j \in 1 .. Len(s) + 1
  PROVE  InsertAt(s, i, e)[j] = IF j < i THEN s[j] ELSE IF j = i THEN e ELSE s[j - 1]
<1>1. \A k \in 1 .. Len(s) + 1 :
        InsertAt(s, i, e)[k] = IF k < i THEN s[k] ELSE IF k = i THEN e ELSE s[k - 1]
  BY InsertAtProperties, SMTT(60)
<1>. QED BY <1>1

(* Removing the head of a duplicate-free sequence removes one element. *)
LEMMA TailProperties ==
  ASSUME NEW S, NEW s \in Seq(S), s # <<>>, IsInjective(s)
  PROVE  /\ Head(s) \in S /\ Head(s) \in ToSet(s) /\ Head(s) = s[1]
         /\ Tail(s) \in Seq(S)
         /\ Len(s) \in Nat \ {0} /\ Len(Tail(s)) = Len(s) - 1
         /\ \A j \in 1 .. Len(s) - 1 : Tail(s)[j] = s[j + 1]
         /\ IsInjective(Tail(s))
         /\ ToSet(Tail(s)) = ToSet(s) \ {Head(s)}
<1>1. /\ Len(s) \in Nat \ {0} /\ DOMAIN s = 1 .. Len(s)
      /\ Tail(s) \in Seq(S) /\ Len(Tail(s)) = Len(s) - 1
      /\ DOMAIN Tail(s) = 1 .. Len(s) - 1
      /\ \A j \in 1 .. Len(s) - 1 : Tail(s)[j] = s[j + 1]
      /\ Head(s) = s[1] /\ Head(s) \in S
  BY HeadTailProperties, LenProperties, EmptySeq
<1>2. IsInjective(Tail(s))
  <2> SUFFICES ASSUME NEW a \in 1 .. Len(s) - 1, NEW b \in 1 .. Len(s) - 1,
                      s[a + 1] = s[b + 1]
               PROVE  a = b
    BY <1>1 DEF IsInjective
  <2>1. a + 1 \in DOMAIN s /\ b + 1 \in DOMAIN s
    BY <1>1
  <2>2. a + 1 = b + 1
    BY <2>1 DEF IsInjective
  <2>. QED BY <2>2
<1>3. ToSet(Tail(s)) = ToSet(s) \ {Head(s)}
  <2>1. ASSUME NEW x \in ToSet(Tail(s)) PROVE x \in ToSet(s) \ {Head(s)}
    <3>1. PICK j \in 1 .. Len(s) - 1 : x = s[j + 1]
      BY <1>1 DEF ToSet
    <3>2. j + 1 \in DOMAIN s /\ 1 \in DOMAIN s /\ j + 1 # 1
      BY <1>1
    <3>. QED BY <1>1, <3>1, <3>2 DEF ToSet, IsInjective
  <2>2. ASSUME NEW x \in ToSet(s), x # Head(s) PROVE x \in ToSet(Tail(s))
    <3>1. PICK j \in 1 .. Len(s) : x = s[j]
      BY <1>1 DEF ToSet
    <3>2. j - 1 \in 1 .. Len(s) - 1 /\ s[(j - 1) + 1] = x
      BY <1>1, <2>2, <3>1
    <3>. QED BY <1>1, <3>2 DEF ToSet
  <2>. QED BY <2>1, <2>2
<1>. QED BY <1>1, <1>2, <1>3 DEF ToSet

(* Inserting a new element into a duplicate-free sequence. *)
LEMMA InsertAtSet ==
  ASSUME NEW S, NEW s \in Seq(S), NEW i \in 1 .. Len(s) + 1, NEW e \in S,
         IsInjective(s), e \notin ToSet(s)
  PROVE  /\ IsInjective(InsertAt(s, i, e))
         /\ ToSet(InsertAt(s, i, e)) = ToSet(s) \cup {e}
<1> DEFINE t == InsertAt(s, i, e)
<1>1. /\ Len(s) \in Nat /\ DOMAIN s = 1 .. Len(s) /\ DOMAIN t = 1 .. Len(s) + 1
      /\ \A j \in 1 .. Len(s) + 1 :
           t[j] = IF j < i THEN s[j] ELSE IF j = i THEN e ELSE s[j - 1]
  <2>1. InsertAt(s, i, e) \in Seq(S)
    BY InsertAtProperties
  <2>3. Len(InsertAt(s, i, e)) = Len(s) + 1
    BY InsertAtProperties
  <2>4. \A j \in 1 .. Len(s) + 1 :
              InsertAt(s, i, e)[j] =
                IF j < i THEN s[j] ELSE IF j = i THEN e ELSE s[j - 1]
    BY InsertAtElement
  <2>2. Len(s) \in Nat /\ DOMAIN s = 1 .. Len(s) /\ DOMAIN t = 1 .. Len(t)
    BY <2>1, LenProperties
  <2>. QED BY <2>2, <2>3, <2>4
<1>. HIDE DEF t
<1>2. \A j \in 1 .. Len(s) : s[j] # e
  BY <1>1 DEF ToSet
<1>3. \A a, b \in 1 .. Len(s) : s[a] = s[b] => a = b
  BY <1>1 DEF IsInjective
<1>4. IsInjective(t)
  <2> SUFFICES ASSUME NEW a \in 1 .. Len(s) + 1, NEW b \in 1 .. Len(s) + 1, t[a] = t[b]
               PROVE  a = b
    BY <1>1 DEF IsInjective
  <2> DEFINE from(j) == IF j < i THEN j ELSE j - 1
  <2>1. \A j \in 1 .. Len(s) + 1 : j # i => from(j) \in 1 .. Len(s) /\ t[j] = s[from(j)]
    BY <1>1
  <2>2. t[i] = e /\ (a # i => t[a] # e) /\ (b # i => t[b] # e)
    BY <1>1, <1>2, <2>1
  <2>3. CASE a # i /\ b # i
    <3>1. from(a) = from(b)
      BY <1>3, <2>1, <2>3
    <3>. QED BY <2>3, <3>1
  <2>. QED BY <2>2, <2>3
<1>5. ToSet(t) = ToSet(s) \cup {e}
  <2>1. ASSUME NEW x \in ToSet(t) PROVE x \in ToSet(s) \cup {e}
    <3>1. PICK j \in 1 .. Len(s) + 1 : x = t[j]
      BY <1>1 DEF ToSet
    <3>2. x = e \/ \E k \in 1 .. Len(s) : x = s[k]
      BY <1>1, <3>1
    <3>. QED BY <1>1, <3>2 DEF ToSet
  <2>2. ASSUME NEW x \in ToSet(s) PROVE x \in ToSet(t)
    <3>1. PICK j \in 1 .. Len(s) : x = s[j]
      BY <1>1 DEF ToSet
    <3>2. CASE j < i
      BY <1>1, <3>1, <3>2 DEF ToSet
    <3>3. CASE j >= i
      <4>1. j + 1 \in 1 .. Len(s) + 1 /\ t[j + 1] = x
        BY <1>1, <3>1, <3>3
      <4>. QED BY <1>1, <4>1 DEF ToSet
    <3>. QED BY <1>1, <3>2, <3>3
  <2>3. e \in ToSet(t)
    BY <1>1 DEF ToSet
  <2>. QED BY <2>1, <2>2, <2>3
<1>. QED BY <1>4, <1>5 DEF t

-----------------------------------------------------------------------------
(* The inductive invariant *)

(* Which labels each kind of task can be at, and what it carries there. *)
TaskInv ==
  /\ \A p \in Producers : pc[p] \in {"idle", "insert", "give"}
  /\ \A f \in Flushers \ {Consumer} : pc[f] \in {"idle", "drain"}
  /\ pc[Consumer] \in {"idle", "take", "hold", "drain"}
  /\ pc[Consumer] = "hold" <=> held # NoSlot
  /\ \A p \in Producers : pc[p] \in {"insert", "give"} =>
       todo[p].done < todo[p].of /\ ChunkStamps(todo[p].ts, todo[p].of) \subseteq Timestamps

(* Only comparable timestamps are queued, never more than the pool holds. *)
QueueInv ==
  /\ \A i \in 1 .. Len(sorted) : slotTs[sorted[i]] \in Timestamps
  /\ Len(sorted) <= Capacity

IInv == TypeOK /\ TaskInv /\ QueueInv /\ SlotsPartitioned /\ PlayOrder

LEMMA CapacityType == Capacity \in Nat /\ Capacity > 0 /\ Cardinality(Producers) \in Nat
<1>1. Cardinality(Slots) \in Nat /\ Cardinality(Producers) \in Nat
  BY BufferAssumption, FS_CardinalityType
<1>. QED BY <1>1, BufferAssumption DEF Capacity

LEMMA TsCmpType ==
  ASSUME NEW a \in AllTimestamps, NEW b \in AllTimestamps
  PROVE  TsCmp(a, b) \in Int
<1>1. TsMod \in Nat /\ TsMod >= 2 /\ a - b \in Int
  BY TsModAssumption DEF AllTimestamps
<1>2. (a - b) % TsMod \in Int
  BY <1>1
<1>. QED BY <1>1, <1>2 DEF TsCmp

(* The chunk a producer is about to queue has a timestamp in circulation. *)
LEMMA ChunkTsInTimestamps ==
  ASSUME TypeOK, TaskInv, NEW p \in Producers, pc[p] = "insert"
  PROVE  ChunkTs(p) \in Timestamps /\ ChunkTs(p) \in AllTimestamps
<1>1. /\ todo[p].done \in Nat /\ todo[p].of \in Nat /\ todo[p].done < todo[p].of
      /\ ChunkStamps(todo[p].ts, todo[p].of) \subseteq Timestamps
  BY BufferAssumption DEF TypeOK, TaskInv
<1>2. todo[p].done \in 0 .. todo[p].of - 1
  BY <1>1
<1>3. ChunkTs(p) \in ChunkStamps(todo[p].ts, todo[p].of)
  BY <1>2 DEF ChunkStamps, ChunkTs
<1>. QED BY <1>1, <1>3, BufferAssumption DEF Comparable

(* What the overflow loop leaves: fewer frames than slots, still distinct, *)
(* in order and partitioning the pool with the free and the held slots.    *)
LEMMA KeptProperties ==
  ASSUME IInv
  PROVE  /\ Kept \in Seq(Slots) /\ Pool \in SUBSET Slots
         /\ Len(Kept) \in Nat /\ Len(Kept) < Capacity
         /\ Len(Kept) = IF Overflowing THEN Len(sorted) - 1 ELSE Len(sorted)
         /\ IsInjective(Kept)
         /\ ToSet(Kept) \cap Pool = {}
         /\ held \notin ToSet(Kept) \cup Pool
         /\ Slots = ToSet(Kept) \cup Pool \cup ({held} \ {NoSlot})
         /\ \A i \in 1 .. Len(Kept) : slotTs[Kept[i]] \in Timestamps
         /\ \A i, j \in 1 .. Len(Kept) :
              i < j => TsCmp(slotTs[Kept[i]], slotTs[Kept[j]]) <= 0
<1>. /\ sorted \in Seq(Slots) /\ free \in SUBSET Slots /\ IsInjective(sorted)
     /\ Len(sorted) \in Nat /\ Len(sorted) <= Capacity /\ Capacity \in Nat /\ Capacity > 0
  BY CapacityType, LenProperties DEF IInv, TypeOK, SlotsPartitioned, QueueInv
<1>1. CASE Overflowing
  <2>. Kept = Tail(sorted) /\ Pool = free \cup {Head(sorted)} /\ sorted # <<>>
    BY <1>1 DEF Kept, Pool, Overflowing
  <2>1. /\ Head(sorted) \in Slots /\ Head(sorted) \in ToSet(sorted)
        /\ Kept \in Seq(Slots) /\ Len(Kept) = Len(sorted) - 1
        /\ \A j \in 1 .. Len(sorted) - 1 : Kept[j] = sorted[j + 1]
        /\ IsInjective(Kept)
        /\ ToSet(Kept) = ToSet(sorted) \ {Head(sorted)}
        /\ Len(sorted) \in Nat \ {0}
    BY TailProperties
  <2>2. /\ ToSet(Kept) \cap Pool = {}
        /\ held \notin ToSet(Kept) \cup Pool
        /\ Slots = ToSet(Kept) \cup Pool \cup ({held} \ {NoSlot})
    BY <2>1 DEF IInv, SlotsPartitioned
  <2>3. \A i \in 1 .. Len(Kept) : slotTs[Kept[i]] \in Timestamps
    BY <2>1 DEF IInv, QueueInv
  <2>4. \A i, j \in 1 .. Len(Kept) :
          i < j => TsCmp(slotTs[Kept[i]], slotTs[Kept[j]]) <= 0
    <3> SUFFICES ASSUME NEW i \in 1 .. Len(Kept), NEW j \in 1 .. Len(Kept), i < j
                 PROVE  TsCmp(slotTs[Kept[i]], slotTs[Kept[j]]) <= 0
      OBVIOUS
    <3>1. /\ i + 1 \in 1 .. Len(sorted) /\ j + 1 \in 1 .. Len(sorted) /\ i + 1 < j + 1
          /\ Kept[i] = sorted[i + 1] /\ Kept[j] = sorted[j + 1]
      BY <2>1
    <3>. QED BY <3>1 DEF IInv, PlayOrder
  <2>. QED BY <1>1, <2>1, <2>2, <2>3, <2>4
<1>2. CASE ~Overflowing
  <2>. Kept = sorted /\ Pool = free
    BY <1>2 DEF Kept, Pool
  <2>1. Len(sorted) < Capacity
    <3>1. sorted = <<>> => Len(sorted) = 0
      BY EmptySeq
    <3>. QED BY <1>2, <3>1 DEF Overflowing
  <2>. QED BY <1>2, <2>1 DEF IInv, SlotsPartitioned, QueueInv, PlayOrder
<1>. QED BY <1>1, <1>2

(* One step of a critical section that inserts: the hardest case, by itself. *)
LEMMA InsertKeepsQueue ==
  ASSUME IInv, NEW p \in Producers, pc[p] = "insert",
         NEW slot \in Pool, NEW pos \in InsertPositions(Kept, ChunkTs(p)),
         sorted' = InsertAt(Kept, pos + 1, slot),
         free' = Pool \ {slot},
         slotTs' = [slotTs EXCEPT ![slot] = ChunkTs(p)],
         held' = held
  PROVE  /\ sorted' \in Seq(Slots) /\ free' \in SUBSET Slots
         /\ slotTs' \in [Slots -> AllTimestamps]
         /\ Len(sorted') = Len(Kept) + 1
         /\ QueueInv' /\ SlotsPartitioned' /\ PlayOrder'
<1> DEFINE ts == ChunkTs(p)
<1>1. /\ Kept \in Seq(Slots) /\ slot \in Slots /\ slot \notin ToSet(Kept)
      /\ Len(Kept) \in Nat /\ Len(Kept) < Capacity /\ pos \in 0 .. Len(Kept)
      /\ DOMAIN Kept = 1 .. Len(Kept)
      /\ \A i \in 1 .. Len(Kept) : Kept[i] \in Slots /\ Kept[i] # slot
  <2>1. /\ Kept \in Seq(Slots) /\ slot \in Slots /\ slot \notin ToSet(Kept)
        /\ Len(Kept) \in Nat /\ Len(Kept) < Capacity
    BY KeptProperties
  <2>2. pos \in 0 .. Len(Kept)
    BY DEF InsertPositions
  <2>3. DOMAIN Kept = 1 .. Len(Kept)
    BY <2>1, LenProperties
  <2>. QED BY <2>1, <2>2, <2>3, ElementOfSeq DEF ToSet
<1>2. ts \in Timestamps /\ ts \in AllTimestamps
  BY ChunkTsInTimestamps DEF IInv
<1>. HIDE DEF ts
<1>3. /\ sorted' \in Seq(Slots)
      /\ Len(sorted') = Len(Kept) + 1
      /\ \A j \in 1 .. Len(Kept) + 1 :
           sorted'[j] = IF j < pos + 1 THEN Kept[j]
                        ELSE IF j = pos + 1 THEN slot ELSE Kept[j - 1]
  <2>1. pos + 1 \in 1 .. Len(Kept) + 1
    BY <1>1
  <2>2. InsertAt(Kept, pos + 1, slot) \in Seq(Slots)
    BY <1>1, <2>1, InsertAtProperties
  <2>3. Len(InsertAt(Kept, pos + 1, slot)) = Len(Kept) + 1
    BY <1>1, <2>1, InsertAtProperties
  <2>5. PICK k \in 1 .. Len(Kept) + 1 : k = pos + 1
    BY <2>1
  <2>6. \A j \in 1 .. Len(Kept) + 1 :
           InsertAt(Kept, k, slot)[j] =
             IF j < k THEN Kept[j] ELSE IF j = k THEN slot ELSE Kept[j - 1]
    BY <1>1, InsertAtElement
  <2>4. \A j \in 1 .. Len(Kept) + 1 :
           InsertAt(Kept, pos + 1, slot)[j] =
             IF j < pos + 1 THEN Kept[j] ELSE IF j = pos + 1 THEN slot ELSE Kept[j - 1]
    BY <2>5, <2>6
  <2>. QED BY <2>2, <2>3, <2>4
<1>4. /\ IsInjective(sorted')
      /\ ToSet(sorted') = ToSet(Kept) \cup {slot}
  <2>1. pos + 1 \in 1 .. Len(Kept) + 1 /\ IsInjective(Kept)
    BY <1>1, KeptProperties
  <2>2. IsInjective(InsertAt(Kept, pos + 1, slot))
    BY <1>1, <2>1, InsertAtSet
  <2>3. ToSet(InsertAt(Kept, pos + 1, slot)) = ToSet(Kept) \cup {slot}
    BY <1>1, <2>1, InsertAtSet
  <2>. QED BY <2>2, <2>3
<1>5. free' \in SUBSET Slots
  BY KeptProperties
<1>6. slotTs' \in [Slots -> AllTimestamps]
  BY <1>2 DEF IInv, TypeOK, ts
<1>7. SlotsPartitioned'
  <2>1. /\ ToSet(Kept) \cap Pool = {}
        /\ held \notin ToSet(Kept) \cup Pool
        /\ Slots = ToSet(Kept) \cup Pool \cup ({held} \ {NoSlot})
    BY KeptProperties
  <2>2. ToSet(sorted)' = ToSet(Kept) \cup {slot}
    BY <1>4 DEF ToSet
  <2>. QED BY <1>1, <1>4, <2>1, <2>2 DEF SlotsPartitioned, IsInjective
<1> DEFINE was(j) == IF j < pos + 1 THEN j ELSE j - 1
<1>8. /\ slotTs'[sorted'[pos + 1]] = ts
      /\ \A j \in 1 .. Len(Kept) + 1 : j # pos + 1 =>
           was(j) \in 1 .. Len(Kept) /\ slotTs'[sorted'[j]] = slotTs[Kept[was(j)]]
  <2>1. slotTs'[slot] = ts
    BY <1>1 DEF IInv, TypeOK, ts
  <2>2. \A s \in Slots : s # slot => slotTs'[s] = slotTs[s]
    BY DEF IInv, TypeOK
  <2>3. sorted'[pos + 1] = slot
    BY <1>1, <1>3
  <2>4. \A j \in 1 .. Len(Kept) + 1 : j # pos + 1 =>
          was(j) \in 1 .. Len(Kept) /\ sorted'[j] = Kept[was(j)]
    BY <1>1, <1>3
  <2>. QED BY <1>1, <2>1, <2>2, <2>3, <2>4
<1>9. QueueInv'
  <2>1. \A j \in 1 .. Len(Kept) + 1 : slotTs'[sorted'[j]] \in Timestamps
    BY <1>1, <1>2, <1>8, KeptProperties
  <2>2. Len(sorted') <= Capacity
    BY <1>1, <1>3, CapacityType
  <2>. QED BY <1>3, <2>1, <2>2 DEF QueueInv, Capacity
<1>10. PlayOrder'
  <2> DEFINE t(j) == slotTs[Kept[j]]
  <2>1. /\ \A j \in 1 .. Len(Kept) : t(j) \in Timestamps
        /\ \A i, j \in 1 .. Len(Kept) : i < j => TsCmp(t(i), t(j)) <= 0
    BY KeptProperties
  <2>2. /\ \A a, b, c \in Timestamps :
             TsCmp(a, b) <= 0 /\ TsCmp(b, c) <= 0 => TsCmp(a, c) <= 0
        /\ \A a \in Timestamps : TsCmp(a, a) <= 0
        /\ \A a, b \in Timestamps : TsCmp(a, b) >= 0 => TsCmp(b, a) <= 0
        /\ \A a, b \in Timestamps : TsCmp(a, b) < 0 => TsCmp(a, b) <= 0
    BY BufferAssumption, TsCmpType DEF Comparable
  <2>3. /\ pos > 0 => TsCmp(t(pos), ts) < 0
        /\ pos < Len(Kept) => TsCmp(t(pos + 1), ts) >= 0
    BY DEF InsertPositions, ts
  <2>. HIDE DEF t
  <2>4. \A j \in 1 .. Len(Kept) : j <= pos => TsCmp(t(j), ts) <= 0
    <3> SUFFICES ASSUME NEW j \in 1 .. Len(Kept), j <= pos PROVE TsCmp(t(j), ts) <= 0
      OBVIOUS
    <3>1. pos \in 1 .. Len(Kept) /\ TsCmp(t(pos), ts) <= 0
      BY <1>1, <1>2, <2>1, <2>2, <2>3
    <3>2. TsCmp(t(j), t(pos)) <= 0
      BY <1>1, <2>1, <2>2, <3>1
    <3>. QED BY <1>2, <2>1, <2>2, <3>1, <3>2
  <2>5. \A j \in 1 .. Len(Kept) : j > pos => TsCmp(ts, t(j)) <= 0
    <3> SUFFICES ASSUME NEW j \in 1 .. Len(Kept), j > pos PROVE TsCmp(ts, t(j)) <= 0
      OBVIOUS
    <3>1. pos + 1 \in 1 .. Len(Kept) /\ TsCmp(ts, t(pos + 1)) <= 0
      BY <1>1, <1>2, <2>1, <2>2, <2>3
    <3>2. TsCmp(t(pos + 1), t(j)) <= 0
      BY <1>1, <2>1, <2>2, <3>1
    <3>. QED BY <1>2, <2>1, <2>2, <3>1, <3>2
  <2>6. SUFFICES ASSUME NEW i \in 1 .. Len(Kept) + 1, NEW j \in 1 .. Len(Kept) + 1, i < j
                 PROVE  TsCmp(slotTs'[sorted'[i]], slotTs'[sorted'[j]]) <= 0
    BY <1>3 DEF PlayOrder
  <2>7. CASE i = pos + 1
    <3>1. was(j) \in 1 .. Len(Kept) /\ was(j) > pos /\ slotTs'[sorted'[j]] = t(was(j))
      BY <1>1, <1>8, <2>6, <2>7 DEF t
    <3>. QED BY <1>8, <2>5, <2>7, <3>1
  <2>8. CASE j = pos + 1
    <3>1. was(i) \in 1 .. Len(Kept) /\ was(i) <= pos /\ slotTs'[sorted'[i]] = t(was(i))
      BY <1>1, <1>8, <2>6, <2>8 DEF t
    <3>. QED BY <1>8, <2>4, <2>8, <3>1
  <2>9. CASE i # pos + 1 /\ j # pos + 1
    <3>1. /\ was(i) \in 1 .. Len(Kept) /\ slotTs'[sorted'[i]] = t(was(i))
          /\ was(j) \in 1 .. Len(Kept) /\ slotTs'[sorted'[j]] = t(was(j))
          /\ was(i) < was(j)
      BY <1>1, <1>8, <2>6, <2>9 DEF t
    <3>. QED BY <2>1, <3>1
  <2>. QED BY <2>7, <2>8, <2>9
<1>. QED BY <1>3, <1>5, <1>6, <1>7, <1>9, <1>10

-----------------------------------------------------------------------------
(* Every action preserves the inductive invariant *)

(* Where the tasks are after one of them moves from label k to label l. *)
LEMMA GotoAt ==
  ASSUME pc \in [Tasks -> {"idle", "insert", "give", "take", "hold", "drain"}],
         NEW t \in Tasks, NEW l, Goto(t, l)
  PROVE  /\ \A u \in Tasks : pc'[u] = IF u = t THEN l ELSE pc[u]
         /\ At(l)' = At(l) \cup {t}
         /\ \A m : m # l => At(m)' = At(m) \ {t}
<1>1. \A u \in Tasks : pc'[u] = IF u = t THEN l ELSE pc[u]
  BY DEF Goto
<1>. QED BY <1>1 DEF At

LEMMA TasksDistinct ==
  /\ Producers \subseteq Tasks /\ Flushers \subseteq Tasks /\ Consumer \in Tasks
  /\ Consumer \notin Producers /\ \A f \in Flushers : f \notin Producers
BY BufferAssumption DEF Tasks

LEMMA InitIInv == Init => IInv
<1> SUFFICES ASSUME Init PROVE IInv
  OBVIOUS
<1>1. TypeOK
  <2>1. 0 \in AllTimestamps /\ MaxChunks \in Nat
    BY TsModAssumption, BufferAssumption DEF AllTimestamps
  <2>2. NoFrame \in [ts : AllTimestamps, done : 0 .. MaxChunks, of : 0 .. MaxChunks]
    BY <2>1 DEF NoFrame
  <2>3. 0 \in 0 .. Capacity
    BY CapacityType
  <2>4. <<>> \in Seq(Slots)
    OBVIOUS
  <2>. QED BY <2>1, <2>2, <2>3, <2>4 DEF Init, TypeOK
<1>2. \A t \in Tasks : pc[t] = "idle"
  BY DEF Init
<1>3. TaskInv
  BY <1>2, TasksDistinct DEF Init, TaskInv
<1>4. QueueInv
  BY CapacityType DEF Init, QueueInv
<1>5. SlotsPartitioned
  BY BufferAssumption DEF Init, SlotsPartitioned, IsInjective, ToSet
<1>6. PlayOrder
  BY DEF Init, PlayOrder
<1>. QED BY <1>1, <1>3, <1>4, <1>5, <1>6 DEF IInv

(* The queue's invariants read only these variables. *)
LEMMA QueueUnchanged ==
  ASSUME IInv, UNCHANGED <<sorted, free, slotTs, held>>
  PROVE  /\ QueueInv' /\ SlotsPartitioned' /\ PlayOrder'
BY DEF IInv, QueueInv, SlotsPartitioned, PlayOrder, Capacity, IsInjective, ToSet

LEMMA BeginFrameKeeps ==
  ASSUME IInv, NEW p \in Producers, BeginFrame(p)
  PROVE  IInv'
<1>1. PICK ts \in Timestamps, n \in 1 .. MaxChunks :
        /\ ChunkStamps(ts, n) \subseteq Timestamps
        /\ todo' = [todo EXCEPT ![p] = [ts |-> ts, done |-> 0, of |-> n]]
  BY DEF BeginFrame
<1>2. \A u \in Tasks : pc'[u] = IF u = p THEN "insert" ELSE pc[u]
  BY GotoAt, TasksDistinct DEF IInv, TypeOK, BeginFrame
<1>3. ts \in AllTimestamps /\ n \in 0 .. MaxChunks /\ 0 \in 0 .. MaxChunks /\ 0 < n
  BY BufferAssumption DEF Comparable
<1>4. TypeOK'
  <2>1. todo' \in [Producers -> [ts : AllTimestamps, done : 0 .. MaxChunks, of : 0 .. MaxChunks]]
    BY <1>1, <1>3 DEF IInv, TypeOK
  <2>2. pc' \in [Tasks -> {"idle", "insert", "give", "take", "hold", "drain"}]
    BY DEF IInv, TypeOK, BeginFrame, Goto
  <2>. QED BY <2>1, <2>2 DEF IInv, TypeOK, BeginFrame, Capacity
<1>5. TaskInv'
  <2>1. \A q \in Producers : todo'[q] = IF q = p THEN [ts |-> ts, done |-> 0, of |-> n] ELSE todo[q]
    BY <1>1 DEF IInv, TypeOK
  <2>2. held' = held
    BY DEF BeginFrame
  <2>. QED BY <1>1, <1>2, <1>3, <2>1, <2>2, TasksDistinct DEF IInv, TaskInv
<1>. QED BY <1>4, <1>5, QueueUnchanged DEF IInv, BeginFrame

LEMMA InsertChunkKeeps ==
  ASSUME IInv, NEW p \in Producers, InsertChunk(p)
  PROVE  IInv'
<1>1. PICK slot \in Pool, pos \in InsertPositions(Kept, ChunkTs(p)) :
        /\ sorted' = InsertAt(Kept, pos + 1, slot)
        /\ free' = Pool \ {slot}
        /\ slotTs' = [slotTs EXCEPT ![slot] = ChunkTs(p)]
  BY DEF InsertChunk
<1>2. /\ sorted' \in Seq(Slots) /\ free' \in SUBSET Slots
      /\ slotTs' \in [Slots -> AllTimestamps]
      /\ QueueInv' /\ SlotsPartitioned' /\ PlayOrder'
  BY <1>1, InsertKeepsQueue DEF InsertChunk
<1>3. TypeOK'
  <2>1. dataReady' \in 0 .. Capacity
    BY CapacityType DEF IInv, TypeOK, InsertChunk
  <2>2. pc' \in [Tasks -> {"idle", "insert", "give", "take", "hold", "drain"}]
    BY DEF IInv, TypeOK, InsertChunk, Goto
  <2>3. overlapped' \in BOOLEAN
    BY DEF InsertChunk
  <2>. QED BY <1>2, <2>1, <2>2, <2>3 DEF IInv, TypeOK, InsertChunk, Capacity
<1>4. TaskInv'
  <2>1. \A u \in Tasks : pc'[u] = IF u = p THEN "give" ELSE pc[u]
    BY GotoAt, TasksDistinct DEF IInv, TypeOK, InsertChunk
  <2>. QED BY <2>1, TasksDistinct DEF IInv, TaskInv, InsertChunk
<1>. QED BY <1>2, <1>3, <1>4 DEF IInv

LEMMA DropChunkKeeps ==
  ASSUME IInv, NEW p \in Producers, DropChunk(p)
  PROVE  IInv'
<1>1. \A u \in Tasks : pc'[u] = IF u = p THEN "idle" ELSE pc[u]
  BY GotoAt, TasksDistinct DEF IInv, TypeOK, DropChunk
<1>2. TypeOK'
  <2>1. NoFrame \in [ts : AllTimestamps, done : 0 .. MaxChunks, of : 0 .. MaxChunks]
    BY TsModAssumption, BufferAssumption DEF AllTimestamps, NoFrame
  <2>2. pc' \in [Tasks -> {"idle", "insert", "give", "take", "hold", "drain"}]
    BY DEF IInv, TypeOK, DropChunk, Goto
  <2>. QED BY <2>1, <2>2 DEF IInv, TypeOK, DropChunk, Capacity
<1>3. TaskInv'
  <2>1. \A q \in Producers : q # p => todo'[q] = todo[q]
    BY DEF IInv, TypeOK, DropChunk
  <2>. QED BY <1>1, <2>1, TasksDistinct DEF IInv, TaskInv, DropChunk
<1>. QED BY <1>2, <1>3, QueueUnchanged DEF IInv, DropChunk

LEMMA GiveTokenKeeps ==
  ASSUME IInv, NEW p \in Producers, GiveToken(p)
  PROVE  IInv'
<1>0. /\ todo[p] \in [ts : AllTimestamps, done : 0 .. MaxChunks, of : 0 .. MaxChunks]
      /\ todo[p].done < todo[p].of /\ MaxChunks \in Nat
      /\ ChunkStamps(todo[p].ts, todo[p].of) \subseteq Timestamps
  BY BufferAssumption DEF IInv, TypeOK, TaskInv, GiveToken
<1>1. CASE Left(p) > 1
  <2>1. /\ todo' = [todo EXCEPT ![p].done = @ + 1]
        /\ Goto(p, "insert")
    BY <1>1 DEF GiveToken, NextChunk
  <2>2. /\ \A q \in Producers \ {p} : todo'[q] = todo[q]
        /\ todo'[p] = [todo[p] EXCEPT !.done = @ + 1]
    BY <2>1 DEF IInv, TypeOK
  <2>3. /\ todo'[p].done = todo[p].done + 1 /\ todo'[p].of = todo[p].of
        /\ todo'[p].ts = todo[p].ts
        /\ todo'[p].done < todo'[p].of
        /\ todo'[p] \in [ts : AllTimestamps, done : 0 .. MaxChunks, of : 0 .. MaxChunks]
    BY <1>0, <1>1, <2>2 DEF Left
  <2>4. \A u \in Tasks : pc'[u] = IF u = p THEN "insert" ELSE pc[u]
    BY <2>1, GotoAt, TasksDistinct DEF IInv, TypeOK
  <2>5. TypeOK'
    <3>1. todo' \in [Producers -> [ts : AllTimestamps, done : 0 .. MaxChunks, of : 0 .. MaxChunks]]
      BY <2>1, <2>3 DEF IInv, TypeOK
    <3>2. pc' \in [Tasks -> {"idle", "insert", "give", "take", "hold", "drain"}]
      BY <2>1 DEF IInv, TypeOK, Goto
    <3>3. dataReady' \in 0 .. Capacity
      BY CapacityType DEF IInv, TypeOK, GiveToken
    <3>. QED BY <3>1, <3>2, <3>3 DEF IInv, TypeOK, GiveToken, Capacity
  <2>6. TaskInv'
    <3>1. ChunkStamps(todo'[p].ts, todo'[p].of) \subseteq Timestamps
      BY <1>0, <2>3
    <3>. QED BY <2>2, <2>3, <2>4, <3>1, TasksDistinct DEF IInv, TaskInv, GiveToken, ChunkStamps
  <2>. QED BY <2>5, <2>6, QueueUnchanged DEF IInv, GiveToken
<1>2. CASE ~(Left(p) > 1)
  <2>1. /\ todo' = [todo EXCEPT ![p] = NoFrame]
        /\ Goto(p, "idle")
    BY <1>2 DEF GiveToken, NextChunk
  <2>2. \A u \in Tasks : pc'[u] = IF u = p THEN "idle" ELSE pc[u]
    BY <2>1, GotoAt, TasksDistinct DEF IInv, TypeOK
  <2>3. TypeOK'
    <3>1. NoFrame \in [ts : AllTimestamps, done : 0 .. MaxChunks, of : 0 .. MaxChunks]
      BY TsModAssumption, BufferAssumption DEF AllTimestamps, NoFrame
    <3>2. pc' \in [Tasks -> {"idle", "insert", "give", "take", "hold", "drain"}]
      BY <2>1 DEF IInv, TypeOK, Goto
    <3>3. dataReady' \in 0 .. Capacity
      BY CapacityType DEF IInv, TypeOK, GiveToken
    <3>. QED BY <2>1, <3>1, <3>2, <3>3 DEF IInv, TypeOK, GiveToken, Capacity
  <2>4. TaskInv'
    <3>1. \A q \in Producers : q # p => todo'[q] = todo[q]
      BY <2>1 DEF IInv, TypeOK
    <3>. QED BY <2>2, <3>1, TasksDistinct DEF IInv, TaskInv, GiveToken
  <2>. QED BY <2>3, <2>4, QueueUnchanged DEF IInv, GiveToken
<1>. QED BY <1>1, <1>2

LEMMA ConsumeKeeps ==
  ASSUME IInv, Consume
  PROVE  IInv'
<1>. /\ Consumer \in Tasks /\ pc \in [Tasks -> {"idle", "insert", "give", "take", "hold", "drain"}]
  BY TasksDistinct DEF IInv, TypeOK
<1>1. CASE TakeToken
  <2>1. \A u \in Tasks : pc'[u] = IF u = Consumer THEN "take" ELSE pc[u]
    BY <1>1, GotoAt DEF TakeToken
  <2>2. TypeOK'
    <3>1. pc' \in [Tasks -> {"idle", "insert", "give", "take", "hold", "drain"}]
      BY <1>1 DEF TakeToken, Goto
    <3>2. dataReady' \in 0 .. Capacity /\ overlapped' \in BOOLEAN
      BY <1>1, CapacityType DEF IInv, TypeOK, TakeToken
    <3>. QED BY <1>1, <3>1, <3>2 DEF IInv, TypeOK, TakeToken, Capacity
  <2>3. TaskInv'
    BY <1>1, <2>1, TasksDistinct DEF IInv, TaskInv, TakeToken
  <2>. QED BY <1>1, <2>2, <2>3, QueueUnchanged DEF IInv, TakeToken
<1>2. CASE TakeNothing
  <2>1. \A u \in Tasks : pc'[u] = IF u = Consumer THEN "idle" ELSE pc[u]
    BY <1>2, GotoAt DEF TakeNothing
  <2>2. TypeOK'
    <3>1. pc' \in [Tasks -> {"idle", "insert", "give", "take", "hold", "drain"}]
      BY <1>2 DEF TakeNothing, Goto
    <3>. QED BY <1>2, <3>1 DEF IInv, TypeOK, TakeNothing, Capacity
  <2>3. TaskInv'
    BY <1>2, <2>1, TasksDistinct DEF IInv, TaskInv, TakeNothing
  <2>. QED BY <1>2, <2>2, <2>3, QueueUnchanged DEF IInv, TakeNothing
<1>3. CASE TakeOldest
  <2>1. \A u \in Tasks : pc'[u] = IF u = Consumer THEN "hold" ELSE pc[u]
    BY <1>3, GotoAt DEF TakeOldest
  <2>2. /\ held' \in Slots /\ held' \in ToSet(sorted)
        /\ sorted' \in Seq(Slots)
        /\ Len(sorted) \in Nat \ {0} /\ Len(sorted') = Len(sorted) - 1
        /\ \A j \in 1 .. Len(sorted) - 1 : sorted'[j] = sorted[j + 1]
        /\ IsInjective(sorted')
        /\ ToSet(sorted') = ToSet(sorted) \ {held'}
    BY <1>3, TailProperties DEF IInv, TypeOK, SlotsPartitioned, TakeOldest
  <2>3. held = NoSlot /\ NoSlot \notin Slots
    BY <1>3, BufferAssumption DEF IInv, TaskInv, TakeOldest
  <2>4. TypeOK'
    <3>1. pc' \in [Tasks -> {"idle", "insert", "give", "take", "hold", "drain"}]
      BY <1>3 DEF TakeOldest, Goto
    <3>. QED BY <1>3, <2>2, <3>1 DEF IInv, TypeOK, TakeOldest, Capacity
  <2>5. TaskInv'
    BY <1>3, <2>1, <2>2, <2>3, TasksDistinct DEF IInv, TaskInv, TakeOldest
  <2>6. QueueInv'
    <3>1. Capacity' = Capacity /\ Len(sorted') <= Capacity
      BY <2>2, CapacityType DEF IInv, QueueInv, Capacity
    <3>. QED BY <1>3, <2>2, <3>1 DEF IInv, QueueInv, TakeOldest
  <2>7. SlotsPartitioned'
    <3>1. ToSet(sorted)' = ToSet(sorted')
      BY DEF ToSet
    <3>2. free' = free
      BY <1>3 DEF TakeOldest
    <3>. QED BY <2>2, <2>3, <3>1, <3>2 DEF IInv, SlotsPartitioned, IsInjective
  <2>8. PlayOrder'
    <3> SUFFICES ASSUME NEW i \in 1 .. Len(sorted) - 1, NEW j \in 1 .. Len(sorted) - 1, i < j
                 PROVE  TsCmp(slotTs[sorted'[i]], slotTs[sorted'[j]]) <= 0
      BY <1>3, <2>2 DEF PlayOrder, TakeOldest
    <3>1. /\ i + 1 \in 1 .. Len(sorted) /\ j + 1 \in 1 .. Len(sorted) /\ i + 1 < j + 1
          /\ sorted'[i] = sorted[i + 1] /\ sorted'[j] = sorted[j + 1]
      BY <2>2
    <3>. QED BY <3>1 DEF IInv, PlayOrder
  <2>. QED BY <2>4, <2>5, <2>6, <2>7, <2>8 DEF IInv
<1>4. CASE ReturnSlot
  <2>1. \A u \in Tasks : pc'[u] = IF u = Consumer THEN "idle" ELSE pc[u]
    BY <1>4, GotoAt DEF ReturnSlot
  <2>2. held \in Slots /\ NoSlot \notin Slots
    BY <1>4, BufferAssumption DEF IInv, TypeOK, TaskInv, ReturnSlot
  <2>3. TypeOK'
    <3>1. pc' \in [Tasks -> {"idle", "insert", "give", "take", "hold", "drain"}]
      BY <1>4 DEF ReturnSlot, Goto
    <3>. QED BY <1>4, <2>2, <3>1 DEF IInv, TypeOK, ReturnSlot, Capacity
  <2>4. TaskInv'
    BY <1>4, <2>1, TasksDistinct DEF IInv, TaskInv, ReturnSlot
  <2>5. SlotsPartitioned'
    <3>1. sorted' = sorted /\ free' = free \cup {held} /\ held' = NoSlot
      BY <1>4 DEF ReturnSlot
    <3>2. ToSet(sorted) \subseteq Slots /\ ToSet(sorted)' = ToSet(sorted)
      BY <3>1 DEF IInv, SlotsPartitioned, ToSet
    <3>. QED BY <2>2, <3>1, <3>2 DEF IInv, SlotsPartitioned, IsInjective
  <2>6. QueueInv' /\ PlayOrder'
    BY <1>4 DEF IInv, QueueInv, PlayOrder, ReturnSlot, Capacity
  <2>. QED BY <2>3, <2>4, <2>5, <2>6 DEF IInv
<1>. QED BY <1>1, <1>2, <1>3, <1>4 DEF Consume

LEMMA FlushKeeps ==
  ASSUME IInv, NEW f \in Flushers, Flush(f)
  PROVE  IInv'
<1>. /\ f \in Tasks /\ pc \in [Tasks -> {"idle", "insert", "give", "take", "hold", "drain"}]
  BY TasksDistinct DEF IInv, TypeOK
<1>1. CASE FlushSlots(f)
  <2>1. \A u \in Tasks : pc'[u] = IF u = f THEN "drain" ELSE pc[u]
    BY <1>1, GotoAt DEF FlushSlots
  <2>2. /\ sorted' = <<>> /\ free' = free \cup ToSet(sorted) /\ held' = held
        /\ ToSet(sorted) \subseteq Slots /\ ToSet(sorted)' = {}
        /\ IsInjective(sorted)'
    BY <1>1 DEF FlushSlots, IInv, SlotsPartitioned, ToSet, IsInjective
  <2>3. TypeOK'
    <3>1. pc' \in [Tasks -> {"idle", "insert", "give", "take", "hold", "drain"}]
      BY <1>1 DEF FlushSlots, Goto
    <3>2. overlapped' \in BOOLEAN /\ sorted' \in Seq(Slots)
      BY <1>1, <2>2 DEF FlushSlots
    <3>. QED BY <1>1, <2>2, <3>1, <3>2 DEF IInv, TypeOK, FlushSlots, Capacity
  <2>4. TaskInv'
    BY <1>1, <2>1, TasksDistinct DEF IInv, TaskInv, FlushSlots
  <2>5. SlotsPartitioned'
    BY <2>2 DEF IInv, SlotsPartitioned
  <2>6. QueueInv' /\ PlayOrder'
    BY <2>2, CapacityType DEF QueueInv, PlayOrder, Capacity
  <2>. QED BY <2>3, <2>4, <2>5, <2>6 DEF IInv
<1>2. CASE DrainToken(f)
  <2>1. TypeOK'
    <3>1. dataReady' \in 0 .. Capacity
      BY <1>2, CapacityType DEF IInv, TypeOK, DrainToken
    <3>. QED BY <1>2, <3>1 DEF IInv, TypeOK, DrainToken, Capacity
  <2>2. TaskInv'
    BY <1>2 DEF IInv, TaskInv, DrainToken
  <2>. QED BY <1>2, <2>1, <2>2, QueueUnchanged DEF IInv, DrainToken
<1>3. CASE DrainDone(f)
  <2>1. \A u \in Tasks : pc'[u] = IF u = f THEN "idle" ELSE pc[u]
    BY <1>3, GotoAt DEF DrainDone
  <2>2. TypeOK'
    <3>1. pc' \in [Tasks -> {"idle", "insert", "give", "take", "hold", "drain"}]
      BY <1>3 DEF DrainDone, Goto
    <3>. QED BY <1>3, <3>1 DEF IInv, TypeOK, DrainDone, Capacity
  <2>3. TaskInv'
    BY <1>3, <2>1, TasksDistinct DEF IInv, TaskInv, DrainDone
  <2>. QED BY <1>3, <2>2, <2>3, QueueUnchanged DEF IInv, DrainDone
<1>. QED BY <1>1, <1>2, <1>3 DEF Flush

LEMMA NextKeepsIInv == IInv /\ [Next]_vars => IInv'
<1> SUFFICES ASSUME IInv, [Next]_vars PROVE IInv'
  OBVIOUS
<1>1. ASSUME NEW p \in Producers, Produce(p) PROVE IInv'
  BY <1>1, BeginFrameKeeps, InsertChunkKeeps, DropChunkKeeps, GiveTokenKeeps DEF Produce
<1>2. CASE UNCHANGED vars
  BY <1>2, QueueUnchanged DEF IInv, TypeOK, TaskInv, vars, Capacity
<1>. QED BY <1>1, <1>2, ConsumeKeeps, FlushKeeps DEF Next

THEOREM Invariance == Spec => []IInv
BY InitIInv, NextKeepsIInv, PTL DEF Spec

(* The variables of the buffer keep their types whatever the tasks do. *)
THEOREM TypeCorrect == Spec => []TypeOK
<1>1. IInv => TypeOK
  BY DEF IInv
<1>. QED BY <1>1, Invariance, PTL

(* No interleaving of producers, the player and flushes leaks a slot of    *)
(* the pool, pushes one twice or frees the one being read.                 *)
THEOREM Partitioned == Spec => []SlotsPartitioned
<1>1. IInv => SlotsPartitioned
  BY DEF IInv
<1>. QED BY <1>1, Invariance, PTL

(* The index array of the buffer stays in timestamp order across the wrap, *)
(* for every width of timestamp and every comparable set in circulation.   *)
THEOREM Ordered == Spec => []PlayOrder
<1>1. IInv => PlayOrder
  BY DEF IInv
<1>. QED BY <1>1, Invariance, PTL

-----------------------------------------------------------------------------
(* The binary search.  L stands for the positions of frames before a       *)
(* timestamp, n for the length of the queue.                               *)

Ranges(n) == [lo : 0 .. n, hi : 0 .. n]
Middle(r) == r.lo + (r.hi - r.lo) \div 2

(* f halves every range: what the recursive function of BinarySearch does. *)
Halves(f, n, L) ==
  f = [r \in Ranges(n) |->
         IF r.lo >= r.hi THEN r.lo
         ELSE IF Middle(r) + 1 \in L
         THEN f[[lo |-> Middle(r) + 1, hi |-> r.hi]]
         ELSE f[[lo |-> r.lo, hi |-> Middle(r)]]]

(* Where in a range the frames before the timestamp end.                   *)
Ends(L, lo, hi) == {pos \in lo .. hi : (pos > lo => pos \in L) /\ (pos < hi => pos + 1 \notin L)}

DownClosed(n, L) == L \subseteq 1 .. n /\ \A i \in 1 .. n, j \in L : i < j => i \in L

(* A set of natural numbers has a least member: of the finite sets 0 .. x  *)
(* one has no other below it.                                              *)
LEMMA HasLeast ==
  ASSUME NEW S, S \subseteq Nat, S # {}
  PROVE  \E x \in S : \A y \in S : x <= y
<1> DEFINE UpTo(x) == 0 .. x
           T == {UpTo(x) : x \in S}
           R == StrictSubsetOrdering(Nat)
<1>1. \A x \in S : UpTo(x) \in FiniteSubsetsOf(Nat)
  <2> SUFFICES ASSUME NEW x \in S PROVE UpTo(x) \in FiniteSubsetsOf(Nat)
    OBVIOUS
  <2>1. x \in Nat /\ 0 \in Int
    OBVIOUS
  <2>2. IsFiniteSet(0 .. x)
    BY <2>1, FS_Interval
  <2>3. 0 .. x \in SUBSET Nat
    BY <2>1
  <2> QED
    BY <2>2, <2>3 DEF FiniteSubsetsOf
<1>2. T \subseteq FiniteSubsetsOf(Nat) /\ T # {}
  BY <1>1
<1>3. IsWellFoundedOn(R, FiniteSubsetsOf(Nat))
  BY FS_StrictSubsetOrderingWellFounded
<1> HIDE DEF T, R
<1>4. PICK s \in T : \A t \in T : ~ (<<t, s>> \in R)
  BY <1>2, <1>3, WFMin
<1>5. PICK x \in S : s = UpTo(x)
  BY <1>4 DEF T
<1>6. \A y \in S : x <= y
  <2> SUFFICES ASSUME NEW y \in S, y < x PROVE FALSE
    OBVIOUS
  <2>1. x \in Nat /\ y \in Nat
    OBVIOUS
  <2>2. UpTo(y) \subseteq UpTo(x) /\ x \in UpTo(x) /\ x \notin UpTo(y)
    BY <2>1, y < x
  <2>3. UpTo(y) \in SUBSET Nat /\ UpTo(x) \in SUBSET Nat
    BY <2>1
  <2>4. UpTo(y) \in T
    BY DEF T
  <2> HIDE DEF UpTo
  <2>5. <<UpTo(y), UpTo(x)>> \in R
    BY <2>2, <2>3 DEF R, StrictSubsetOrdering
  <2> QED
    BY <2>4, <2>5, <1>4, <1>5
<1> QED
  BY <1>6

(* The middle of a range that is not empty, and its halves.                *)
LEMMA MiddleIsInside ==
  ASSUME NEW n \in Nat, NEW r \in Ranges(n), r.lo < r.hi
  PROVE  /\ Middle(r) \in r.lo .. r.hi - 1 /\ Middle(r) + 1 \in 1 .. n
         /\ [lo |-> Middle(r) + 1, hi |-> r.hi] \in Ranges(n)
         /\ [lo |-> r.lo, hi |-> Middle(r)] \in Ranges(n)
<1>1. r.lo \in 0 .. n /\ r.hi \in 0 .. n
  BY DEF Ranges
<1> DEFINE d == r.hi - r.lo
           h == d \div 2
<1>2. d \in Nat \ {0}
  BY <1>1
<1> HIDE DEF d
<1>3. h \in Int /\ d % 2 \in 0 .. 1 /\ d = 2 * h + (d % 2)
  BY <1>2
<1> HIDE DEF h
<1>4. h \in 0 .. d - 1
  BY <1>2, <1>3
<1>5. Middle(r) = r.lo + h
  BY DEF Middle, h, d
<1>6. Middle(r) \in r.lo .. r.hi - 1
  BY <1>1, <1>4, <1>5 DEF d
<1> QED
  BY <1>1, <1>6 DEF Ranges

(* Frames before the timestamp end somewhere in every range,               *)
LEMMA EndExists ==
  ASSUME NEW L, NEW lo \in Nat, NEW hi \in Nat, lo <= hi
  PROVE  \E pos \in lo .. hi : pos \in Ends(L, lo, hi)
<1> DEFINE S == {pos \in lo .. hi : pos < hi => pos + 1 \notin L}
<1>1. S \subseteq Nat /\ hi \in S
  OBVIOUS
<1>2. S # {}
  BY <1>1
<1> HIDE DEF S
<1>3. PICK x \in S : \A y \in S : x <= y
  BY <1>1, <1>2, HasLeast
<1>4. x \in lo .. hi /\ (x < hi => x + 1 \notin L)
  BY DEF S
<1>5. ASSUME x > lo PROVE x \in L
  <2> SUFFICES ASSUME x \notin L PROVE FALSE
    OBVIOUS
  <2>1. x - 1 \in lo .. hi /\ (x - 1) + 1 = x
    BY <1>4, <1>5
  <2>2. x - 1 \in S
    BY <2>1 DEF S
  <2>3. x <= x - 1
    BY <1>3, <2>2
  <2> QED
    BY <1>4, <2>3
<1> QED
  BY <1>4, <1>5 DEF Ends

(* and at one place only.                                                  *)
LEMMA EndIsUnique ==
  ASSUME NEW n \in Nat, NEW L, DownClosed(n, L), NEW lo \in 0 .. n, NEW hi \in 0 .. n,
         NEW a \in Ends(L, lo, hi), NEW b \in Ends(L, lo, hi)
  PROVE  a = b
<1>1. a \in lo .. hi /\ b \in lo .. hi /\ a \in Int /\ b \in Int
  BY DEF Ends
<1>2. ASSUME NEW x \in Ends(L, lo, hi), NEW y \in Ends(L, lo, hi), x < y PROVE FALSE
  <2>1. x \in lo .. hi /\ y \in lo .. hi /\ (y > lo => y \in L) /\ (x < hi => x + 1 \notin L)
    BY DEF Ends
  <2>2. y \in L /\ x + 1 \notin L
    BY <1>2, <2>1
  <2>3. x + 1 \in 1 .. n /\ (x + 1 < y \/ x + 1 = y)
    BY <1>2, <2>1
  <2> QED
    BY <2>2, <2>3 DEF DownClosed
<1>3. ~(a < b) /\ ~(b < a)
  BY <1>2
<1> QED
  BY <1>1, <1>3

(* Where they end in the half that is searched they end in the whole.      *)
LEMMA HalfEnds ==
  ASSUME NEW n \in Nat, NEW L, DownClosed(n, L), NEW r \in Ranges(n), r.lo < r.hi
  PROVE  /\ Middle(r) + 1 \in L => Ends(L, Middle(r) + 1, r.hi) \subseteq Ends(L, r.lo, r.hi)
         /\ Middle(r) + 1 \notin L => Ends(L, r.lo, Middle(r)) \subseteq Ends(L, r.lo, r.hi)
<1>1. r.lo \in 0 .. n /\ r.hi \in 0 .. n /\ Middle(r) \in r.lo .. r.hi - 1
  BY MiddleIsInside DEF Ranges
<1>2. ASSUME Middle(r) + 1 \in L, NEW pos \in Ends(L, Middle(r) + 1, r.hi)
      PROVE  pos \in Ends(L, r.lo, r.hi)
  <2>1. /\ pos \in Middle(r) + 1 .. r.hi /\ (pos > Middle(r) + 1 => pos \in L)
        /\ (pos < r.hi => pos + 1 \notin L)
    BY DEF Ends
  <2>2. pos \in r.lo .. r.hi /\ (pos = Middle(r) + 1 \/ pos > Middle(r) + 1)
    BY <1>1, <2>1
  <2> QED
    BY <1>2, <2>1, <2>2 DEF Ends
<1>3. ASSUME Middle(r) + 1 \notin L, NEW pos \in Ends(L, r.lo, Middle(r))
      PROVE  pos \in Ends(L, r.lo, r.hi)
  <2>1. /\ pos \in r.lo .. Middle(r) /\ (pos > r.lo => pos \in L)
        /\ (pos < Middle(r) => pos + 1 \notin L)
    BY DEF Ends
  <2>2. pos \in r.lo .. r.hi /\ (pos = Middle(r) \/ pos < Middle(r))
    BY <1>1, <2>1
  <2> QED
    BY <1>3, <2>1, <2>2 DEF Ends
<1> QED
  BY <1>2, <1>3

(* There is a function that halves every range ...                         *)
LEMMA SearchExists ==
  ASSUME NEW n \in Nat, NEW L, DownClosed(n, L)
  PROVE  \E f : Halves(f, n, L)
<1> DEFINE End(lo, hi) == CHOOSE pos : pos \in Ends(L, lo, hi)
           F == [r \in Ranges(n) |-> IF r.lo >= r.hi THEN r.lo ELSE End(r.lo, r.hi)]
           G == [r \in Ranges(n) |->
                   IF r.lo >= r.hi THEN r.lo
                   ELSE IF Middle(r) + 1 \in L
                   THEN F[[lo |-> Middle(r) + 1, hi |-> r.hi]]
                   ELSE F[[lo |-> r.lo, hi |-> Middle(r)]]]
<1>1. ASSUME NEW r \in Ranges(n), r.lo <= r.hi PROVE F[r] \in Ends(L, r.lo, r.hi)
  <2>1. r.lo \in Nat /\ r.hi \in Nat
    BY DEF Ranges
  <2>2. CASE r.lo >= r.hi
    <3>1. F[r] = r.lo /\ r.lo = r.hi
      BY <1>1, <2>1, <2>2
    <3>2. r.lo \in r.lo .. r.lo /\ ~(r.lo > r.lo) /\ ~(r.lo < r.lo)
      BY <2>1
    <3> QED
      BY <3>1, <3>2 DEF Ends
  <2>3. CASE ~(r.lo >= r.hi)
    <3>1. \E pos : pos \in Ends(L, r.lo, r.hi)
      BY <1>1, <2>1, EndExists
    <3>2. End(r.lo, r.hi) \in Ends(L, r.lo, r.hi)
      BY <3>1
    <3> QED
      BY <2>3, <3>2
  <2> QED
    BY <2>2, <2>3
<1> HIDE DEF End
<1>2. ASSUME NEW r \in Ranges(n) PROVE F[r] = G[r]
  <2>1. r.lo \in 0 .. n /\ r.hi \in 0 .. n
    BY DEF Ranges
  <2>2. CASE r.lo >= r.hi
    BY <2>2
  <2>3. CASE r.lo < r.hi
    <3> DEFINE left == [lo |-> r.lo, hi |-> Middle(r)]
               right == [lo |-> Middle(r) + 1, hi |-> r.hi]
    <3>1. /\ left \in Ranges(n) /\ right \in Ranges(n)
          /\ left.lo <= left.hi /\ right.lo <= right.hi
      BY <2>1, <2>3, MiddleIsInside
    <3>2. F[left] \in Ends(L, r.lo, Middle(r)) /\ F[right] \in Ends(L, Middle(r) + 1, r.hi)
      BY <1>1, <3>1
    <3>3. F[r] \in Ends(L, r.lo, r.hi)
      BY <1>1, <2>1, <2>3
    <3>4. G[r] = IF Middle(r) + 1 \in L THEN F[right] ELSE F[left]
      <4> HIDE DEF F
      <4> QED
        BY <2>1, <2>3
    <3>5. G[r] \in Ends(L, r.lo, r.hi)
      <4> HIDE DEF F, G
      <4> QED
        BY <2>3, <3>2, <3>4, HalfEnds
    <3> HIDE DEF F, G
    <3> QED
      BY <2>1, <3>3, <3>5, EndIsUnique
  <2> QED
    BY <2>1, <2>2, <2>3
<1>3. F = G
  BY <1>2
<1>4. Halves(F, n, L)
  <2> HIDE DEF F
  <2> QED
    BY <1>3 DEF Halves
<1> QED
  BY <1>4

(* ... and any such function finds the end: of the ranges in which it did  *)
(* not, none would be shortest.                                            *)
LEMMA SearchFindsEnd ==
  ASSUME NEW n \in Nat, NEW L, DownClosed(n, L), NEW f, Halves(f, n, L),
         NEW r \in Ranges(n), r.lo <= r.hi
  PROVE  f[r] \in Ends(L, r.lo, r.hi)
<1> DEFINE Wrong(x) == x.lo <= x.hi /\ f[x] \notin Ends(L, x.lo, x.hi)
           W == {x.hi - x.lo : x \in {y \in Ranges(n) : Wrong(y)}}
<1>1. W \subseteq Nat
  BY DEF Ranges
<1> SUFFICES ASSUME W # {} PROVE FALSE
  OBVIOUS
<1>2. PICK d \in W : \A e \in W : d <= e
  <2> HIDE DEF W
  <2> QED
    BY <1>1, HasLeast
<1>3. PICK x \in Ranges(n) : Wrong(x) /\ d = x.hi - x.lo
  OBVIOUS
<1>4. ASSUME NEW y \in Ranges(n), y.lo <= y.hi, y.hi - y.lo < x.hi - x.lo
      PROVE  f[y] \in Ends(L, y.lo, y.hi)
  <2> SUFFICES ASSUME Wrong(y) PROVE FALSE
    BY <1>4
  <2>1. y.hi - y.lo \in W
    OBVIOUS
  <2>2. d <= y.hi - y.lo
    BY <1>2, <2>1
  <2>3. y.lo \in Int /\ y.hi \in Int /\ x.lo \in Int /\ x.hi \in Int
    BY DEF Ranges
  <2> QED
    BY <1>3, <1>4, <2>2, <2>3
<1> HIDE DEF W
<1>5. x.lo \in 0 .. n /\ x.hi \in 0 .. n /\ x.lo <= x.hi /\ f[x] \notin Ends(L, x.lo, x.hi)
  BY <1>3 DEF Ranges
<1>6. f[x] = IF x.lo >= x.hi THEN x.lo
             ELSE IF Middle(x) + 1 \in L
             THEN f[[lo |-> Middle(x) + 1, hi |-> x.hi]]
             ELSE f[[lo |-> x.lo, hi |-> Middle(x)]]
  BY Zenon DEF Halves
<1>7. CASE x.lo = x.hi
  <2>1. f[x] = x.lo /\ x.lo \in x.lo .. x.lo /\ ~(x.lo > x.lo) /\ ~(x.lo < x.lo)
    BY <1>5, <1>6, <1>7
  <2> QED
    BY <1>5, <1>7, <2>1 DEF Ends
<1>8. CASE x.lo < x.hi
  <2> DEFINE left == [lo |-> x.lo, hi |-> Middle(x)]
             right == [lo |-> Middle(x) + 1, hi |-> x.hi]
  <2>1. Middle(x) \in x.lo .. x.hi - 1 /\ left \in Ranges(n) /\ right \in Ranges(n)
    BY <1>8, MiddleIsInside
  <2>2. f[left] \in Ends(L, left.lo, left.hi)
    <3>1. left.lo <= left.hi /\ left.hi - left.lo < x.hi - x.lo
      BY <1>5, <2>1
    <3> QED
      BY <1>4, <2>1, <3>1
  <2>3. f[right] \in Ends(L, right.lo, right.hi)
    <3>1. right.lo <= right.hi /\ right.hi - right.lo < x.hi - x.lo
      BY <1>5, <2>1
    <3> QED
      BY <1>4, <2>1, <3>1
  <2>4. f[x] = IF Middle(x) + 1 \in L THEN f[right] ELSE f[left]
    BY <1>5, <1>6, <1>8
  <2>5. f[x] \in Ends(L, x.lo, x.hi)
    BY <1>8, <2>2, <2>3, <2>4, HalfEnds
  <2> QED
    BY <1>5, <2>5
<1> QED
  BY <1>5, <1>7, <1>8

(* The search of the code halves, with the frames before ts for L, and so  *)
(* it stops at the one place where a frame can be inserted.                *)
LEMMA SearchIsInsertPosition ==
  ASSUME IInv, NEW ts \in Timestamps
  PROVE  InsertPositions(sorted, ts) = {BinarySearch(sorted, ts)}
<1> DEFINE n == Len(sorted)
           L == {i \in 1 .. n : TsCmp(slotTs[sorted[i]], ts) < 0}
           Half(f, r) == IF r.lo >= r.hi THEN r.lo
                         ELSE IF TsCmp(slotTs[sorted[Middle(r) + 1]], ts) < 0
                         THEN f[[lo |-> Middle(r) + 1, hi |-> r.hi]]
                         ELSE f[[lo |-> r.lo, hi |-> Middle(r)]]
           IsSearch(f) == f = [r \in Ranges(n) |-> Half(f, r)]
           search == CHOOSE f : IsSearch(f)
<1>1. n \in Nat /\ \A i \in 1 .. n : slotTs[sorted[i]] \in Timestamps
  <2>1. sorted \in Seq(Slots)
    BY DEF IInv, TypeOK
  <2> QED
    BY <2>1, LenProperties DEF IInv, QueueInv, ToSet
<1>2. ts \in AllTimestamps /\ \A i \in 1 .. n : TsCmp(slotTs[sorted[i]], ts) \in Int
  <2>1. Timestamps \subseteq AllTimestamps
    BY BufferAssumption DEF Comparable
  <2> QED
    BY <1>1, <2>1, TsCmpType
<1>3. DownClosed(n, L)
  <2> SUFFICES ASSUME NEW i \in 1 .. n, NEW j \in L, i < j PROVE i \in L
    BY DEF DownClosed
  <2> DEFINE a == slotTs[sorted[i]]
             b == slotTs[sorted[j]]
  <2>1. j \in 1 .. n /\ TsCmp(b, ts) < 0
    OBVIOUS
  <2>2. a \in Timestamps /\ b \in Timestamps
    BY <1>1, <2>1
  <2>3. TsCmp(a, b) <= 0
    BY <2>1 DEF IInv, PlayOrder
  <2>4. TsCmp(a, ts) \in Int
    BY <1>2
  <2> HIDE DEF a, b
  <2>5. TsCmp(a, ts) < 0
    <3> SUFFICES ASSUME TsCmp(a, ts) >= 0 PROVE FALSE
      BY <2>4
    <3>1. TsCmp(ts, a) <= 0
      BY <2>2, BufferAssumption DEF Comparable
    <3>2. TsCmp(ts, b) <= 0
      BY <2>2, <2>3, <3>1, BufferAssumption DEF Comparable
    <3>3. TsCmp(ts, b) > 0
      BY <2>1, <2>2, BufferAssumption DEF Comparable
    <3>4. TsCmp(ts, b) \in Int
      BY <1>2, <2>2, TsCmpType, BufferAssumption DEF Comparable
    <3> QED
      BY <3>2, <3>3, <3>4
  <2> QED
    BY <2>5 DEF a
<1>4. ASSUME NEW f PROVE IsSearch(f) <=> Halves(f, n, L)
  <2>1. ASSUME NEW r \in Ranges(n)
        PROVE  Half(f, r) = IF r.lo >= r.hi THEN r.lo
                            ELSE IF Middle(r) + 1 \in L
                            THEN f[[lo |-> Middle(r) + 1, hi |-> r.hi]]
                            ELSE f[[lo |-> r.lo, hi |-> Middle(r)]]
    <3>1. CASE r.lo >= r.hi
      BY <3>1
    <3>2. CASE r.lo < r.hi
      <4>1. Middle(r) + 1 \in 1 .. n
        BY <1>1, <3>2, MiddleIsInside
      <4>2. Middle(r) + 1 \in L <=> TsCmp(slotTs[sorted[Middle(r) + 1]], ts) < 0
        BY <4>1
      <4> QED
        BY <4>2
    <3>3. r.lo \in Int /\ r.hi \in Int
      BY DEF Ranges
    <3> QED
      BY <3>1, <3>2, <3>3
  <2> HIDE DEF Half, L
  <2> QED
    BY <2>1 DEF Halves
<1>5. BinarySearch(sorted, ts) = search[[lo |-> 0, hi |-> n]]
  BY Zenon DEF BinarySearch, Ranges, Middle
<1> HIDE DEF IsSearch
<1>6. Halves(search, n, L)
  <2>1. \E f : IsSearch(f)
    BY <1>1, <1>3, <1>4, SearchExists
  <2>2. IsSearch(search)
    BY <2>1
  <2> QED
    BY <1>4, <2>2
<1> HIDE DEF search
<1> DEFINE pos == BinarySearch(sorted, ts)
<1>7. pos \in Ends(L, 0, n)
  <2> DEFINE r == [lo |-> 0, hi |-> n]
  <2>1. r \in Ranges(n) /\ r.lo = 0 /\ r.hi = n /\ r.lo <= r.hi
    BY <1>1 DEF Ranges
  <2> HIDE DEF r, n, L
  <2>2. search[r] \in Ends(L, r.lo, r.hi)
    BY <1>1, <1>3, <1>6, <2>1, SearchFindsEnd
  <2> QED
    BY <1>5, <2>1, <2>2 DEF r
<1>8. InsertPositions(sorted, ts) = Ends(L, 0, n)
  <2> SUFFICES ASSUME NEW p \in 0 .. n
               PROVE  /\ (p > 0 => TsCmp(slotTs[sorted[p]], ts) < 0) <=> (p > 0 => p \in L)
                      /\ (p < n => TsCmp(slotTs[sorted[p + 1]], ts) >= 0) <=> (p < n => p + 1 \notin L)
    BY DEF InsertPositions, Ends
  <2>1. p > 0 => p \in 1 .. n
    BY <1>1
  <2>2. p < n => p + 1 \in 1 .. n
    BY <1>1
  <2>3. p < n => TsCmp(slotTs[sorted[p + 1]], ts) \in Int
    BY <1>2, <2>2
  <2>4. p > 0 => (TsCmp(slotTs[sorted[p]], ts) < 0 <=> p \in L)
    BY <2>1
  <2>5. p < n => (TsCmp(slotTs[sorted[p + 1]], ts) >= 0 <=> p + 1 \notin L)
    BY <2>2, <2>3
  <2> QED
    BY <2>4, <2>5
<1>9. \A q \in Ends(L, 0, n) : q = pos
  <2>1. 0 \in 0 .. n /\ n \in 0 .. n
    BY <1>1
  <2> HIDE DEF n, L, pos
  <2> QED
    BY <1>1, <1>3, <1>7, <2>1, EndIsUnique
<1> QED
  BY <1>7, <1>8, <1>9

(* The binary search of sorted_insert_pos stops at the one position that   *)
(* keeps sorted[] sorted, for every length of the queue.                   *)
THEOREM SearchIsCorrect == Spec => []SearchFindsPosition
<1>1. IInv => SearchFindsPosition
  BY SearchIsInsertPosition DEF SearchFindsPosition
<1>. QED BY <1>1, Invariance, PTL

-----------------------------------------------------------------------------
(* The semaphore *)

(* SemaphoreBalanced is not inductive: a flush that overlapped nobody must *)
(* find the buffer untouched until its drain is over.                      *)
SyncInv ==
  ~overlapped =>
    /\ At("drain") # {} => sorted = <<>> /\ At("give") = {} /\ At("take") = {}
    /\ At("drain") = {} =>
         dataReady + Cardinality(At("give")) + Cardinality(At("take")) = Len(sorted)

(* The tasks at these labels are finite in number: all the producers but   *)
(* the one that is elsewhere, and the player.                              *)
LEMMA LabelCardinality ==
  ASSUME IInv
  PROVE  /\ At("give") \in SUBSET Producers /\ IsFiniteSet(At("give"))
         /\ Cardinality(At("give")) \in Nat
         /\ Cardinality(At("give")) <= Cardinality(Producers)
         /\ At("take") \in SUBSET {Consumer} /\ IsFiniteSet(At("take"))
         /\ Cardinality(At("take")) \in Nat /\ Cardinality(At("take")) <= 1
<1>1. At("give") \in SUBSET Producers /\ At("take") \in SUBSET {Consumer}
  BY TasksDistinct DEF IInv, TaskInv, At, Tasks
<1>2. IsFiniteSet({Consumer}) /\ Cardinality({Consumer}) = 1
  BY FS_Singleton
<1>3. IsFiniteSet(Producers)
  BY BufferAssumption
<1>4. IsFiniteSet(At("give")) /\ Cardinality(At("give")) <= Cardinality(Producers)
  BY <1>1, <1>3, FS_Subset
<1>5. IsFiniteSet(At("take")) /\ Cardinality(At("take")) <= 1
  BY <1>1, <1>2, FS_Subset
<1>. QED BY <1>1, <1>4, <1>5, FS_CardinalityType

(* Only the labels of the moving task change. *)
LEMMA LabelStep ==
  ASSUME IInv, NEW t \in Tasks, NEW k, NEW l, k # l, pc[t] = k, Goto(t, l)
  PROVE  /\ At(l)' = At(l) \cup {t} /\ t \notin At(l)
         /\ At(k)' = At(k) \ {t} /\ t \in At(k)
         /\ \A m : m # k /\ m # l => At(m)' = At(m)
<1>1. pc \in [Tasks -> {"idle", "insert", "give", "take", "hold", "drain"}]
  BY DEF IInv, TypeOK
<1>2. t \in At(k) /\ \A m : m # k => t \notin At(m)
  BY DEF At
<1>3. /\ At(l)' = At(l) \cup {t}
      /\ \A m : m # l => At(m)' = At(m) \ {t}
  BY <1>1, GotoAt
<1>. QED BY <1>2, <1>3

LEMMA InitSyncInv == Init => SyncInv
<1> SUFFICES ASSUME Init PROVE SyncInv
  OBVIOUS
<1>1. At("drain") = {} /\ At("give") = {} /\ At("take") = {}
  BY DEF Init, At
<1>2. Cardinality(At("give")) = 0 /\ Cardinality(At("take")) = 0
  BY <1>1, FS_EmptySet
<1>3. dataReady = 0 /\ Len(sorted) = 0
  BY DEF Init
<1>. QED BY <1>1, <1>2, <1>3 DEF SyncInv

LEMMA ProduceKeepsSync ==
  ASSUME IInv, SyncInv, NEW p \in Producers, Produce(p)
  PROVE  SyncInv'
<1>. p \in Tasks
  BY TasksDistinct
<1>1. CASE BeginFrame(p)
  <2>1. \A m : m # "idle" /\ m # "insert" => At(m)' = At(m)
    BY <1>1, LabelStep DEF BeginFrame
  <2>2. At("drain")' = At("drain") /\ At("give")' = At("give") /\ At("take")' = At("take")
    BY <2>1
  <2>. QED BY <1>1, <2>2 DEF SyncInv, BeginFrame
<1>2. CASE InsertChunk(p)
  <2>0. SUFFICES ASSUME ~overlapped' PROVE SyncInv'
    BY DEF SyncInv
  <2>1. ~overlapped /\ At("drain") = {}
    BY <1>2, <2>0 DEF InsertChunk
  <2>2. /\ At("give")' = At("give") \cup {p} /\ p \notin At("give")
        /\ \A m : m # "insert" /\ m # "give" => At(m)' = At(m)
    BY <1>2, LabelStep DEF InsertChunk
  <2>3. At("drain")' = {} /\ At("take")' = At("take")
    BY <2>1, <2>2
  <2>4. Cardinality(At("give")') = Cardinality(At("give")) + 1
    BY <2>2, LabelCardinality, FS_AddElement
  <2>5. Cardinality(At("give")) + 1 <= Cardinality(Producers)
    <3>1. IsFiniteSet(Producers \ {p}) /\ Cardinality(Producers \ {p}) = Cardinality(Producers) - 1
      BY BufferAssumption, FS_RemoveElement
    <3>2. At("give") \in SUBSET (Producers \ {p})
      BY <2>2, LabelCardinality
    <3>3. Cardinality(At("give")) <= Cardinality(Producers \ {p})
      BY <3>1, <3>2, FS_Subset
    <3>. QED BY <3>1, <3>3, LabelCardinality, CapacityType
  <2>6. Len(sorted') = IF Overflowing THEN Len(sorted) ELSE Len(sorted) + 1
    <3>1. PICK slot \in Pool, pos \in InsertPositions(Kept, ChunkTs(p)) :
            /\ sorted' = InsertAt(Kept, pos + 1, slot)
            /\ free' = Pool \ {slot}
            /\ slotTs' = [slotTs EXCEPT ![slot] = ChunkTs(p)]
      BY <1>2 DEF InsertChunk
    <3>2. Len(sorted') = Len(Kept) + 1
      BY <1>2, <3>1, InsertKeepsQueue DEF InsertChunk
    <3>3. Len(sorted) \in Nat
      BY LenProperties DEF IInv, TypeOK
    <3>. QED BY <3>2, <3>3, KeptProperties
  <2>7. /\ dataReady + Cardinality(At("give")) + Cardinality(At("take")) = Len(sorted)
        /\ dataReady \in Nat /\ Cardinality(Producers) < Capacity /\ Len(sorted) <= Capacity
    BY <2>1, CapacityType, BufferAssumption DEF SyncInv, IInv, QueueInv, TypeOK, Capacity
  <2>8. Overflowing => dataReady > 0
    <3> SUFFICES ASSUME Overflowing PROVE dataReady > 0
      OBVIOUS
    <3>1. Len(sorted) = Capacity
      BY <2>7, CapacityType, LenProperties DEF Overflowing, IInv, TypeOK
    <3>. QED BY <2>5, <2>7, <3>1, LabelCardinality, CapacityType
  <2>9. dataReady' = IF Overflowing THEN dataReady - 1 ELSE dataReady
    BY <1>2, <2>8 DEF InsertChunk
  <2>10. dataReady' + Cardinality(At("give")') + Cardinality(At("take")') = Len(sorted')
    BY <2>3, <2>4, <2>6, <2>7, <2>9, LabelCardinality
  <2>. QED BY <2>3, <2>10 DEF SyncInv
<1>3. CASE DropChunk(p)
  <2>1. \A m : m # "idle" /\ m # "insert" => At(m)' = At(m)
    BY <1>3, LabelStep DEF DropChunk
  <2>2. At("drain")' = At("drain") /\ At("give")' = At("give") /\ At("take")' = At("take")
    BY <2>1
  <2>. QED BY <1>3, <2>2 DEF SyncInv, DropChunk
<1>4. CASE GiveToken(p)
  <2>0. SUFFICES ASSUME ~overlapped' PROVE SyncInv'
    BY DEF SyncInv
  <2>1. ~overlapped /\ p \in At("give")
    BY <1>4, <2>0 DEF GiveToken, At
  <2>2. /\ At("give")' = At("give") \ {p}
        /\ At("drain")' = At("drain") /\ At("take")' = At("take")
    <3>1. CASE Goto(p, "insert")
      BY <1>4, <3>1, LabelStep DEF GiveToken
    <3>2. CASE Goto(p, "idle")
      BY <1>4, <3>2, LabelStep DEF GiveToken
    <3>. QED BY <1>4, <3>1, <3>2 DEF GiveToken, NextChunk
  <2>3. At("drain") = {} /\
        dataReady + Cardinality(At("give")) + Cardinality(At("take")) = Len(sorted)
    BY <2>1 DEF SyncInv
  <2>4. Cardinality(At("give")') = Cardinality(At("give")) - 1
    BY <2>1, <2>2, LabelCardinality, FS_RemoveElement
  <2>5. Cardinality(At("give")) # 0
    BY <2>1, LabelCardinality, FS_EmptySet
  <2>6. dataReady \in Nat /\ Len(sorted) <= Capacity
    BY CapacityType DEF IInv, QueueInv, TypeOK
  <2>7. dataReady' = dataReady + 1 /\ sorted' = sorted
    BY <1>4, <2>3, <2>5, <2>6, LabelCardinality, CapacityType DEF GiveToken
  <2>. QED BY <2>2, <2>3, <2>4, <2>6, <2>7, LabelCardinality DEF SyncInv
<1>. QED BY <1>1, <1>2, <1>3, <1>4 DEF Produce

LEMMA ConsumeKeepsSync ==
  ASSUME IInv, SyncInv, Consume
  PROVE  SyncInv'
<1>. /\ Consumer \in Tasks /\ Len(sorted) \in Nat /\ dataReady \in Nat
  BY TasksDistinct, LenProperties, CapacityType DEF IInv, TypeOK
<1>1. CASE TakeToken
  <2>0. SUFFICES ASSUME ~overlapped' PROVE SyncInv'
    BY DEF SyncInv
  <2>1. ~overlapped /\ At("drain") = {}
    BY <1>1, <2>0 DEF TakeToken
  <2>2. /\ At("take")' = At("take") \cup {Consumer} /\ Consumer \notin At("take")
        /\ \A m : m # "idle" /\ m # "take" => At(m)' = At(m)
    BY <1>1, LabelStep DEF TakeToken
  <2>3. Cardinality(At("take")') = Cardinality(At("take")) + 1
    BY <2>2, LabelCardinality, FS_AddElement
  <2>4. At("drain")' = {} /\ At("give")' = At("give")
    BY <2>1, <2>2
  <2>. QED BY <1>1, <2>1, <2>3, <2>4, LabelCardinality DEF SyncInv, TakeToken
<1>2. CASE TakeNothing
  <2>0. SUFFICES ASSUME ~overlapped' PROVE FALSE
    BY DEF SyncInv
  <2>1. ~overlapped /\ sorted = <<>> /\ Consumer \in At("take")
    BY <1>2, <2>0 DEF TakeNothing, At
  <2>2. Cardinality(At("take")) # 0 /\ Len(sorted) = 0
    BY <2>1, LabelCardinality, FS_EmptySet
  <2>3. dataReady + Cardinality(At("give")) + Cardinality(At("take")) = Len(sorted)
    BY <2>1 DEF SyncInv
  <2>. QED BY <2>2, <2>3, LabelCardinality
<1>3. CASE TakeOldest
  <2>0. SUFFICES ASSUME ~overlapped' PROVE SyncInv'
    BY DEF SyncInv
  <2>1. ~overlapped /\ Consumer \in At("take")
    BY <1>3, <2>0 DEF TakeOldest, At
  <2>2. /\ At("take")' = At("take") \ {Consumer}
        /\ \A m : m # "take" /\ m # "hold" => At(m)' = At(m)
    BY <1>3, LabelStep DEF TakeOldest
  <2>3. Cardinality(At("take")') = Cardinality(At("take")) - 1
    BY <2>1, <2>2, LabelCardinality, FS_RemoveElement
  <2>4. At("drain") = {} /\
        dataReady + Cardinality(At("give")) + Cardinality(At("take")) = Len(sorted)
    BY <2>1 DEF SyncInv
  <2>5. At("drain")' = {} /\ At("give")' = At("give")
    BY <2>2, <2>4
  <2>6. Len(sorted') = Len(sorted) - 1
    BY <1>3, TailProperties DEF IInv, TypeOK, SlotsPartitioned, TakeOldest
  <2>. QED BY <1>3, <2>3, <2>4, <2>5, <2>6, LabelCardinality DEF SyncInv, TakeOldest
<1>4. CASE ReturnSlot
  <2>1. \A m : m # "hold" /\ m # "idle" => At(m)' = At(m)
    BY <1>4, LabelStep DEF ReturnSlot
  <2>2. At("drain")' = At("drain") /\ At("give")' = At("give") /\ At("take")' = At("take")
    BY <2>1
  <2>. QED BY <1>4, <2>2 DEF SyncInv, ReturnSlot
<1>. QED BY <1>1, <1>2, <1>3, <1>4 DEF Consume

LEMMA FlushKeepsSync ==
  ASSUME IInv, SyncInv, NEW f \in Flushers, Flush(f)
  PROVE  SyncInv'
<1>. f \in Tasks /\ dataReady \in Nat
  BY TasksDistinct, CapacityType DEF IInv, TypeOK
<1>1. CASE FlushSlots(f)
  <2>0. SUFFICES ASSUME ~overlapped' PROVE SyncInv'
    BY DEF SyncInv
  <2>1. At("give") = {} /\ At("take") = {}
    BY <1>1, <2>0 DEF FlushSlots
  <2>2. /\ At("drain")' = At("drain") \cup {f}
        /\ \A m : m # "idle" /\ m # "drain" => At(m)' = At(m)
    BY <1>1, LabelStep DEF FlushSlots
  <2>3. At("drain")' # {} /\ At("give")' = {} /\ At("take")' = {} /\ sorted' = <<>>
    BY <1>1, <2>1, <2>2 DEF FlushSlots
  <2>. QED BY <2>3 DEF SyncInv
<1>2. CASE DrainToken(f)
  <2>1. f \in At("drain") /\ \A m : At(m)' = At(m)
    BY <1>2 DEF DrainToken, At
  <2>2. At("drain") # {} /\ At("drain")' = At("drain")
        /\ At("give")' = At("give") /\ At("take")' = At("take")
    BY <2>1
  <2>. QED BY <1>2, <2>2 DEF SyncInv, DrainToken
<1>3. CASE DrainDone(f)
  <2>0. SUFFICES ASSUME ~overlapped' PROVE SyncInv'
    BY DEF SyncInv
  <2>1. ~overlapped /\ f \in At("drain") /\ dataReady' = 0 /\ sorted' = sorted
    BY <1>3, <2>0 DEF DrainDone, At
  <2>2. \A m : m # "idle" /\ m # "drain" => At(m)' = At(m)
    BY <1>3, LabelStep DEF DrainDone
  <2>3. sorted = <<>> /\ At("give") = {} /\ At("take") = {}
    BY <2>1 DEF SyncInv
  <2>4. At("give")' = {} /\ At("take")' = {} /\ Len(sorted') = 0
    BY <2>1, <2>2, <2>3
  <2>5. Cardinality(At("give")') = 0 /\ Cardinality(At("take")') = 0
    BY <2>4, FS_EmptySet
  <2>. QED BY <2>1, <2>3, <2>4, <2>5 DEF SyncInv
<1>. QED BY <1>1, <1>2, <1>3 DEF Flush

(* While no flush overlaps a producer or the player, every queued frame    *)
(* has exactly one token, given, about to be given or just taken: whatever *)
(* the overflow loop evicts, and however many producers there are.         *)
THEOREM SemaphoreTracksQueue == Spec => []SemaphoreBalanced
<1>1. IInv /\ SyncInv /\ [Next]_vars => SyncInv'
  <2> SUFFICES ASSUME IInv, SyncInv, [Next]_vars PROVE SyncInv'
    OBVIOUS
  <2>1. CASE UNCHANGED vars
    BY <2>1 DEF SyncInv, vars, At
  <2>. QED BY <2>1, ProduceKeepsSync, ConsumeKeepsSync, FlushKeepsSync DEF Next
<1>2. SyncInv => SemaphoreBalanced
  BY DEF SyncInv, SemaphoreBalanced
<1>. QED BY <1>1, <1>2, InitSyncInv, Invariance, PTL DEF Spec

-----------------------------------------------------------------------------
(* Back-pressure *)

(* Between two chunks of a frame the room for the rest of it is still      *)
(* there, and the player's slot beside it: the chunk in the buffer has     *)
(* used the room kept for it.                                              *)
RoomInv ==
  buffered = Producers /\ Cardinality(Producers) = 1 =>
    \A p \in Producers :
      /\ pc[p] = "insert" => Len(sorted) + Left(p) < Capacity
      /\ pc[p] = "give" => Len(sorted) + Left(p) - 1 < Capacity

(* The slots that are neither queued nor with the player are free.         *)
LEMMA FreeSlots ==
  ASSUME IInv
  PROVE  /\ Cardinality(free) \in Nat
         /\ Capacity <= Cardinality(free) + Len(sorted) + 1
<1>1. /\ sorted \in Seq(Slots) /\ Len(sorted) \in Nat /\ DOMAIN sorted = 1 .. Len(sorted)
      /\ IsInjective(sorted) /\ free \subseteq Slots /\ IsFiniteSet(Slots)
      /\ Slots = ToSet(sorted) \cup free \cup ({held} \ {NoSlot})
  BY LenProperties, BufferAssumption DEF IInv, TypeOK, SlotsPartitioned
<1>2. IsFiniteSet(ToSet(sorted)) /\ Cardinality(ToSet(sorted)) = Len(sorted)
  <2>1. /\ sorted \in [1 .. Len(sorted) -> ToSet(sorted)]
        /\ \A f \in ToSet(sorted) : \E i \in 1 .. Len(sorted) : sorted[i] = f
    BY <1>1 DEF ToSet
  <2>2. sorted \in Bijection(1 .. Len(sorted), ToSet(sorted))
    BY <1>1, <2>1 DEF Bijection, Injection, Surjection
  <2>3. ExistsBijection(1 .. Len(sorted), ToSet(sorted))
    BY <2>2 DEF ExistsBijection
  <2>4. Cardinality(ToSet(sorted)) = Len(sorted)
    BY <1>1, <2>3, FS_CountingElements
  <2>5. ToSet(sorted) \in SUBSET Slots
    BY <1>1
  <2>6. IsFiniteSet(ToSet(sorted))
    BY <1>1, <2>5, FS_Subset
  <2> QED
    BY <2>4, <2>6
<1>3. IsFiniteSet(free) /\ Cardinality(free) \in Nat
  BY <1>1, FS_Subset, FS_CardinalityType
<1>4. /\ IsFiniteSet(ToSet(sorted) \cup free)
      /\ Cardinality(ToSet(sorted) \cup free) \in Nat
      /\ Cardinality(ToSet(sorted) \cup free) <= Len(sorted) + Cardinality(free)
  <2>1. /\ IsFiniteSet(ToSet(sorted) \cup free) /\ IsFiniteSet(ToSet(sorted) \cap free)
        /\ Cardinality(ToSet(sorted) \cup free)
              = Len(sorted) + Cardinality(free) - Cardinality(ToSet(sorted) \cap free)
    BY <1>2, <1>3, FS_Union, FS_Intersection
  <2> QED
    BY <1>1, <1>3, <2>1, FS_CardinalityType
<1>5. CASE held = NoSlot
  <2>1. Slots = ToSet(sorted) \cup free
    BY <1>1, <1>5
  <2>2. Capacity <= Len(sorted) + Cardinality(free) /\ Capacity \in Nat
    BY <1>4, <2>1, CapacityType DEF Capacity
  <2> QED
    BY <1>1, <1>3, <2>2
<1>6. CASE held # NoSlot
  <2>1. Slots = (ToSet(sorted) \cup free) \cup {held}
    BY <1>1, <1>6
  <2> DEFINE U == ToSet(sorted) \cup free
  <2>2. Cardinality(U \cup {held}) = IF held \in U THEN Cardinality(U) ELSE Cardinality(U) + 1
    <3> HIDE DEF U
    <3>1. IsFiniteSet(U)
      BY <1>4 DEF U
    <3> QED
      BY <3>1, FS_AddElement
  <2>3. Capacity \in {Cardinality(U), Cardinality(U) + 1}
    BY <2>1, <2>2 DEF Capacity
  <2>4. Capacity <= Cardinality(U) + 1
    BY <1>4, <2>3
  <2> QED
    BY <1>1, <1>3, <1>4, <2>3, <2>4
<1> QED
  BY <1>5, <1>6

LEMMA NextKeepsRoom ==
  ASSUME IInv, RoomInv, [Next]_vars
  PROVE  RoomInv'
<1> SUFFICES ASSUME buffered' = Producers, Cardinality(Producers) = 1,
                    NEW q \in Producers
             PROVE  /\ pc'[q] = "insert" => Len(sorted') + Left(q)' < Capacity
                    /\ pc'[q] = "give" => Len(sorted') + Left(q)' - 1 < Capacity
  BY DEF RoomInv, Capacity
<1>. \A p \in Producers : p = q
  BY BufferAssumption, FS_Singleton
<1>. /\ Len(sorted) \in Nat /\ Capacity \in Nat /\ MaxChunks \in Nat /\ HighWater \in Nat
     /\ todo[q].done \in Int /\ todo[q].of \in Int /\ q \in Tasks
     /\ pc \in [Tasks -> {"idle", "insert", "give", "take", "hold", "drain"}]
     /\ todo \in [Producers -> [ts : AllTimestamps, done : 0 .. MaxChunks, of : 0 .. MaxChunks]]
     /\ HighWater + MaxChunks < Capacity
  BY LenProperties, CapacityType, BufferAssumption, RoomAssumption, TasksDistinct DEF IInv, TypeOK, Capacity
<1>0. buffered = Producers
  BY DEF Next, Produce, Consume, Flush, BeginFrame, InsertChunk, DropChunk, GiveToken,
         TakeToken, TakeOldest, TakeNothing, ReturnSlot, FlushSlots, DrainToken, DrainDone, vars
<1>1. /\ pc[q] = "insert" => Len(sorted) + Left(q) < Capacity
      /\ pc[q] = "give" => Len(sorted) + Left(q) - 1 < Capacity
  BY <1>0 DEF RoomInv
<1>2. CASE BeginFrame(q)
  <2>1. PICK n \in 1 .. MaxChunks, ts \in Timestamps :
          todo' = [todo EXCEPT ![q] = [ts |-> ts, done |-> 0, of |-> n]]
    BY <1>2 DEF BeginFrame
  <2>2. Left(q)' = n
    BY <2>1 DEF Left
  <2>3. Len(sorted') <= HighWater /\ Len(sorted') \in Nat
    BY <1>0, <1>2 DEF BeginFrame, IsNearlyFull
  <2>4. pc'[q] = "insert"
    BY <1>2 DEF BeginFrame, Goto
  <2>. QED BY <2>2, <2>3, <2>4
<1>3. CASE InsertChunk(q)
  <2>1. PICK slot \in Pool, pos \in InsertPositions(Kept, ChunkTs(q)) :
          /\ sorted' = InsertAt(Kept, pos + 1, slot)
          /\ free' = Pool \ {slot}
          /\ slotTs' = [slotTs EXCEPT ![slot] = ChunkTs(q)]
    BY <1>3 DEF InsertChunk
  <2>2. Len(sorted') = Len(Kept) + 1
    BY <1>3, <2>1, InsertKeepsQueue DEF InsertChunk
  <2>3. Len(sorted') <= Len(sorted) + 1 /\ Len(sorted') \in Nat
    BY <2>2, KeptProperties
  <2>4. Left(q)' = Left(q) /\ Left(q) \in Int /\ pc'[q] = "give" /\ pc[q] = "insert"
    BY <1>3 DEF InsertChunk, Left, Goto
  <2>. QED BY <1>1, <2>3, <2>4
<1>4. CASE DropChunk(q)
  BY <1>4 DEF DropChunk, Goto
<1>5. CASE GiveToken(q)
  <2>1. pc[q] = "give" /\ sorted' = sorted
    BY <1>5 DEF GiveToken
  <2>2. CASE Left(q) > 1
    <3>1. todo' = [todo EXCEPT ![q].done = @ + 1] /\ pc'[q] = "insert"
      BY <1>5, <2>2 DEF GiveToken, NextChunk, Goto
    <3>2. todo'[q].done = todo[q].done + 1 /\ todo'[q].of = todo[q].of
      BY <3>1
    <3>. QED BY <1>1, <2>1, <3>1, <3>2 DEF Left
  <2>3. CASE ~(Left(q) > 1)
    BY <1>5, <2>3 DEF GiveToken, NextChunk, Goto
  <2>. QED BY <2>2, <2>3
<1>6. CASE Consume
  <2>1. todo' = todo /\ pc'[q] = pc[q]
    BY <1>6, TasksDistinct DEF Consume, TakeToken, TakeOldest, TakeNothing, ReturnSlot, Goto
  <2>2. Len(sorted') \in Nat /\ Len(sorted') <= Len(sorted)
    <3>1. CASE TakeOldest
      BY <3>1, TailProperties DEF IInv, TypeOK, SlotsPartitioned, TakeOldest
    <3>. QED BY <1>6, <3>1 DEF Consume, TakeToken, TakeNothing, ReturnSlot
  <2>. QED BY <1>1, <2>1, <2>2 DEF Left
<1>7. ASSUME NEW f \in Flushers, Flush(f)
      PROVE  /\ pc'[q] = "insert" => Len(sorted') + Left(q)' < Capacity
             /\ pc'[q] = "give" => Len(sorted') + Left(q)' - 1 < Capacity
  <2>1. todo' = todo /\ pc'[q] = pc[q]
    BY <1>7, TasksDistinct DEF Flush, FlushSlots, DrainToken, DrainDone, Goto
  <2>2. Len(sorted') \in Nat /\ Len(sorted') <= Len(sorted)
    <3>1. CASE FlushSlots(f)
      <4>1. sorted' = <<>>
        BY <3>1 DEF FlushSlots
      <4>2. Len(sorted') = 0
        BY <4>1
      <4>. QED BY <4>2
    <3>. QED BY <1>7, <3>1 DEF Flush, DrainToken, DrainDone
  <2>. QED BY <1>1, <2>1, <2>2 DEF Left
<1>8. CASE UNCHANGED vars
  BY <1>1, <1>8 DEF vars, Left
<1>. QED BY <1>2, <1>3, <1>4, <1>5, <1>6, <1>7, <1>8 DEF Next, Produce

(* One is_nearly_full test per packet is enough to keep a free slot for    *)
(* every chunk of it, whatever the player holds, for every capacity,       *)
(* high-water mark and split that leave more than MaxChunks slots above    *)
(* the mark (RoomAssumption).                                              *)
THEOREM RoomForWholePacket == Spec => []BackpressureSuffices
<1>1. Init => RoomInv
  BY TasksDistinct DEF Init, RoomInv
<1>2. IInv /\ RoomInv => BackpressureSuffices
  <2> SUFFICES ASSUME IInv, RoomInv, buffered = Producers, Cardinality(Producers) = 1,
                      NEW p \in Producers, pc[p] = "insert"
               PROVE  Left(p) <= Cardinality(free)
    BY DEF BackpressureSuffices
  <2>1. Len(sorted) + Left(p) < Capacity
    BY DEF RoomInv
  <2>2. Len(sorted) \in Nat /\ Left(p) \in Int /\ Capacity \in Nat
    BY LenProperties, CapacityType DEF IInv, TypeOK, Left
  <2> QED
    BY <2>1, <2>2, FreeSlots
<1>3. IInv /\ RoomInv /\ [Next]_vars => RoomInv'
  BY NextKeepsRoom
<1>. QED BY <1>1, <1>2, <1>3, Invariance, PTL DEF Spec

-----------------------------------------------------------------------------
(***************************************************************************)
(* AudioBuffer implements FrameQueue, for every pool and every set of      *)
(* tasks: each critical section is one step of the queue, and what happens *)
(* to the semaphore outside of them is invisible to it.                    *)
(***************************************************************************)

(* The queue of the abstract specification, and the frame being played.    *)
Queued(S) == {FrameIn(s) : s \in S}
Playing == IF held = NoSlot THEN {} ELSE {FrameIn(held)}

LEMMA FramesOfSlots ==
  ASSUME NEW S \in SUBSET Slots, slotTs \in [Slots -> AllTimestamps]
  PROVE  /\ Queued(S) \subseteq Abstract!Frames
         /\ Abstract!SlotsOf(Queued(S)) = S
<1>1. \A s \in Slots : FrameIn(s) \in Abstract!Frames /\ FrameIn(s).slot = s
  BY DEF FrameIn, Abstract!Frames, Abstract!AllTimestamps, AllTimestamps
<1>. QED BY <1>1 DEF Queued, Abstract!SlotsOf

(* A frame is known by its slot, so there are as many as slots queued.     *)
LEMMA QueueLength ==
  ASSUME IInv
  PROVE  Cardinality(Queued(ToSet(sorted))) = Len(sorted)
<1> DEFINE F == [i \in 1 .. Len(sorted) |-> FrameIn(sorted[i])]
           T == Queued(ToSet(sorted))
<1>1. /\ Len(sorted) \in Nat /\ DOMAIN sorted = 1 .. Len(sorted) /\ IsInjective(sorted)
  BY LenProperties DEF IInv, TypeOK, SlotsPartitioned
<1>2. ToSet(sorted) = {sorted[i] : i \in 1 .. Len(sorted)}
  BY <1>1 DEF ToSet
<1>3. F \in [1 .. Len(sorted) -> T]
  BY <1>2 DEF Queued
<1>4. \A i, j \in 1 .. Len(sorted) : F[i] = F[j] => i = j
  BY <1>1 DEF FrameIn, IsInjective
<1>5. \A f \in T : \E i \in 1 .. Len(sorted) : F[i] = f
  BY <1>2 DEF Queued
<1>. HIDE DEF F, T
<1>6. F \in Bijection(1 .. Len(sorted), T)
  <2>1. DOMAIN F = 1 .. Len(sorted)
    BY <1>3
  <2>2. IsInjective(F)
    BY <1>4, <2>1 DEF IsInjective
  <2>. QED BY <1>3, <1>5, <2>2 DEF Bijection, Injection, Surjection
<1>7. ExistsBijection(1 .. Len(sorted), T)
  BY <1>6 DEF ExistsBijection
<1>8. Cardinality(T) = Len(sorted)
  BY <1>1, <1>7, FS_CountingElements
<1>. QED BY <1>8 DEF T

(* The head of the index array is an oldest frame. *)
LEMMA HeadIsOldest ==
  ASSUME IInv, sorted # <<>>
  PROVE  Abstract!IsOldest(FrameIn(Head(sorted)), Queued(ToSet(sorted)))
<1>1. /\ Len(sorted) \in Nat \ {0} /\ DOMAIN sorted = 1 .. Len(sorted)
      /\ Head(sorted) = sorted[1] /\ Head(sorted) \in ToSet(sorted)
  BY TailProperties, LenProperties DEF IInv, TypeOK, SlotsPartitioned
<1>2. 1 \in 1 .. Len(sorted) /\ slotTs[sorted[1]] \in Timestamps
  BY <1>1 DEF IInv, QueueInv
<1>3. TsCmp(slotTs[sorted[1]], slotTs[sorted[1]]) <= 0
  BY <1>2, BufferAssumption DEF Comparable
<1>4. \A i \in 1 .. Len(sorted) : TsCmp(slotTs[sorted[1]], slotTs[sorted[i]]) <= 0
  BY <1>2, <1>3 DEF IInv, PlayOrder
<1>5. \A s \in ToSet(sorted) : TsCmp(slotTs[Head(sorted)], slotTs[s]) <= 0
  BY <1>1, <1>4 DEF ToSet
<1>6. \A g \in Queued(ToSet(sorted)) :
        Abstract!TsCmp(FrameIn(Head(sorted)).ts, g.ts) <= 0
  BY <1>5 DEF Queued, FrameIn, Abstract!TsCmp, TsCmp
<1>. QED BY <1>1, <1>6 DEF Queued, Abstract!IsOldest

-----------------------------------------------------------------------------
(* The steps *)

(* Steps that leave the queue and the player alone stutter.                *)
Quiet == UNCHANGED <<sorted, slotTs, held>>

LEMMA QuietStutters ==
  ASSUME Quiet
  PROVE  UNCHANGED Abstract!vars
BY DEF Quiet, Abstract!vars, FrameIn, ToSet

LEMMA InsertIsPut ==
  ASSUME IInv, NEW p \in Producers, InsertChunk(p)
  PROVE  \E f \in Abstract!Frames : Abstract!Put(f)
<1>1. PICK slot \in Pool, pos \in InsertPositions(Kept, ChunkTs(p)) :
        /\ sorted' = InsertAt(Kept, pos + 1, slot)
        /\ slotTs' = [slotTs EXCEPT ![slot] = ChunkTs(p)]
        /\ held' = held
  BY DEF InsertChunk
<1> DEFINE f == [slot |-> slot, ts |-> ChunkTs(p)]
           evicted == IF Overflowing THEN {FrameIn(Head(sorted))} ELSE {}
<1>2. /\ Kept \in Seq(Slots) /\ slot \in Slots /\ slot \notin ToSet(Kept) /\ held # slot
      /\ IsInjective(Kept) /\ ToSet(Kept) \subseteq Slots /\ Len(Kept) \in Nat
  BY KeptProperties
<1>3. ToSet(sorted') = ToSet(Kept) \cup {slot}
  <2>1. pos \in 0 .. Len(Kept)
    BY DEF InsertPositions
  <2>2. pos + 1 \in 1 .. Len(Kept) + 1
    BY <1>2, <2>1
  <2>. QED BY <1>1, <1>2, <2>2, InsertAtSet
<1>4. ToSet(Kept) = IF Overflowing THEN ToSet(sorted) \ {Head(sorted)} ELSE ToSet(sorted)
  BY TailProperties DEF Kept, Overflowing, IInv, TypeOK, SlotsPartitioned
<1>5. f \in Abstract!Frames
  BY <1>2, ChunkTsInTimestamps
     DEF IInv, InsertChunk, Abstract!Frames, Abstract!AllTimestamps, AllTimestamps
<1>6. Queued(ToSet(sorted)) \ evicted = Queued(ToSet(Kept))
  <2>1. \A s, t : FrameIn(s) = FrameIn(t) => s = t
    BY DEF FrameIn
  <2>. QED BY <1>4, <2>1 DEF Queued
<1>7. /\ evicted \in SUBSET Queued(ToSet(sorted))
      /\ IF Cardinality(Queued(ToSet(sorted))) < Capacity
         THEN evicted = {}
         ELSE \E o \in Queued(ToSet(sorted)) :
                Abstract!IsOldest(o, Queued(ToSet(sorted))) /\ evicted = {o}
  <2>1. /\ Cardinality(Queued(ToSet(sorted))) = Len(sorted) /\ Len(sorted) \in Nat
        /\ Capacity \in Nat /\ Capacity > 0 /\ (sorted = <<>> => Len(sorted) = 0)
    BY QueueLength, CapacityType, LenProperties DEF IInv, TypeOK
  <2>2. CASE Overflowing
    <3>1. Abstract!IsOldest(FrameIn(Head(sorted)), Queued(ToSet(sorted)))
      BY <2>2, HeadIsOldest DEF Overflowing
    <3>2. FrameIn(Head(sorted)) \in Queued(ToSet(sorted))
      BY <3>1 DEF Abstract!IsOldest
    <3>3. ~(Len(sorted) < Capacity)
      BY <2>1, <2>2 DEF Overflowing
    <3>. QED BY <2>1, <2>2, <3>1, <3>2, <3>3
  <2>3. CASE ~Overflowing
    <3>1. Len(sorted) < Capacity
      BY <2>1, <2>3 DEF Overflowing
    <3>. QED BY <2>1, <2>3, <3>1
  <2>. QED BY <2>2, <2>3
<1>8. f.slot \notin Abstract!SlotsOf((Queued(ToSet(sorted)) \ evicted) \cup Playing)
  <2>1. Abstract!SlotsOf(Queued(ToSet(Kept))) = ToSet(Kept)
    BY <1>2, FramesOfSlots DEF IInv, TypeOK
  <2>2. \A g \in Playing : g.slot = held
    BY DEF Playing, FrameIn
  <2>. HIDE DEF evicted
  <2>. QED BY <1>2, <1>6, <2>1, <2>2 DEF Abstract!SlotsOf
<1>9. /\ Queued(ToSet(sorted))' = Queued(ToSet(Kept)) \cup {f}
      /\ Playing' = Playing
  <2>1. slotTs'[slot] = ChunkTs(p) /\ \A s \in Slots \ {slot} : slotTs'[s] = slotTs[s]
    BY <1>1, <1>2 DEF IInv, TypeOK
  <2>2. FrameIn(slot)' = f /\ \A s \in Slots \ {slot} : FrameIn(s)' = FrameIn(s)
    BY <2>1 DEF FrameIn
  <2>3. Queued(ToSet(sorted))' = {FrameIn(s)' : s \in ToSet(Kept) \cup {slot}}
    BY <1>3 DEF Queued, ToSet
  <2>4. held \in Slots \cup {NoSlot}
    BY DEF IInv, TypeOK
  <2>. QED BY <1>1, <1>2, <2>2, <2>3, <2>4 DEF Queued, Playing
<1>. HIDE DEF f, evicted
<1>10. Abstract!Put(f)
  <2>1. \E e \in SUBSET Queued(ToSet(sorted)) :
          /\ IF Cardinality(Queued(ToSet(sorted))) < Capacity
             THEN e = {}
             ELSE \E o \in Queued(ToSet(sorted)) :
                    Abstract!IsOldest(o, Queued(ToSet(sorted))) /\ e = {o}
          /\ f.slot \notin Abstract!SlotsOf((Queued(ToSet(sorted)) \ e) \cup Playing)
          /\ Queued(ToSet(sorted))' = (Queued(ToSet(sorted)) \ e) \cup {f}
          /\ Playing' = Playing
    <3>1. Queued(ToSet(sorted))' = (Queued(ToSet(sorted)) \ evicted) \cup {f}
      BY <1>6, <1>9
    <3>. WITNESS evicted \in SUBSET Queued(ToSet(sorted))
    <3>. QED BY <1>7, <1>8, <1>9, <3>1
  <2>2. \A S : Abstract!Cardinality(S) = Cardinality(S)
    BY DEF Abstract!Cardinality, Cardinality
  <2>. QED BY <2>1, <2>2 DEF Abstract!Put, Queued, Playing
<1>. QED BY <1>5, <1>10

LEMMA ConsumeIsQueueStep ==
  ASSUME IInv, Consume
  PROVE  [Abstract!Next]_(Abstract!vars)
<1>1. CASE TakeToken \/ TakeNothing
  BY <1>1, QuietStutters DEF Quiet, TakeToken, TakeNothing
<1>2. CASE TakeOldest
  <2>1. held = NoSlot /\ held' = Head(sorted) /\ sorted' = Tail(sorted) /\ sorted # <<>>
        /\ slotTs' = slotTs
    BY <1>2 DEF IInv, TaskInv, TakeOldest
  <2>2. /\ Head(sorted) \in Slots /\ Head(sorted) # NoSlot
        /\ ToSet(sorted') = ToSet(sorted) \ {Head(sorted)}
    BY <2>1, TailProperties, BufferAssumption DEF IInv, TypeOK, SlotsPartitioned
  <2>3. Queued(ToSet(sorted))' = Queued(ToSet(sorted)) \ {FrameIn(Head(sorted))}
    <3>1. \A s, t : FrameIn(s) = FrameIn(t) => s = t
      BY DEF FrameIn
    <3>2. Queued(ToSet(sorted))' = Queued(ToSet(sorted) \ {Head(sorted)})
      BY <2>1, <2>2 DEF Queued, FrameIn, ToSet
    <3>. QED BY <3>1, <3>2 DEF Queued
  <2>4. Playing = {} /\ Playing' = {FrameIn(Head(sorted))}
    BY <2>1, <2>2 DEF Playing, FrameIn
  <2>5. Abstract!IsOldest(FrameIn(Head(sorted)), Queued(ToSet(sorted)))
        /\ FrameIn(Head(sorted)) \in Queued(ToSet(sorted))
    BY <2>1, HeadIsOldest DEF Abstract!IsOldest
  <2>6. Abstract!Take
    BY <2>3, <2>4, <2>5 DEF Abstract!Take, Queued, Playing
  <2>. QED BY <2>6 DEF Abstract!Next
<1>3. CASE ReturnSlot
  <2>1. held # NoSlot /\ held' = NoSlot /\ UNCHANGED <<sorted, slotTs>>
    BY <1>3 DEF IInv, TaskInv, ReturnSlot
  <2>2. Abstract!Release
    BY <2>1 DEF Abstract!Release, FrameIn, ToSet
  <2>. QED BY <2>2 DEF Abstract!Next
<1>. QED BY <1>1, <1>2, <1>3 DEF Consume

LEMMA FlushIsQueueStep ==
  ASSUME IInv, NEW f \in Flushers, Flush(f)
  PROVE  [Abstract!Next]_(Abstract!vars)
<1>1. CASE FlushSlots(f)
  <2>1. sorted' = <<>> /\ UNCHANGED <<slotTs, held>> /\ ToSet(sorted') = {}
    BY <1>1 DEF FlushSlots, ToSet
  <2>2. Abstract!Clear
    BY <2>1 DEF Abstract!Clear, FrameIn, ToSet
  <2>. QED BY <2>2 DEF Abstract!Next
<1>2. CASE DrainToken(f) \/ DrainDone(f)
  BY <1>2, QuietStutters DEF Quiet, DrainToken, DrainDone
<1>. QED BY <1>1, <1>2 DEF Flush

LEMMA StepIsQueueStep == IInv /\ [Next]_vars => [Abstract!Next]_(Abstract!vars)
<1>. SUFFICES ASSUME IInv, [Next]_vars PROVE [Abstract!Next]_(Abstract!vars)
  OBVIOUS
<1>1. ASSUME NEW p \in Producers, Produce(p)
      PROVE  [Abstract!Next]_(Abstract!vars)
  <2>1. CASE InsertChunk(p)
    BY <2>1, InsertIsPut DEF Abstract!Next
  <2>2. CASE BeginFrame(p) \/ DropChunk(p) \/ GiveToken(p)
    BY <2>2, QuietStutters DEF Quiet, BeginFrame, DropChunk, GiveToken
  <2>. QED BY <1>1, <2>1, <2>2 DEF Produce
<1>2. CASE UNCHANGED vars
  BY <1>2, QuietStutters DEF Quiet, vars
<1>. QED BY <1>1, <1>2, ConsumeIsQueueStep, FlushIsQueueStep DEF Next

(* The buffer promises its tasks what FrameQueue says: the player gets an  *)
(* oldest frame, an insert loses at most the oldest, and only when full,   *)
(* and the frame being read is nobody else's.                              *)
THEOREM Implements == Spec => ImplementsFrameQueue
<1>1. Init => Abstract!Init
  BY DEF Init, Abstract!Init, ToSet
<1>. QED BY <1>1, StepIsQueueStep, Invariance, PTL DEF Spec, ImplementsFrameQueue, Abstract!Spec
=============================================================================
