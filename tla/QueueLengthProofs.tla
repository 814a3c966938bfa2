------------------------- MODULE QueueLengthProofs -------------------------
(***************************************************************************)
(* The rows the builders picked stay within their bound, for any number of *)
(* builders that overlap.  PickedBound says nothing of what a builder may  *)
(* still add, so it is not inductive.  The proof gives each builder under  *)
(* way a place for every row it has not counted yet, up to the most it may *)
(* count: a row that is added takes a place of its builder, and a builder  *)
(* that begins counts at least the picked rows that wait.                  *)
(***************************************************************************)
EXTENDS AutoDjQueueProofs

\* The most rows one builder counts.
Most == MaxQueueLength - 1 + MaxBatch

\* What a builder has counted, with the stored rows it is going to count.
Counted(x) == x.len + Len(x.batch)

\* The places of the builders under way, given what the builders hold.
Places(held) ==
  {p \in Builder \X (1 .. Most) :
     held[p[1]].pc \in {"retiming", "filling"} /\ p[2] > Counted(held[p[1]])}

LengthInv ==
  /\ PlayedIsSent
  /\ Cardinality(Picked(queue)) + Cardinality(Places(builder))
       <= Cardinality(Builder) * Most

-----------------------------------------------------------------------------
(***************************************************************************)
(* The sets are finite.                                                    *)
(***************************************************************************)

LEMMA IntervalLemma ==
  ASSUME NEW low \in Nat, NEW high \in Nat, low <= high + 1
  PROVE  IsFiniteSet(low .. high) /\ Cardinality(low .. high) = high - low + 1
<1>1. low \in Int /\ high \in Int
  OBVIOUS
<1>2. /\ IsFiniteSet(low .. high)
      /\ Cardinality(low .. high) = IF low > high THEN 0 ELSE high - low + 1
  BY <1>1, FS_Interval
<1> QED
  BY <1>2

LEMMA MostLemma ==
  /\ Most \in Nat \ {0} /\ MaxQueueLength - 1 \in Nat
  /\ IsFiniteSet(Builder) /\ Cardinality(Builder) \in Nat
  /\ IsFiniteSet(Builder \X (1 .. Most))
  /\ Cardinality(Builder \X (1 .. Most)) = Cardinality(Builder) * Most
<1>1. MaxQueueLength \in Nat /\ MaxQueueLength >= 2
  BY QueueLengthAssumption DEF MaxQueueLength
<1>2. Most \in Nat \ {0} /\ MaxQueueLength - 1 \in Nat
  BY <1>1, MergedAssumption DEF Most
<1>3. IsFiniteSet(Builder) /\ Cardinality(Builder) \in Nat
  BY BuilderAssumption, FS_CardinalityType DEF Builder
<1>4. IsFiniteSet(1 .. Most) /\ Cardinality(1 .. Most) = Most
  <2>1. 1 \in Nat /\ Most \in Nat /\ 1 <= Most + 1 /\ Most - 1 + 1 = Most
    BY <1>2
  <2> QED
    BY <2>1, IntervalLemma
<1>5. /\ IsFiniteSet(Builder \X (1 .. Most))
      /\ Cardinality(Builder \X (1 .. Most)) = Cardinality(Builder) * Cardinality(1 .. Most)
  BY <1>3, <1>4, FS_Product
<1> QED
  BY <1>2, <1>3, <1>4, <1>5

LEMMA PlacesLemma ==
  ASSUME NEW held
  PROVE  IsFiniteSet(Places(held)) /\ Cardinality(Places(held)) \in Nat
<1>1. Places(held) \in SUBSET (Builder \X (1 .. Most))
  BY DEF Places
<1> QED
  BY <1>1, MostLemma, FS_Subset, FS_CardinalityType

LEMMA PickedLemma ==
  ASSUME NEW q, NEW n \in Nat, IsTable(q, n)
  PROVE  IsFiniteSet(Picked(q)) /\ Cardinality(Picked(q)) \in Nat
<1>1. IsFiniteSet(1 .. n - 1)
  BY FS_Interval
<1>2. Picked(q) \in SUBSET (1 .. n - 1)
  BY DEF Picked, Unsent, IsTable
<1> QED
  BY <1>1, <1>2, FS_Subset, FS_CardinalityType

\* Fewer rows and fewer places keep the bound.
LEMMA FewerLemma ==
  ASSUME TypeOK, TypeOK', LengthInv, PlayedIsSent',
         Picked(queue') \subseteq Picked(queue),
         Places(builder') \subseteq Places(builder)
  PROVE  LengthInv'
<1>1. /\ IsFiniteSet(Picked(queue)) /\ Cardinality(Picked(queue)) \in Nat
      /\ Cardinality(Picked(queue')) \in Nat
  BY PickedLemma DEF TypeOK
<1>2. /\ IsFiniteSet(Places(builder)) /\ Cardinality(Places(builder)) \in Nat
      /\ Cardinality(Places(builder')) \in Nat
  BY PlacesLemma
<1>3. Cardinality(Picked(queue')) <= Cardinality(Picked(queue))
  BY <1>1, FS_Subset
<1>4. Cardinality(Places(builder')) <= Cardinality(Places(builder))
  BY <1>2, FS_Subset
<1>5. Cardinality(Builder) * Most \in Nat
  BY MostLemma
<1> QED
  BY <1>1, <1>2, <1>3, <1>4, <1>5 DEF LengthInv

-----------------------------------------------------------------------------
(***************************************************************************)
(* What the statements do to the picked rows.                              *)
(***************************************************************************)

LEMMA PickedCuedLemma ==
  ASSUME NEW q, NEW n, IsTable(q, n), NEW cue
  PROVE  Picked(SetCued(q, cue)) = Picked(q)
BY DEF IsTable, Picked, Unsent, SetCued, Row

LEMMA PickedSentLemma ==
  ASSUME NEW q, NEW n, IsTable(q, n), NEW id, NEW at
  PROVE  Picked(SetSent(q, id, at)) \subseteq Picked(q)
BY DEF IsTable, Picked, Unsent, SetSent, Row

LEMMA PickedTrackedLemma ==
  ASSUME NEW q, NEW n, IsTable(q, n), NEW id, NEW cue
  PROVE  Picked(TrackPlayed(q, id, cue)) \subseteq Picked(q)
BY DEF IsTable, Picked, Unsent, TrackPlayed, Row

LEMMA PickedDeletedLemma ==
  ASSUME NEW q, NEW R
  PROVE  Picked(Delete(q, R)) \subseteq Picked(q)
BY DEF Picked, Unsent, Delete

\* Storing rows that no builder picked.
LEMMA PickedStoredLemma ==
  ASSUME TypeOK, NEW new \in Seq(Fresh), Store(new), \A i \in DOMAIN new : ~ new[i].picked
  PROVE  Picked(queue') \subseteq Picked(queue)
<1>1. queue' = Insert(queue, nextId, new) /\ nextId \in Nat \ {0}
  BY DEF Store, TypeOK
<1>2. ASSUME NEW r \in DOMAIN queue', r \notin DOMAIN queue PROVE ~ queue'[r].picked
  <2>1. r \in nextId .. nextId + Len(new) - 1 /\ queue'[r] = new[r - nextId + 1]
    BY <1>1, <1>2 DEF Insert
  <2>2. r - nextId + 1 \in DOMAIN new
    BY <1>1, <2>1
  <2> QED
    BY <2>1, <2>2
<1>3. \A r \in DOMAIN queue : r \in DOMAIN queue' /\ queue'[r] = queue[r]
  BY <1>1 DEF Insert
<1> QED
  BY <1>2, <1>3 DEF Picked, Unsent

-----------------------------------------------------------------------------
(***************************************************************************)
(* A builder that begins.                                                  *)
(***************************************************************************)

\* It counts at least the rows that are not sent.
LEMMA CountLemma ==
  ASSUME NEW q, NEW n \in Nat, IsTable(q, n), \A r \in DOMAIN q : q[r].played => q[r].sent,
         NEW o \in UnplayedQueues(q)
  PROVE  /\ CountedLength(q, o) \in Nat
         /\ Cardinality(Picked(q)) <= CountedLength(q, o)
<1> DEFINE I == DOMAIN o \ SentPositions(q, o)
           U == Unsent(q)
<1>1. IsFiniteSet(Unplayed(q)) /\ IsFiniteSet(U)
  <2>1. IsFiniteSet(1 .. n - 1)
    BY FS_Interval
  <2>2. Unplayed(q) \in SUBSET (1 .. n - 1) /\ U \in SUBSET (1 .. n - 1)
    BY DEF Unplayed, Unsent, IsTable
  <2> QED
    BY <2>1, <2>2, FS_Subset
<1>2. Cardinality(Unplayed(q)) \in Nat
  BY <1>1, FS_CardinalityType
<1>3. /\ DOMAIN o = 1 .. Cardinality(Unplayed(q))
      /\ o \in [DOMAIN o -> Unplayed(q)]
      /\ \A i, j \in DOMAIN o : i # j => o[i] # o[j]
  BY DEF UnplayedQueues, SetToSeqs
<1>4. IsFiniteSet(DOMAIN o) /\ Cardinality(DOMAIN o) = Cardinality(Unplayed(q))
  <2> DEFINE m == Cardinality(Unplayed(q))
  <2>1. 1 \in Nat /\ m \in Nat /\ 1 <= m + 1 /\ m - 1 + 1 = m
    BY <1>2
  <2>2. IsFiniteSet(1 .. m) /\ Cardinality(1 .. m) = m - 1 + 1
    BY <2>1, IntervalLemma
  <2> QED
    BY <1>3, <2>1, <2>2
<1>5. \A r \in Unplayed(q) : \E i \in DOMAIN o : o[i] = r
  <2>1. o \in Injection(DOMAIN o, Unplayed(q))
    BY <1>3 DEF Injection, IsInjective
  <2>2. o \in Surjection(DOMAIN o, Unplayed(q))
    BY <1>1, <1>4, <2>1, FS_Injection
  <2> QED
    BY <2>2 DEF Surjection
<1>6. IsFiniteSet(I) /\ Cardinality(I) \in Nat
  BY <1>4, FS_Difference, FS_CardinalityType
<1>7. U \subseteq Unplayed(q)
  BY DEF Unplayed, Unsent
<1>8. [i \in I |-> o[i]] \in Surjection(I, U)
  <2>1. \A i \in I : o[i] \in U
    BY <1>3 DEF SentPositions, Unsent, Unplayed
  <2>2. \A r \in U : \E i \in I : o[i] = r
    BY <1>5, <1>7 DEF SentPositions, Unsent
  <2> QED
    BY <2>1, <2>2 DEF Surjection
<1>9. Cardinality(U) <= Cardinality(I)
  BY <1>6, <1>8, FS_Surjection
<1>10. Cardinality(Picked(q)) <= Cardinality(U) /\ Cardinality(Picked(q)) \in Nat /\ Cardinality(U) \in Nat
  <2>1. Picked(q) \in SUBSET U
    BY DEF Picked
  <2> QED
    BY <1>1, <2>1, FS_Subset, FS_CardinalityType
<1> HIDE DEF I, U
<1>11. CountedLength(q, o) = Cardinality(I) \/ CountedLength(q, o) = Cardinality(I) + 1
  BY <1>6 DEF CountedLength, I
<1> QED
  BY <1>6, <1>9, <1>10, <1>11

\* Its places are those the picked rows leave.
LEMMA ReadLemma ==
  ASSUME TypeOK, TypeOK', LengthInv, PlayedIsSent', NEW b \in Builder, BuildRead(b)
  PROVE  LengthInv'
<1> DEFINE n == Cardinality(Builder)
           v == Counted(builder'[b])
<1>1. PICK o \in UnplayedQueues(queue) :
        /\ builder'[b].len = CountedLength(queue, o)
        /\ builder'[b].batch = <<>>
        /\ \A c \in Builder \ {b} : builder'[c] = builder[c]
  BY DEF BuildRead, TypeOK, ProcessOK
<1>2. queue' = queue /\ builder[b].pc \in {"idle", "asked"}
  BY DEF BuildRead, MayStart
<1>3. v \in Nat /\ Cardinality(Picked(queue)) <= v
  <2>1. nextId \in Nat /\ IsTable(queue, nextId) /\ \A r \in DOMAIN queue : queue[r].played => queue[r].sent
    BY DEF TypeOK, LengthInv, PlayedIsSent
  <2>2. CountedLength(queue, o) \in Nat /\ Cardinality(Picked(queue)) <= CountedLength(queue, o)
    BY <2>1, CountLemma
  <2>3. v = CountedLength(queue, o) + 0
    BY <1>1 DEF Counted
  <2> QED
    BY <2>2, <2>3
<1>4. Cardinality(Picked(queue)) \in Nat
  BY PickedLemma DEF TypeOK
<1>5. CASE v >= Most
  <2>1. Places(builder') \subseteq Places(builder)
    <3> SUFFICES ASSUME NEW p \in Places(builder') PROVE p \in Places(builder)
      OBVIOUS
    <3>1. p[1] \in Builder /\ p[2] \in 1 .. Most /\ p[2] > Counted(builder'[p[1]])
      BY DEF Places
    <3>2. p[1] # b
      BY <1>3, <1>5, <3>1, MostLemma
    <3> QED
      BY <1>1, <3>1, <3>2 DEF Places
  <2> QED
    BY <1>2, <2>1, FewerLemma
<1>6. CASE v < Most
  <2> DEFINE Others == Builder \ {b}
             Mine == {b} \X (v + 1 .. Most)
             Theirs == Others \X (1 .. Most)
  <2>1. IsFiniteSet(Others) /\ Cardinality(Others) = n - 1
    BY MostLemma, FS_RemoveElement
  <2>2. IsFiniteSet(1 .. Most) /\ Cardinality(1 .. Most) = Most
    <3>1. 1 \in Nat /\ Most \in Nat /\ 1 <= Most + 1 /\ Most - 1 + 1 = Most
      BY MostLemma
    <3> QED
      BY <3>1, IntervalLemma
  <2>3. IsFiniteSet(v + 1 .. Most) /\ Cardinality(v + 1 .. Most) = Most - v
    <3> HIDE DEF v
    <3>1. /\ v + 1 \in Nat /\ Most \in Nat /\ v + 1 <= Most + 1
          /\ Most - (v + 1) + 1 = Most - v
      BY <1>3, <1>6, MostLemma
    <3> QED
      BY <3>1, IntervalLemma
  <2>4. IsFiniteSet({b}) /\ Cardinality({b}) = 1
    BY FS_Singleton
  <2>5. IsFiniteSet(Mine) /\ Cardinality(Mine) = Most - v
    <3>1. IsFiniteSet(Mine) /\ Cardinality(Mine) = 1 * (Most - v)
      BY <2>3, <2>4, FS_Product
    <3> QED
      BY <1>3, <3>1, MostLemma
  <2>6. IsFiniteSet(Theirs) /\ Cardinality(Theirs) = (n - 1) * Most
    BY <2>1, <2>2, FS_Product
  <2>7. Places(builder') \subseteq Theirs \cup Mine
    <3> SUFFICES ASSUME NEW p \in Places(builder') PROVE p \in Theirs \cup Mine
      OBVIOUS
    <3>1. p \in Builder \X (1 .. Most) /\ p[2] > Counted(builder'[p[1]])
      BY DEF Places
    <3>2. p[1] = b => p[2] \in v + 1 .. Most
      BY <1>3, <3>1
    <3> QED
      BY <3>1, <3>2
  <2>8. /\ IsFiniteSet(Theirs \cup Mine)
        /\ Cardinality(Theirs \cup Mine) <= (n - 1) * Most + (Most - v)
    <3>1. IsFiniteSet(Theirs \cap Mine) /\ Cardinality(Theirs \cap Mine) \in Nat
      BY <2>5, FS_Intersection, FS_CardinalityType
    <3>2. /\ IsFiniteSet(Theirs \cup Mine)
          /\ Cardinality(Theirs \cup Mine)
               = Cardinality(Theirs) + Cardinality(Mine) - Cardinality(Theirs \cap Mine)
      BY <2>5, <2>6, FS_Union
    <3>3. Cardinality(Theirs) \in Nat /\ Cardinality(Mine) \in Nat
      BY <2>5, <2>6, FS_CardinalityType
    <3> QED
      BY <2>5, <2>6, <3>1, <3>2, <3>3
  <2>9. Cardinality(Places(builder')) <= Cardinality(Theirs \cup Mine)
    BY <2>7, <2>8, FS_Subset
  <2>10. Cardinality(Theirs \cup Mine) \in Nat /\ Cardinality(Places(builder')) \in Nat
    BY <2>8, PlacesLemma, FS_CardinalityType
  <2>11. (n - 1) * Most + Most = n * Most /\ (n - 1) * Most \in Int
    BY MostLemma
  <2>12. n * Most \in Nat /\ Most \in Nat
    BY MostLemma
  <2> HIDE DEF n, v, Others, Mine, Theirs
  <2>13. Cardinality(Picked(queue)) + Cardinality(Places(builder')) <= n * Most
    BY <1>3, <1>4, <2>8, <2>9, <2>10, <2>11, <2>12
  <2> QED
    BY <1>2, <2>13 DEF LengthInv, n
<1> QED
  BY <1>3, <1>5, <1>6, MostLemma

-----------------------------------------------------------------------------
(***************************************************************************)
(* A builder that adds songs.                                              *)
(***************************************************************************)

LEMMA AcceptedLengthLemma ==
  ASSUME NEW b \in Builder, NEW songs \in Accepted(b)
  PROVE  songs \in Seq(Song) /\ Len(songs) \in 1 .. MaxBatch
<1>1. CASE \E s \in Song : songs = <<s>>
  <2>1. Len(songs) = 1
    BY <1>1
  <2>2. MaxBatch \in Nat \ {0}
    BY MergedAssumption
  <2> QED
    BY <2>1, <2>2, AcceptedLemma
<1>2. CASE songs \in Merged
  <2>1. PICK n \in 1 .. MaxBatch : songs \in [1 .. n -> Song]
    BY <1>2, MergedAssumption
  <2>2. songs \in Seq(Song) /\ songs # <<>>
    BY AcceptedLemma
  <2>3. Len(songs) = n
    BY <2>1, <2>2
  <2> QED
    BY <2>1, <2>2, <2>3
<1> QED
  BY <1>1, <1>2 DEF Accepted

\* The rows of refused songs are nobody's pick.
LEMMA RefusedLemma ==
  ASSUME TypeOK, NEW b \in Builder, NEW refused \in Rejected(b)
  PROVE  refused \in Seq(Fresh) /\ \A i \in DOMAIN refused : ~ refused[i].picked
<1>1. PICK k \in 0 .. (IF builder[b].last = NoSong THEN 0 ELSE MaxReject) :
        refused = [i \in 1 .. k |-> NewRow(builder[b].last, now, FALSE)]
  BY DEF Rejected
<1>2. \A i \in DOMAIN refused : ~ refused[i].picked
  BY <1>1 DEF NewRow
<1> QED
  BY <1>2, RejectedLemma

\* Each of them takes a place of the builder.
LEMMA AddLemma ==
  ASSUME TypeOK, TypeOK', LengthInv, PlayedIsSent', NEW b \in Builder, BuildAdd(b)
  PROVE  LengthInv'
<1>1. PICK songs \in Accepted(b), refused \in Rejected(b) :
        /\ Store(refused \o AcceptedRows(b, songs))
        /\ builder' = [builder EXCEPT ![b] =
             BuilderAfter(b, Head(songs), ToTime(songs, nextId + Len(refused)))]
  BY DEF BuildAdd
<1>2. /\ builder[b].pc = "filling" /\ builder[b].batch = <<>>
      /\ builder[b].len < MaxQueueLength
      /\ builder[b] \in Builders /\ builder[b].len \in Nat
  BY DEF BuildAdd, TypeOK, ProcessOK, Builders
<1> DEFINE L == Len(songs)
           first == nextId + Len(refused)
           v == builder[b].len
           Added == first .. first + L - 1
           Taken == {b} \X (v + 1 .. v + L)
<1>3. songs \in Seq(Song) /\ L \in 1 .. MaxBatch /\ L \in Nat \ {0}
  BY <1>1, AcceptedLengthLemma
<1>4. /\ refused \in Seq(Fresh) /\ Len(refused) \in Nat
      /\ \A i \in DOMAIN refused : ~ refused[i].picked
  BY <1>1, RefusedLemma
<1>5. first \in Nat \ {0} /\ nextId \in Nat \ {0}
  BY <1>4 DEF TypeOK
<1>6. v + L <= Most /\ v + L \in Nat
  <2>1. MaxQueueLength \in Nat /\ MaxBatch \in Nat
    BY QueueLengthAssumption, MergedAssumption DEF MaxQueueLength
  <2>2. v \in Nat /\ v < MaxQueueLength
    BY <1>2
  <2> HIDE DEF L, v
  <2> QED
    BY <1>3, <2>1, <2>2 DEF Most
<1>7. Picked(queue') \subseteq Picked(queue) \cup Added
  <2> DEFINE rows == AcceptedRows(b, songs)
             new == refused \o rows
  <2>1. rows \in Seq(Fresh) /\ Len(rows) = L
    <3>1. rows \in Seq(Fresh) /\ DOMAIN rows = DOMAIN songs
      BY <1>3, AcceptedRowsLemma
    <3> QED
      BY <1>3, <3>1
  <2>2. /\ new \in Seq(Fresh) /\ Len(new) = Len(refused) + L
        /\ \A i \in 1 .. Len(refused) : new[i] = refused[i]
    BY <1>4, <2>1
  <2>3. queue' = Insert(queue, nextId, new)
    BY <1>1 DEF Store
  <2> HIDE DEF new
  <2> SUFFICES ASSUME NEW r \in Picked(queue'), r \notin DOMAIN queue
               PROVE  r \in Added
    <3>1. \A r \in DOMAIN queue : r \in DOMAIN queue' /\ queue'[r] = queue[r]
      BY <2>3 DEF Insert
    <3> QED
      BY <3>1 DEF Picked, Unsent
  <2>4. r \in nextId .. nextId + Len(new) - 1 /\ queue'[r] = new[r - nextId + 1]
    BY <2>3 DEF Insert, Picked, Unsent
  <2>5. queue'[r].picked
    BY DEF Picked
  <2>6. ~ r - nextId + 1 \in 1 .. Len(refused)
    BY <1>4, <2>2, <2>4, <2>5
  <2> QED
    BY <1>3, <1>4, <1>5, <2>2, <2>4, <2>6
<1>8. Places(builder') \cup Taken \subseteq Places(builder) /\ Places(builder') \cap Taken = {}
  <2> DEFINE rest == ToTime(songs, first)
  <2>1. Len(rest) = L - 1
    <3>1. DOMAIN rest = 1 .. L - 1 /\ L - 1 \in Nat
      BY <1>3 DEF ToTime
    <3>2. rest \in Seq(Range(rest))
      BY <3>1 DEF Range, ToTime
    <3> QED
      BY <3>1, <3>2
  <2>2. /\ builder'[b].pc = "filling" /\ builder'[b].len = v + 1
        /\ builder'[b].batch = rest
        /\ \A c \in Builder \ {b} : builder'[c] = builder[c]
    BY <1>1, <1>2 DEF BuilderAfter, Builders, TypeOK, ProcessOK
  <2>3. Counted(builder'[b]) = v + L
    BY <1>2, <1>3, <2>1, <2>2 DEF Counted
  <2>4. Counted(builder[b]) = v
    BY <1>2 DEF Counted
  <2>5. Taken \subseteq Places(builder)
    <3> SUFFICES ASSUME NEW i \in v + 1 .. v + L PROVE <<b, i>> \in Places(builder)
      OBVIOUS
    <3>1. i \in 1 .. Most /\ i > v
      BY <1>2, <1>3, <1>6, MostLemma
    <3> QED
      BY <1>2, <2>4, <3>1 DEF Places
  <2>6. ASSUME NEW p \in Places(builder') PROVE p \in Places(builder) /\ p \notin Taken
    <3>1. /\ p \in Builder \X (1 .. Most)
          /\ builder'[p[1]].pc \in {"retiming", "filling"}
          /\ p[2] > Counted(builder'[p[1]])
      BY DEF Places
    <3>2. CASE p[1] = b
      <4>1. p[2] > v + L
        BY <2>3, <3>1, <3>2
      <4>2. p[2] > v /\ p[2] \notin v + 1 .. v + L
        BY <1>2, <1>3, <3>1, <4>1, MostLemma
      <4> QED
        BY <1>2, <2>4, <3>1, <3>2, <4>2 DEF Places
    <3>3. CASE p[1] # b
      BY <2>2, <3>1, <3>3 DEF Places
    <3> QED
      BY <3>2, <3>3
  <2> QED
    BY <2>5, <2>6
<1>9. IsFiniteSet(Added) /\ Cardinality(Added) = L
  <2> HIDE DEF first, L
  <2>1. /\ first \in Nat /\ first + L - 1 \in Nat
        /\ first <= first + L - 1 + 1 /\ first + L - 1 - first + 1 = L
    BY <1>3, <1>5
  <2> DEFINE high == first + L - 1
  <2> HIDE DEF high
  <2>2. high \in Nat /\ first <= high + 1 /\ high - first + 1 = L
    BY <1>3, <1>5, <2>1 DEF high
  <2>3. IsFiniteSet(first .. high) /\ Cardinality(first .. high) = high - first + 1
    BY <2>1, <2>2, IntervalLemma
  <2> QED
    BY <2>2, <2>3 DEF high, Added
<1>10. IsFiniteSet(Taken) /\ Cardinality(Taken) = L
  <2>0. v \in Nat
    BY <1>2
  <2> HIDE DEF v, L
  <2>1. v + 1 \in Nat /\ v + L \in Nat /\ v + 1 <= v + L + 1 /\ v + L - (v + 1) + 1 = L
    BY <1>3, <2>0
  <2>2. IsFiniteSet(v + 1 .. v + L) /\ Cardinality(v + 1 .. v + L) = L
    <3> DEFINE low == v + 1
               high == v + L
    <3> HIDE DEF low, high
    <3>1. low \in Nat /\ high \in Nat /\ low <= high + 1 /\ high - low + 1 = L
      BY <1>3, <2>0, <2>1 DEF low, high
    <3>2. IsFiniteSet(low .. high) /\ Cardinality(low .. high) = high - low + 1
      BY <3>1, IntervalLemma
    <3> QED
      BY <3>1, <3>2 DEF low, high
  <2>3. IsFiniteSet({b}) /\ Cardinality({b}) = 1
    BY FS_Singleton
  <2>4. IsFiniteSet(Taken) /\ Cardinality(Taken) = 1 * L
    BY <2>2, <2>3, FS_Product
  <2> QED
    BY <1>3, <2>4
<1> HIDE DEF L, first, v, Added, Taken
<1>11. /\ IsFiniteSet(Picked(queue)) /\ Cardinality(Picked(queue)) \in Nat
       /\ Cardinality(Picked(queue')) \in Nat
  BY PickedLemma DEF TypeOK
<1>12. Cardinality(Picked(queue')) <= Cardinality(Picked(queue)) + L
  <2>1. Cardinality(Picked(queue) \cap Added) \in Nat
    BY <1>9, FS_Intersection, FS_CardinalityType
  <2>2. /\ IsFiniteSet(Picked(queue) \cup Added)
        /\ Cardinality(Picked(queue) \cup Added)
             = Cardinality(Picked(queue)) + L - Cardinality(Picked(queue) \cap Added)
    BY <1>9, <1>11, FS_Union
  <2>3. Cardinality(Picked(queue')) <= Cardinality(Picked(queue) \cup Added)
    BY <1>7, <2>2, FS_Subset
  <2> QED
    BY <1>3, <1>11, <2>1, <2>2, <2>3
<1>13. /\ IsFiniteSet(Places(builder)) /\ Cardinality(Places(builder)) \in Nat
       /\ IsFiniteSet(Places(builder')) /\ Cardinality(Places(builder')) \in Nat
  BY PlacesLemma
<1>14. Cardinality(Places(builder')) + L <= Cardinality(Places(builder))
  <2>1. /\ IsFiniteSet(Places(builder') \cup Taken)
        /\ Cardinality(Places(builder') \cup Taken) = Cardinality(Places(builder')) + L
    <3>1. Cardinality(Places(builder') \cap Taken) = 0
      BY <1>8, FS_EmptySet
    <3>2. /\ IsFiniteSet(Places(builder') \cup Taken)
          /\ Cardinality(Places(builder') \cup Taken)
               = Cardinality(Places(builder')) + Cardinality(Taken)
                   - Cardinality(Places(builder') \cap Taken)
      BY <1>10, <1>13, FS_Union
    <3> QED
      BY <1>3, <1>10, <1>13, <3>1, <3>2
  <2> QED
    BY <1>8, <1>13, <2>1, FS_Subset
<1>15. Cardinality(Builder) * Most \in Nat
  BY MostLemma
<1> QED
  BY <1>3, <1>11, <1>12, <1>13, <1>14, <1>15 DEF LengthInv

-----------------------------------------------------------------------------
(***************************************************************************)
(* The other steps leave no more picked rows and no more places.           *)
(***************************************************************************)

\* The other steps of a builder.
LEMMA BuilderLemma ==
  ASSUME TypeOK, NEW b \in Builder, Build(b), ~ BuildRead(b), ~ BuildAdd(b)
  PROVE  /\ Picked(queue') \subseteq Picked(queue)
         /\ Places(builder') \subseteq Places(builder)
<1>1. IsTable(queue, nextId) /\ builder \in [Builder -> Builders] /\ builder[b].len \in Nat
  BY DEF TypeOK, ProcessOK, Builders
<1>2. ASSUME builder' = [builder EXCEPT ![b] = IdleBuilder]
      PROVE  Places(builder') \subseteq Places(builder)
  <2>1. builder'[b].pc = "idle" /\ \A c \in Builder \ {b} : builder'[c] = builder[c]
    BY <1>1, <1>2 DEF IdleBuilder
  <2> QED
    BY <2>1 DEF Places
<1>3. CASE BuildFlush(b)
  <2>1. Picked(queue') = Picked(queue)
    BY <1>1, <1>3, PickedCuedLemma DEF BuildFlush
  <2>2. /\ builder[b].pc = "retiming"
        /\ builder'[b].len = builder[b].len /\ builder'[b].batch = builder[b].batch
        /\ \A c \in Builder \ {b} : builder'[c] = builder[c]
    BY <1>1, <1>3 DEF BuildFlush, Builders
  <2> QED
    BY <2>1, <2>2 DEF Places, Counted
<1>4. CASE BuildAddNext(b)
  <2> DEFINE next == Head(builder[b].batch)
  <2>1. Picked(queue') = Picked(queue)
    BY <1>1, <1>4, PickedCuedLemma DEF BuildAddNext
  <2>2. /\ builder[b].pc = "filling" /\ builder[b].batch # <<>>
        /\ builder[b].batch \in Seq([row: RowId, song: Song, cued: Timestamp])
        /\ builder' = [builder EXCEPT ![b] = BuilderAfter(b, next.song, Tail(builder[b].batch))]
    BY <1>1, <1>4 DEF BuildAddNext, Builders
  <2>3. /\ builder'[b].len = builder[b].len + 1
        /\ builder'[b].batch = Tail(builder[b].batch)
        /\ \A c \in Builder \ {b} : builder'[c] = builder[c]
    BY <1>1, <2>2 DEF BuilderAfter, Builders
  <2>4. Len(Tail(builder[b].batch)) = Len(builder[b].batch) - 1 /\ Len(builder[b].batch) \in Nat
    BY <2>2
  <2>5. Counted(builder'[b]) = Counted(builder[b])
    BY <1>1, <2>3, <2>4 DEF Counted
  <2> QED
    BY <2>1, <2>2, <2>3, <2>5 DEF Places
<1>5. CASE BuildGiveUp(b)
  <2>1. PICK refused \in Rejected(b) : Store(refused)
    BY <1>5 DEF BuildGiveUp
  <2>2. Picked(queue') \subseteq Picked(queue)
    BY <2>1, RefusedLemma, PickedStoredLemma
  <2> QED
    BY <1>2, <1>5, <2>2 DEF BuildGiveUp
<1>6. CASE BuildDone(b) \/ BuildCrash(b)
  BY <1>2, <1>6 DEF BuildDone, BuildCrash
<1> QED
  BY <1>3, <1>4, <1>5, <1>6 DEF Build

\* The steps of the web workers and of Liquidsoap.
LEMMA WorkerLemma ==
  ASSUME TypeOK,
         \/ \E f \in Fetcher : Fetch(f)
         \/ FetchTimeout \/ StartTrack \/ OverEnds \/ Tick
         \/ \E w \in FeedbackWorker : Feedback(w)
  PROVE  Picked(queue') \subseteq Picked(queue) /\ builder' = builder
<1>1. IsTable(queue, nextId)
  BY DEF TypeOK
<1>2. ASSUME NEW f \in Fetcher, Fetch(f)
      PROVE  Picked(queue') \subseteq Picked(queue) /\ builder' = builder
  <2>1. CASE FetchSend(f)
    BY <1>1, <2>1, PickedSentLemma DEF FetchSend
  <2>2. CASE FetchRead(f) \/ FetchFail(f)
    BY <2>2 DEF FetchRead, FetchFail
  <2> QED
    BY <1>2, <2>1, <2>2 DEF Fetch
<1>3. ASSUME NEW w \in FeedbackWorker, Feedback(w)
      PROVE  Picked(queue') \subseteq Picked(queue) /\ builder' = builder
  <2>1. CASE FeedbackTrack(w)
    BY <1>1, <2>1, PickedTrackedLemma DEF FeedbackTrack
  <2>2. CASE (\E s \in reports : FeedbackRead(w, s)) \/ FeedbackSave(w) \/ FeedbackFail(w)
    BY <2>2 DEF FeedbackRead, FeedbackSave, FeedbackFail
  <2> QED
    BY <1>3, <2>1, <2>2 DEF Feedback
<1>4. CASE FetchTimeout \/ StartTrack \/ OverEnds \/ Tick
  BY <1>4 DEF FetchTimeout, StartTrack, OverEnds, Tick
<1> QED
  BY <1>2, <1>3, <1>4

\* The steps of operators, DJs and cleanup.
LEMMA OperatorLemma ==
  ASSUME TypeOK, Operate
  PROVE  /\ Picked(queue') \subseteq Picked(queue)
         /\ Places(builder') \subseteq Places(builder)
<1>1. ASSUME NEW R, DropRows(R)
      PROVE  Picked(queue') \subseteq Picked(queue) /\ builder' = builder
  BY <1>1, PickedDeletedLemma DEF DropRows
<1>2. CASE \/ \E r \in RowId : OpDelete(r)
           \/ OpClearUpcoming \/ OpClearUnplayed \/ Cleanup
           \/ \E s \in Song : OpUnassign(s)
  BY <1>1, <1>2 DEF OpDelete, OpClearUpcoming, OpClearUnplayed, OpUnassign, Cleanup
<1>3. ASSUME NEW b \in Rebuilder, OpRebuild(b)
      PROVE  /\ Picked(queue') \subseteq Picked(queue)
             /\ Places(builder') \subseteq Places(builder)
  <2>1. b \in Builder /\ builder \in [Builder -> Builders]
    BY DEF Builder, TypeOK, ProcessOK
  <2>2. builder'[b].pc = "asked" /\ \A c \in Builder \ {b} : builder'[c] = builder[c]
    BY <1>3, <2>1 DEF OpRebuild, Builders
  <2>3. Picked(queue') \subseteq Picked(queue)
    BY <1>3, PickedDeletedLemma DEF OpRebuild
  <2> QED
    BY <2>2, <2>3 DEF Places
<1>4. CASE OpQueueWrite
  <2> DEFINE new == [i \in DOMAIN manual.songs |->
                       NewRow(manual.songs[i], manual.cue - (i - 1) * QueueGap, FALSE)]
  <2>1. manual.songs \in Seq(Song) /\ manual.cue \in Int /\ QueueGap \in Int
    BY BoundAssumption DEF TypeOK, ProcessOK
  <2>2. new \in Seq(Fresh) /\ \A i \in DOMAIN new : ~ new[i].picked
    <3>1. DOMAIN manual.songs = 1 .. Len(manual.songs) /\ Len(manual.songs) \in Nat
      BY <2>1
    <3>2. \A i \in DOMAIN manual.songs : manual.songs[i] \in Song /\ i \in Int
      BY <2>1
    <3>3. \A i \in DOMAIN manual.songs : manual.cue - (i - 1) * QueueGap \in Int
      BY <2>1, <3>2
    <3>4. new \in [1 .. Len(manual.songs) -> Fresh]
      BY <3>1, <3>2, <3>3 DEF NewRow, Fresh
    <3> QED
      BY <3>1, <3>4, SeqLemma DEF NewRow
  <2>3. Store(new) /\ builder' = builder
    BY <1>4 DEF OpQueueWrite
  <2> HIDE DEF new
  <2> QED
    BY <2>2, <2>3, PickedStoredLemma
<1>5. ASSUME NEW s \in Song, OpPlayNow(s)
      PROVE  Picked(queue') \subseteq Picked(queue) /\ builder' = builder
  <2> DEFINE new == <<PlayedRow(s, now)>>
  <2>1. PlayedRow(s, now) \in Fresh /\ ~ PlayedRow(s, now).picked
    BY DEF TypeOK, ProcessOK, PlayedRow, NewRow, Fresh
  <2>2. new \in Seq(Fresh) /\ \A i \in DOMAIN new : ~ new[i].picked
    BY <2>1, AppendLemma
  <2>3. Store(new) /\ builder' = builder
    BY <1>5 DEF OpPlayNow
  <2> HIDE DEF new
  <2> QED
    BY <2>2, <2>3, PickedStoredLemma
<1>6. CASE OpQueueRead \/ LiveBegins
  BY <1>6 DEF OpQueueRead, LiveBegins
<1> QED
  BY <1>2, <1>3, <1>4, <1>5, <1>6 DEF Operate

-----------------------------------------------------------------------------
LEMMA LengthStep ==
  ASSUME TypeOK, LengthInv, [Next]_vars
  PROVE  LengthInv'
<1>1. TypeOK' /\ PlayedIsSent'
  BY StepLemma, StatementLemma DEF LengthInv
<1>2. CASE UNCHANGED vars
  BY <1>1, <1>2, FewerLemma DEF vars
<1>3. ASSUME NEW b \in Builder, Build(b) PROVE LengthInv'
  BY <1>1, <1>3, ReadLemma, AddLemma, BuilderLemma, FewerLemma
<1>4. CASE Operate
  BY <1>1, <1>4, OperatorLemma, FewerLemma
<1>5. CASE \/ \E f \in Fetcher : Fetch(f)
           \/ FetchTimeout \/ StartTrack \/ OverEnds \/ Tick
           \/ \E w \in FeedbackWorker : Feedback(w)
  BY <1>1, <1>5, WorkerLemma, FewerLemma
<1> QED
  BY <1>2, <1>3, <1>4, <1>5 DEF Next

\* buildQueue's own unsent rows stay within the configured length per builder,
\* up to the length of a merged playlist, for any number of builders without a
\* common lock, and whatever is sent, deleted or queued by hand beside them.
THEOREM PickedBoundCorrect == Spec => []PickedBound
<1>1. Init => LengthInv
  <2> SUFFICES ASSUME Init PROVE LengthInv
    OBVIOUS
  <2>1. Picked(queue) = {} /\ PlayedIsSent
    BY DEF Init, Picked, Unsent, EmptyTable, PlayedIsSent
  <2>2. Places(builder) = {}
    BY DEF Init, Places, IdleBuilder
  <2>3. Cardinality(Picked(queue)) = 0 /\ Cardinality(Places(builder)) = 0
    BY <2>1, <2>2, FS_EmptySet
  <2>4. 0 + 0 <= Cardinality(Builder) * Most
    BY MostLemma
  <2> QED
    BY <2>1, <2>3, <2>4 DEF LengthInv
<1>2. TypeOK /\ LengthInv /\ [Next]_vars => LengthInv'
  BY LengthStep
<1>3. TypeOK /\ LengthInv => PickedBound
  <2> SUFFICES ASSUME TypeOK, LengthInv PROVE PickedBound
    OBVIOUS
  <2>1. Cardinality(Picked(queue)) \in Nat
    BY PickedLemma DEF TypeOK
  <2>2. Cardinality(Places(builder)) \in Nat /\ Cardinality(Builder) * Most \in Nat
    BY PlacesLemma, MostLemma
  <2>3. Cardinality(Picked(queue)) <= Cardinality(Builder) * Most
    BY <2>1, <2>2 DEF LengthInv
  <2> QED
    BY <2>3 DEF PickedBound, Most
<1> QED
  BY <1>1, <1>2, <1>3, TypeCorrect, PTL DEF Spec
=============================================================================
