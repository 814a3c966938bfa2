------------------------- MODULE AutoDjQueueProofs -------------------------
(***************************************************************************)
(* Proofs about AutoDjQueue, for every library, number of workers, queue   *)
(* length and bound.  First what the statements of StationQueue do to a    *)
(* table, then the type invariant, then the safety properties.             *)
(***************************************************************************)
EXTENDS AutoDjQueue, FiniteSetTheorems, TLAPS

USE SongAssumption, MergedAssumption, NoSongAssumption, BoundAssumption, NoRowAssumption, NoFetcherAssumption

-----------------------------------------------------------------------------
(***************************************************************************)
(* The statements.                                                         *)
(***************************************************************************)

\* Inserting keeps the rows there are and gives the new ones the next ids.
LEMMA InsertLemma ==
  ASSUME NEW q, NEW n \in Nat \ {0}, IsTable(q, n), NEW new \in Seq(Row)
  PROVE  /\ IsTable(Insert(q, n, new), n + Len(new))
         /\ DOMAIN q \subseteq DOMAIN Insert(q, n, new)
         /\ \A r \in DOMAIN q : Insert(q, n, new)[r] = q[r]
         /\ \A r \in DOMAIN Insert(q, n, new) \ DOMAIN q :
              /\ r >= n
              /\ \E i \in DOMAIN new : Insert(q, n, new)[r] = new[i]
BY DEF IsTable, Insert

\* Deleting keeps the other rows as they are.
LEMMA DeleteLemma ==
  ASSUME NEW q, NEW n, IsTable(q, n), NEW R
  PROVE  /\ IsTable(Delete(q, R), n)
         /\ DOMAIN Delete(q, R) \subseteq DOMAIN q
         /\ \A r \in DOMAIN Delete(q, R) : Delete(q, R)[r] = q[r]
BY DEF IsTable, Delete

\* Writing cue times leaves the flags alone.
LEMMA SetCuedLemma ==
  ASSUME NEW q, NEW n, IsTable(q, n), NEW cue,
         \A r \in DOMAIN cue : cue[r] \in Timestamp
  PROVE  /\ IsTable(SetCued(q, cue), n)
         /\ DOMAIN SetCued(q, cue) = DOMAIN q
         /\ \A r \in DOMAIN q : /\ SetCued(q, cue)[r].sent = q[r].sent
                                /\ SetCued(q, cue)[r].played = q[r].played
BY DEF IsTable, SetCued, Row

\* Sending a row sets its sent flag and no other flag.
LEMMA SetSentLemma ==
  ASSUME NEW q, NEW n, IsTable(q, n), NEW id, NEW at \in Timestamp
  PROVE  /\ IsTable(SetSent(q, id, at), n)
         /\ DOMAIN SetSent(q, id, at) = DOMAIN q
         /\ \A r \in DOMAIN q :
              /\ r = id \/ q[r].sent => SetSent(q, id, at)[r].sent
              /\ SetSent(q, id, at)[r].played = q[r].played
BY DEF IsTable, SetSent, Row

\* Tracking sets both flags of the rows it marks, the tracked row among them.
LEMMA TrackPlayedLemma ==
  ASSUME NEW q, NEW n, IsTable(q, n), NEW id, NEW cue
  PROVE  /\ IsTable(TrackPlayed(q, id, cue), n)
         /\ DOMAIN TrackPlayed(q, id, cue) = DOMAIN q
         /\ \A r \in DOMAIN q :
              LET new == TrackPlayed(q, id, cue)[r]
              IN  new = q[r] \/ (new.sent /\ new.played)
         /\ id \in DOMAIN q => TrackPlayed(q, id, cue)[id].played
BY DEF IsTable, TrackPlayed, Row

\* A function on the numbers up to m is a sequence.
LEMMA SeqLemma ==
  ASSUME NEW D, NEW T \in SUBSET D, NEW m \in Nat, NEW o \in [1 .. m -> T]
  PROVE  o \in Seq(D)
OBVIOUS

\* Sequences grow by elements of their set.
LEMMA AppendLemma ==
  ASSUME NEW D, NEW x \in D
  PROVE  <<x>> \in Seq(D) /\ \A s \in Seq(D) : Append(s, x) \in Seq(D)
OBVIOUS

\* A reading of the unplayed queue lists rows of the table, its length is a
\* number, and only rows it lists are re-timed.
LEMMA ReadingLemma ==
  ASSUME NEW q, NEW n \in Nat, IsTable(q, n), NEW o \in UnplayedQueues(q)
  PROVE  /\ o \in Seq(DOMAIN q)
         /\ CountedLength(q, o) \in Nat
         /\ \A first : DOMAIN Retimed(q, o, first) \subseteq DOMAIN q
<1>1. IsFiniteSet(DOMAIN q)
  <2>1. IsFiniteSet(1 .. n - 1)
    BY FS_Interval
  <2> QED
    BY <2>1, FS_Subset DEF IsTable
<1>2. Cardinality(Unplayed(q)) \in Nat
  <2>1. Unplayed(q) \in SUBSET DOMAIN q
    BY DEF Unplayed
  <2> QED
    BY <1>1, <2>1, FS_Subset, FS_CardinalityType
<1>3. /\ o \in [1 .. Cardinality(Unplayed(q)) -> Unplayed(q)]
      /\ DOMAIN o = 1 .. Cardinality(Unplayed(q))
  BY DEF UnplayedQueues, SetToSeqs
<1>4. o \in Seq(DOMAIN q)
  BY <1>2, <1>3, SeqLemma DEF Unplayed
<1>5. Cardinality(DOMAIN o \ SentPositions(q, o)) \in Nat
  <2>1. IsFiniteSet(DOMAIN o)
    BY <1>2, <1>3, FS_Interval
  <2>2. DOMAIN o \ SentPositions(q, o) \in SUBSET DOMAIN o
    OBVIOUS
  <2> QED
    BY <2>1, <2>2, FS_Subset, FS_CardinalityType
<1>6. CountedLength(q, o) \in Nat
  BY <1>5 DEF CountedLength
<1>7. \A first : DOMAIN Retimed(q, o, first) \subseteq DOMAIN q
  BY <1>3 DEF Retimed, Unplayed
<1> QED
  BY <1>4, <1>6, <1>7

-----------------------------------------------------------------------------
(***************************************************************************)
(* What a step does to the table: it runs at most one statement.           *)
(***************************************************************************)

\* The rows a process inserts; their cue time may not fit the column.
Fresh == {x \in [song: Song, cued: Int, sent: BOOLEAN, played: BOOLEAN, picked: BOOLEAN] :
            x.played => x.sent}

Statement ==
  \/ UNCHANGED <<queue, nextId>>
  \/ \E new \in Seq(Fresh) : Store(new)
  \/ /\ nextId' = nextId
     /\ \/ \E cue : /\ \A r \in DOMAIN cue : cue[r] \in Timestamp
                    /\ queue' = SetCued(queue, cue)
        \/ \E id : now \in Timestamp /\ queue' = SetSent(queue, id, now)
        \/ \E id, cue : queue' = TrackPlayed(queue, id, cue)
        \/ \E R : queue' = Delete(queue, R)

\* No row is played and not sent.
PlayedIsSent == \A r \in DOMAIN queue : queue[r].played => queue[r].sent

\* The rows there were lose no flag, and no id is used again.
Advanced ==
  /\ nextId <= nextId'
  /\ \A r \in DOMAIN queue' : r < nextId =>
       /\ r \in DOMAIN queue
       /\ queue[r].sent => queue'[r].sent
       /\ queue[r].played => queue'[r].played

LEMMA StatementLemma ==
  ASSUME TypeOK, Statement
  PROVE  /\ nextId' \in 1 .. MaxRow + 1 /\ IsTable(queue', nextId')
         /\ Advanced
         /\ PlayedIsSent => PlayedIsSent'
<1> USE DEF Advanced, PlayedIsSent
<1>0. nextId \in 1 .. MaxRow + 1 /\ IsTable(queue, nextId) /\ nextId \in Nat \ {0}
  BY DEF TypeOK
<1>1. CASE UNCHANGED <<queue, nextId>>
  BY <1>0, <1>1 DEF IsTable
<1>2. ASSUME NEW new \in Seq(Fresh), Store(new)
      PROVE  /\ nextId' \in 1 .. MaxRow + 1 /\ IsTable(queue', nextId')
             /\ Advanced
             /\ PlayedIsSent => PlayedIsSent'
  <2>1. new \in Seq(Row)
    <3>1. \A x \in Fresh : x.cued \in Timestamp => x \in Row
      BY DEF Fresh, Row
    <3>2. \A i \in DOMAIN new : new[i] \in Row
      BY <1>2, <3>1 DEF Store
    <3> QED
      BY <3>2
  <2>2. /\ nextId' = nextId + Len(new) /\ nextId' <= MaxRow + 1
        /\ queue' = Insert(queue, nextId, new)
    BY <1>2 DEF Store
  <2>3. \A i \in DOMAIN new : new[i].played => new[i].sent
    BY DEF Fresh
  <2>4. Len(new) \in Nat
    OBVIOUS
  <2>5. /\ IsTable(queue', nextId')
        /\ DOMAIN queue \subseteq DOMAIN queue'
        /\ \A r \in DOMAIN queue : queue'[r] = queue[r]
        /\ \A r \in DOMAIN queue' \ DOMAIN queue :
             r >= nextId /\ \E i \in DOMAIN new : queue'[r] = new[i]
    BY <1>0, <2>1, <2>2, InsertLemma
  <2> QED
    BY <1>0, <2>2, <2>3, <2>4, <2>5 DEF IsTable
<1>3. ASSUME nextId' = nextId, NEW cue, \A r \in DOMAIN cue : cue[r] \in Timestamp,
             queue' = SetCued(queue, cue)
      PROVE  /\ nextId' \in 1 .. MaxRow + 1 /\ IsTable(queue', nextId')
             /\ Advanced
             /\ PlayedIsSent => PlayedIsSent'
  BY <1>0, <1>3, SetCuedLemma
<1>4. ASSUME nextId' = nextId, NEW id, now \in Timestamp,
             queue' = SetSent(queue, id, now)
      PROVE  /\ nextId' \in 1 .. MaxRow + 1 /\ IsTable(queue', nextId')
             /\ Advanced
             /\ PlayedIsSent => PlayedIsSent'
  BY <1>0, <1>4, SetSentLemma
<1>5. ASSUME nextId' = nextId, NEW id, NEW cue, queue' = TrackPlayed(queue, id, cue)
      PROVE  /\ nextId' \in 1 .. MaxRow + 1 /\ IsTable(queue', nextId')
             /\ Advanced
             /\ PlayedIsSent => PlayedIsSent'
  BY <1>0, <1>5, TrackPlayedLemma
<1>6. ASSUME nextId' = nextId, NEW R, queue' = Delete(queue, R)
      PROVE  /\ nextId' \in 1 .. MaxRow + 1 /\ IsTable(queue', nextId')
             /\ Advanced
             /\ PlayedIsSent => PlayedIsSent'
  BY <1>0, <1>6, DeleteLemma
<1> QED
  BY <1>1, <1>2, <1>3, <1>4, <1>5, <1>6 DEF Statement

-----------------------------------------------------------------------------
(***************************************************************************)
(* Each action runs at most one statement and keeps the shape of what the  *)
(* processes hold.                                                         *)
(***************************************************************************)

\* A batch is a non-empty sequence of songs.
LEMMA BatchLemma ==
  ASSUME NEW songs \in Batches
  PROVE  songs \in Seq(Song) /\ songs # <<>>
<1>1. PICK n \in 1 .. MaxManual : songs \in [1 .. n -> Song]
  BY DEF Batches
<1>2. n \in Nat \ {0}
  BY <1>1
<1> QED
  BY <1>1, <1>2, SeqLemma

\* A plan may change no row.
LEMMA EmptyPlanLemma == EmptyTable \in Plans
<1>1. EmptyTable \in [{} -> Timestamp]
  BY DEF EmptyTable
<1> QED
  BY <1>1 DEF Plans

\* The accepted songs are a non-empty sequence of songs.
LEMMA AcceptedLemma ==
  ASSUME NEW b \in Builder, NEW songs \in Accepted(b)
  PROVE  songs \in Seq(Song) /\ songs # <<>>
<1>1. CASE \E s \in Song : songs = <<s>>
  BY <1>1, AppendLemma
<1>2. CASE songs \in Merged
  <2>1. PICK n \in 1 .. MaxBatch : songs \in [1 .. n -> Song]
    BY <1>2
  <2>2. n \in Nat \ {0}
    BY <2>1
  <2> QED
    BY <2>1, <2>2, SeqLemma
<1> QED
  BY <1>1, <1>2 DEF Accepted

\* What a builder remembers of a row it has stored and not timed.
Pending == [row: RowId, song: Song, cued: Timestamp]

\* The builder after it has timed a row is a builder.
LEMMA BuilderAfterLemma ==
  ASSUME TypeOK, NEW b \in Builder, NEW song \in Song, NEW rest \in Seq(Pending),
         builder[b].pc = "filling"
  PROVE  BuilderAfter(b, song, rest) \in Builders
<1>1. Advance(song) \in Int
  BY DurationAssumption, CrossfadeAssumption DEF Advance
<1>2. builder[b] \in Builders
  BY DEF TypeOK, ProcessOK
<1>3. builder[b].cue + Advance(song) \in Int /\ builder[b].len + 1 \in Nat
  BY <1>1, <1>2 DEF Builders
<1> QED
  BY <1>2, <1>3 DEF BuilderAfter, Builders, Pending

\* The rows of accepted songs are fresh rows.
LEMMA AcceptedRowsLemma ==
  ASSUME TypeOK, NEW b \in Builder, NEW songs \in Seq(Song)
  PROVE  AcceptedRows(b, songs) \in Seq(Fresh) /\ DOMAIN AcceptedRows(b, songs) = DOMAIN songs
<1>1. now \in Int /\ builder[b].cue \in Int
  BY DEF TypeOK, ProcessOK, Builders
<1>2. AcceptedRows(b, songs) \in [1 .. Len(songs) -> Fresh]
  BY <1>1 DEF AcceptedRows, NewRow, Fresh
<1> QED
  BY <1>2, SeqLemma

\* The rows of refused songs are fresh rows.
LEMMA RejectedLemma ==
  ASSUME TypeOK, NEW b \in Builder, NEW refused \in Rejected(b)
  PROVE  refused \in Seq(Fresh)
<1>1. PICK k \in 0 .. (IF builder[b].last = NoSong THEN 0 ELSE MaxReject) :
        refused = [i \in 1 .. k |-> NewRow(builder[b].last, now, FALSE)]
  BY DEF Rejected
<1>2. k \in Nat
  BY <1>1
<1>3. builder[b].last # NoSong => NewRow(builder[b].last, now, FALSE) \in Fresh
  BY DEF TypeOK, ProcessOK, Builders, NewRow, Fresh
<1>4. CASE builder[b].last = NoSong
  <2>1. k = 0
    BY <1>4
  <2>2. refused \in [1 .. k -> Fresh]
    BY <1>1, <2>1
  <2> QED
    BY <1>2, <2>2, SeqLemma
<1>5. CASE builder[b].last # NoSong
  <2>1. refused \in [1 .. k -> Fresh]
    BY <1>1, <1>3, <1>5
  <2> QED
    BY <1>2, <2>1, SeqLemma
<1> QED
  BY <1>4, <1>5

\* A step of a builder.
LEMMA BuildLemma ==
  ASSUME TypeOK, NEW b \in Builder, Build(b)
  PROVE  Statement /\ ProcessOK'
<1>0. ASSUME builder' \in [Builder -> Builders],
             UNCHANGED <<now, fetchVars, deckVars, feedbackVars, operVars>>
      PROVE  ProcessOK'
  BY <1>0 DEF TypeOK, ProcessOK, fetchVars, deckVars, feedbackVars, operVars
<1>1. CASE BuildRead(b)
  <2>1. PICK o \in UnplayedQueues(queue) :
          LET first == FirstCue(queue, o, now)
              cue   == Retimed(queue, o, first)
              next  == CueAfter(queue, o, DOMAIN o \ SentPositions(queue, o), first)
          IN  /\ next \in Timestamp /\ \A r \in DOMAIN cue : cue[r] \in Timestamp
              /\ builder' = [builder EXCEPT ![b] =
                   [pc    |-> "retiming",
                    plan  |-> Changed(queue, cue),
                    cue   |-> next,
                    last  |-> IF o = <<>> THEN NoSong ELSE queue[o[Len(o)]].song,
                    len   |-> CountedLength(queue, o),
                    batch |-> <<>>,
                    read  |-> [r \in DOMAIN cue |-> queue[r].cued]]]
    BY <1>1 DEF BuildRead
  <2> DEFINE cue == Retimed(queue, o, FirstCue(queue, o, now))
  <2>2. /\ o \in Seq(DOMAIN queue)
        /\ CountedLength(queue, o) \in Nat
        /\ \A first : DOMAIN Retimed(queue, o, first) \subseteq DOMAIN queue
    <3>1. nextId \in Nat /\ IsTable(queue, nextId)
      BY DEF TypeOK
    <3> QED
      BY <3>1, ReadingLemma
  <2>3. Changed(queue, cue) \in Plans
    <3>1. DOMAIN Changed(queue, cue) \subseteq RowId
      BY <2>2 DEF Changed, TypeOK, IsTable, RowId
    <3>2. Changed(queue, cue) \in [DOMAIN Changed(queue, cue) -> Timestamp]
      BY <2>1 DEF Changed
    <3> QED
      BY <3>1, <3>2 DEF Plans
  <2>4. o # <<>> => queue[o[Len(o)]].song \in Song
    BY <2>2 DEF TypeOK, IsTable, Row
  <2>6. [r \in DOMAIN cue |-> queue[r].cued] \in Plans
    <3>1. DOMAIN cue \subseteq RowId
      BY <2>2 DEF TypeOK, IsTable, RowId
    <3>2. [r \in DOMAIN cue |-> queue[r].cued] \in [DOMAIN cue -> Timestamp]
      BY <2>2 DEF TypeOK, IsTable, Row
    <3> QED
      BY <3>1, <3>2 DEF Plans
  <2>5. builder' \in [Builder -> Builders]
    <3> DEFINE read == [pc    |-> "retiming",
                        plan  |-> Changed(queue, cue),
                        cue   |-> CueAfter(queue, o, DOMAIN o \ SentPositions(queue, o),
                                           FirstCue(queue, o, now)),
                        last  |-> IF o = <<>> THEN NoSong ELSE queue[o[Len(o)]].song,
                        len   |-> CountedLength(queue, o),
                        batch |-> <<>>,
                        read  |-> [r \in DOMAIN cue |-> queue[r].cued]]
    <3>1. read.cue \in Int
      BY <2>1, TimestampAssumption
    <3>2. read \in Builders
      BY <2>2, <2>3, <2>4, <2>6, <3>1 DEF Builders
    <3>3. builder' = [builder EXCEPT ![b] = read]
      BY <2>1
    <3> HIDE DEF read
    <3> QED
      BY <3>2, <3>3 DEF TypeOK, ProcessOK
  <2> QED
    BY <1>0, <1>1, <2>5 DEF BuildRead, Statement
<1>2. CASE BuildFlush(b)
  <2>1. \A r \in DOMAIN builder[b].plan : builder[b].plan[r] \in Timestamp
    BY DEF TypeOK, ProcessOK, Builders, Plans
  <2>2. Statement
    BY <1>2, <2>1 DEF BuildFlush, Statement
  <2>3. [builder[b] EXCEPT !.pc = "filling", !.plan = EmptyTable,
                           !.read = EmptyTable] \in Builders
    <3>1. builder[b] \in Builders
      BY DEF TypeOK, ProcessOK
    <3> QED
      BY <3>1, EmptyPlanLemma DEF Builders
  <2>4. builder' = [builder EXCEPT ![b] =
                      [builder[b] EXCEPT !.pc = "filling", !.plan = EmptyTable,
                                         !.read = EmptyTable]]
    BY <1>2 DEF BuildFlush, TypeOK, ProcessOK
  <2>5. builder' \in [Builder -> Builders]
    <3> DEFINE flushed == [builder[b] EXCEPT !.pc = "filling", !.plan = EmptyTable,
                                         !.read = EmptyTable]
    <3> HIDE DEF flushed
    <3>1. builder' = [builder EXCEPT ![b] = flushed] /\ flushed \in Builders
      BY <2>3, <2>4 DEF flushed
    <3> QED
      BY <3>1 DEF TypeOK, ProcessOK
  <2> QED
    BY <1>0, <1>2, <2>2, <2>5 DEF BuildFlush
<1>3. CASE BuildAdd(b)
  <2>1. PICK songs \in Accepted(b), refused \in Rejected(b) :
          /\ Store(refused \o AcceptedRows(b, songs))
          /\ builder' = [builder EXCEPT ![b] =
               BuilderAfter(b, Head(songs), ToTime(songs, nextId + Len(refused)))]
    BY <1>3 DEF BuildAdd
  <2> DEFINE rows == AcceptedRows(b, songs)
  <2>2. songs \in Seq(Song) /\ songs # <<>> /\ Head(songs) \in Song
    BY AcceptedLemma
  <2>3. refused \in Seq(Fresh)
    BY RejectedLemma
  <2>4. rows \in Seq(Fresh) /\ Len(rows) = Len(songs)
    BY <2>2, AcceptedRowsLemma
  <2>5. Statement
    <3>1. refused \o rows \in Seq(Fresh)
      BY <2>3, <2>4
    <3> QED
      BY <2>1, <3>1 DEF Statement
  <2>6. ToTime(songs, nextId + Len(refused)) \in Seq(Pending)
    <3>1. nextId \in Nat \ {0} /\ nextId + Len(refused) + Len(songs) <= MaxRow + 1
      BY <2>1, <2>3, <2>4 DEF Store, TypeOK
    <3>2. Len(songs) - 1 \in Nat
      BY <2>2
    <3>3. \A i \in 1 .. Len(songs) - 1 :
            nextId + Len(refused) + i \in RowId /\ songs[i + 1] \in Song
      BY <2>2, <2>3, <3>1, <3>2 DEF RowId
    <3>4. \A i \in 1 .. Len(songs) - 1 : now \in Timestamp
      <4>1. \A j \in 1 .. Len(songs) : rows[j].cued \in Timestamp
        <5> SUFFICES ASSUME NEW j \in 1 .. Len(songs)
                     PROVE  rows[j].cued \in Timestamp
          OBVIOUS
        <5>1. Len(refused) + j \in DOMAIN (refused \o rows)
          BY <2>3, <2>4
        <5>2. (refused \o rows)[Len(refused) + j] = rows[j]
          BY <2>3, <2>4
        <5> QED
          BY <2>1, <5>1, <5>2 DEF Store
      <4>2. \A i \in 1 .. Len(songs) - 1 : i + 1 \in 1 .. Len(songs) /\ i + 1 # 1
        BY <3>2
      <4>3. \A j \in 1 .. Len(songs) : j # 1 => rows[j].cued = now
        BY <2>2 DEF AcceptedRows, NewRow
      <4> QED
        BY <4>1, <4>2, <4>3
    <3>5. ToTime(songs, nextId + Len(refused)) \in [1 .. Len(songs) - 1 -> Pending]
      BY <3>3, <3>4 DEF ToTime, Pending
    <3> QED
      BY <3>2, <3>5, SeqLemma
  <2>7. builder' \in [Builder -> Builders]
    BY <1>3, <2>1, <2>2, <2>6, BuilderAfterLemma DEF BuildAdd, TypeOK, ProcessOK
  <2> QED
    BY <1>0, <1>3, <2>5, <2>7 DEF BuildAdd
<1>4. CASE BuildAddNext(b)
  <2> DEFINE next == Head(builder[b].batch)
  <2>1. builder[b].batch \in Seq(Pending) /\ builder[b].batch # <<>>
    BY <1>4 DEF BuildAddNext, TypeOK, ProcessOK, Builders, Pending
  <2>2. next \in Pending /\ Tail(builder[b].batch) \in Seq(Pending)
    BY <2>1
  <2>3. Statement
    <3>1. CASE next.cued = builder[b].cue
      BY <1>4, <3>1 DEF BuildAddNext, Statement
    <3>2. CASE next.cued # builder[b].cue
      <4> DEFINE cue == [r \in {next.row} |-> builder[b].cue]
      <4>1. \A r \in DOMAIN cue : cue[r] \in Timestamp
        BY <1>4 DEF BuildAddNext
      <4>2. nextId' = nextId /\ queue' = SetCued(queue, cue)
        BY <1>4, <3>2 DEF BuildAddNext
      <4> HIDE DEF cue
      <4> QED
        BY <4>1, <4>2 DEF Statement
    <3> QED
      BY <3>1, <3>2
  <2>4. builder' \in [Builder -> Builders]
    <3>1. next.song \in Song
      BY <2>2 DEF Pending
    <3>2. BuilderAfter(b, next.song, Tail(builder[b].batch)) \in Builders
      BY <1>4, <2>2, <3>1, BuilderAfterLemma DEF BuildAddNext
    <3> QED
      BY <1>4, <3>2 DEF BuildAddNext, TypeOK, ProcessOK
  <2> QED
    BY <1>0, <1>4, <2>3, <2>4 DEF BuildAddNext
<1>5. IdleBuilder \in Builders
  BY EmptyPlanLemma DEF IdleBuilder, Builders
<1>6. CASE BuildGiveUp(b)
  <2>1. PICK refused \in Rejected(b) : Store(refused)
    BY <1>6 DEF BuildGiveUp
  <2>2. Statement
    BY <2>1, RejectedLemma DEF Statement
  <2> QED
    BY <1>0, <1>5, <1>6, <2>2 DEF BuildGiveUp, TypeOK, ProcessOK
<1>7. CASE BuildDone(b)
  BY <1>0, <1>5, <1>7 DEF BuildDone, Statement, TypeOK, ProcessOK
<1>8. CASE BuildCrash(b)
  BY <1>0, <1>5, <1>8 DEF BuildCrash, Statement, TypeOK, ProcessOK
<1> QED
  BY <1>1, <1>2, <1>3, <1>4, <1>6, <1>7, <1>8 DEF Build

\* A step of a fetcher, and the end of its time limit.
LEMMA FetchLemma ==
  ASSUME TypeOK, (\E f \in Fetcher : Fetch(f)) \/ FetchTimeout
  PROVE  Statement /\ ProcessOK'
<1> USE DEF ProcessOK, deckVars, feedbackVars, operVars
<1>1. ASSUME NEW f \in Fetcher, FetchRead(f)
      PROVE  Statement /\ ProcessOK'
  <2>1. PICK r \in NextToSend(queue) :
          fetcher' = [fetcher EXCEPT ![f] = [row |-> r, song |-> queue[r].song]]
    BY <1>1 DEF FetchRead
  <2>2. [row |-> r, song |-> queue[r].song] \in Track
    BY DEF NextToSend, Unsent, Track, RowId, TypeOK, IsTable, Row
  <2>3. fetcher' \in [Fetcher -> Track]
    BY <2>1, <2>2 DEF TypeOK
  <2> QED
    BY <1>1, <2>3 DEF FetchRead, Statement, TypeOK
<1>2. ASSUME NEW f \in Fetcher, FetchSend(f)
      PROVE  Statement /\ ProcessOK'
  <2>1. Statement
    BY <1>2 DEF FetchSend, Statement
  <2>2. fetcher[f] \in Track /\ NoTrack \in Track
    BY DEF TypeOK, NoTrack, Track
  <2>3. fetcher' \in [Fetcher -> Track] /\ ready' \in Track
    BY <1>2, <2>2 DEF FetchSend, TypeOK
  <2>4. delivered' \in [RowId -> Nat]
    <3> DEFINE r == fetcher[f].row
    <3>1. delivered \in [RowId -> Nat]
      BY DEF TypeOK
    <3>2. delivered' = delivered \/ delivered' = [delivered EXCEPT ![r] = @ + 1]
      BY <1>2 DEF FetchSend
    <3> HIDE DEF r
    <3> QED
      BY <3>1, <3>2
  <2> QED
    BY <1>2, <2>1, <2>3, <2>4 DEF FetchSend, TypeOK
<1>3. ASSUME NEW f \in Fetcher, FetchFail(f)
      PROVE  Statement /\ ProcessOK'
  BY <1>3 DEF FetchFail, Statement, TypeOK, NoTrack, Track
<1>4. CASE FetchTimeout
  BY <1>4 DEF FetchTimeout, Statement, TypeOK
<1> QED
  BY <1>1, <1>2, <1>3, <1>4 DEF Fetch

\* Liquidsoap plays, or the clock advances.
LEMMA DeckLemma ==
  ASSUME TypeOK, StartTrack \/ OverEnds \/ Tick
  PROVE  Statement /\ ProcessOK'
<1> USE DEF ProcessOK, fetchVars, deckVars, feedbackVars, operVars, TypeOK
<1>1. CASE StartTrack
  <2>1. ready.song \in Song \cup {NoSong}
    BY DEF Track
  <2>2. reports' \subseteq Song \cup {LiveSong}
    BY <1>1, <2>1 DEF StartTrack, Report
  <2>3. NoTrack \in Track
    BY DEF NoTrack, Track
  <2> QED
    BY <1>1, <2>1, <2>2, <2>3 DEF StartTrack, Statement
<1>2. CASE OverEnds
  BY <1>2 DEF OverEnds, Report, Statement
<1>3. CASE Tick
  BY <1>3 DEF Tick, Statement
<1> QED
  BY <1>1, <1>2, <1>3

\* A step of a feedback worker.
LEMMA FeedbackLemma ==
  ASSUME TypeOK, NEW w \in FeedbackWorker, Feedback(w)
  PROVE  Statement /\ ProcessOK'
<1> USE DEF ProcessOK, fetchVars, deckVars, operVars
<1>0. IdleFeedback \in Feedbacks
  BY DEF IdleFeedback, Feedbacks
<1>1. ASSUME NEW s \in reports, FeedbackRead(w, s)
      PROVE  Statement /\ ProcessOK'
  <2>1. s \in Song \cup {LiveSong}
    BY DEF TypeOK
  <2>2. CASE s = current
    BY <1>1, <2>2 DEF FeedbackRead, Statement, TypeOK
  <2>3. CASE s # current
    <3>1. PICK r \in FeedbackRow(s) :
            feedback' = [feedback EXCEPT ![w] =
              IF r = NoRow
              THEN [IdleFeedback EXCEPT !.pc = "saving", !.song = s]
              ELSE [pc |-> "tracking", song |-> s, row |-> r, cued |-> queue[r].cued]]
      BY <1>1, <2>3 DEF FeedbackRead
    <3>2. r # NoRow => r \in RowId /\ queue[r].cued \in Timestamp
      BY DEF FeedbackRow, RecentlyCued, Unplayed, TypeOK, IsTable, Row, RowId
    <3>3. [IdleFeedback EXCEPT !.pc = "saving", !.song = s] \in Feedbacks
      BY <2>1 DEF IdleFeedback, Feedbacks
    <3>4. r # NoRow =>
            [pc |-> "tracking", song |-> s, row |-> r, cued |-> queue[r].cued] \in Feedbacks
      BY <2>1, <3>2 DEF Feedbacks
    <3>5. feedback' \in [FeedbackWorker -> Feedbacks]
      BY <3>1, <3>3, <3>4 DEF TypeOK
    <3> QED
      BY <1>1, <3>5 DEF FeedbackRead, Statement, TypeOK
  <2> QED
    BY <2>2, <2>3
<1>2. CASE FeedbackTrack(w)
  <2>1. [feedback[w] EXCEPT !.pc = "saving"] \in Feedbacks
    <3>1. feedback[w] \in Feedbacks
      BY DEF TypeOK
    <3> QED
      BY <3>1 DEF Feedbacks
  <2>2. feedback' \in [FeedbackWorker -> Feedbacks]
    BY <1>2, <2>1 DEF FeedbackTrack, TypeOK
  <2> QED
    BY <1>2, <2>2 DEF FeedbackTrack, Statement, TypeOK
<1>3. CASE FeedbackSave(w)
  <2>1. feedback[w].song \in Song \cup {LiveSong, NoSong}
    BY DEF TypeOK, Feedbacks
  <2>2. entries' \in [RowId -> Nat]
    BY <1>3 DEF FeedbackSave, TypeOK
  <2> QED
    BY <1>0, <1>3, <2>1, <2>2 DEF FeedbackSave, Statement, TypeOK
<1>4. CASE FeedbackFail(w)
  BY <1>0, <1>4 DEF FeedbackFail, Statement, TypeOK
<1> QED
  BY <1>1, <1>2, <1>3, <1>4 DEF Feedback

\* A step of an operator, a DJ or the cleanup task.
LEMMA OperateLemma ==
  ASSUME TypeOK, Operate
  PROVE  Statement /\ ProcessOK'
<1> USE DEF ProcessOK, fetchVars, deckVars, feedbackVars, Operator
<1>0. ASSUME NEW R, Operator, DropRows(R)
      PROVE  Statement /\ ProcessOK'
  <2>1. ops' \in 0 .. MaxOps
    BY <1>0 DEF TypeOK
  <2> QED
    BY <1>0, <2>1 DEF DropRows, Statement, TypeOK
<1>1. ASSUME NEW r \in RowId, OpDelete(r)
      PROVE  Statement /\ ProcessOK'
  BY <1>0, <1>1 DEF OpDelete
<1>2. CASE OpClearUpcoming
  BY <1>0, <1>2 DEF OpClearUpcoming
<1>3. CASE OpClearUnplayed
  BY <1>0, <1>3 DEF OpClearUnplayed
<1>4. ASSUME NEW s \in Song, OpUnassign(s)
      PROVE  Statement /\ ProcessOK'
  BY <1>0, <1>4 DEF OpUnassign
<1>5. ASSUME NEW b \in Rebuilder, OpRebuild(b)
      PROVE  Statement /\ ProcessOK'
  <2>1. [builder[b] EXCEPT !.pc = "asked"] \in Builders /\ b \in Builder
    <3>1. b \in Builder
      BY DEF Builder
    <3>2. builder[b] \in Builders
      BY <3>1 DEF TypeOK
    <3> QED
      BY <3>1, <3>2 DEF Builders
  <2>2. builder' \in [Builder -> Builders]
    BY <1>5, <2>1 DEF OpRebuild, TypeOK
  <2>3. ops' \in 0 .. MaxOps
    BY <1>5 DEF OpRebuild, TypeOK
  <2> QED
    BY <1>5, <2>2, <2>3 DEF OpRebuild, Statement, TypeOK
<1>6. CASE OpQueueRead
  <2>1. PICK songs \in Batches :
          \/ manual' = [songs |-> songs, cue |-> now]
          \/ \E r \in NextToSend(queue) :
               manual' = [songs |-> songs, cue |-> queue[r].cued - QueueGap]
    BY <1>6 DEF OpQueueRead
  <2>2. songs \in Seq(Song)
    BY BatchLemma
  <2>3. \A r \in NextToSend(queue) : queue[r].cued - QueueGap \in Int
    <3>1. \A r \in NextToSend(queue) : queue[r].cued \in Timestamp
      BY DEF NextToSend, Unsent, TypeOK, IsTable, Row
    <3>2. \A r \in NextToSend(queue) : queue[r].cued \in Int
      BY <3>1, TimestampAssumption
    <3>3. \A x \in Int : x - QueueGap \in Int
      OBVIOUS
    <3> QED
      BY <3>2, <3>3
  <2>4. manual' \in [songs: Seq(Song), cue: Int]
    BY <2>1, <2>2, <2>3 DEF TypeOK
  <2>5. ops' \in 0 .. MaxOps
    BY <1>6 DEF OpQueueRead, TypeOK
  <2> QED
    BY <1>6, <2>4, <2>5 DEF OpQueueRead, Statement, TypeOK
<1>7. CASE OpQueueWrite
  <2> DEFINE new == [i \in DOMAIN manual.songs |->
                       NewRow(manual.songs[i], manual.cue - (i - 1) * QueueGap, FALSE)]
  <2>1. manual.songs \in Seq(Song) /\ manual.cue \in Int
    BY DEF TypeOK
  <2>2. \A i \in 1 .. Len(manual.songs) :
          NewRow(manual.songs[i], manual.cue - (i - 1) * QueueGap, FALSE) \in Fresh
    BY <2>1 DEF NewRow, Fresh
  <2>3. new \in [1 .. Len(manual.songs) -> Fresh] /\ Len(manual.songs) \in Nat
    <3>1. DOMAIN manual.songs = 1 .. Len(manual.songs) /\ Len(manual.songs) \in Nat
      BY <2>1
    <3> QED
      BY <2>2, <3>1
  <2>4. new \in Seq(Fresh)
    BY <2>3, SeqLemma
  <2>5. Statement
    BY <1>7, <2>4 DEF OpQueueWrite, Statement
  <2>6. NothingManual \in [songs: Seq(Song), cue: Int]
    BY DEF NothingManual
  <2> QED
    BY <1>7, <2>5, <2>6 DEF OpQueueWrite, TypeOK
<1>8. ASSUME NEW s \in Song, OpPlayNow(s)
      PROVE  Statement /\ ProcessOK'
  <2>1. PlayedRow(s, now) \in Fresh
    BY DEF PlayedRow, NewRow, Fresh, TypeOK
  <2>2. <<PlayedRow(s, now)>> \in Seq(Fresh)
    BY <2>1, AppendLemma
  <2>3. Statement
    BY <1>8, <2>2 DEF OpPlayNow, Statement
  <2>4. over' \in Song \cup {LiveSong, NoSong} /\ reports' \subseteq Song \cup {LiveSong}
    BY <1>8 DEF OpPlayNow, Report, TypeOK
  <2>5. ops' \in 0 .. MaxOps
    BY <1>8 DEF OpPlayNow, TypeOK
  <2> QED
    BY <1>8, <2>3, <2>4, <2>5 DEF OpPlayNow, TypeOK
<1>9. CASE LiveBegins
  BY <1>9 DEF LiveBegins, Report, Statement, TypeOK
<1>10. CASE Cleanup
  BY <1>0, <1>10 DEF Cleanup
<1> QED
  BY <1>1, <1>2, <1>3, <1>4, <1>5, <1>6, <1>7, <1>8, <1>9, <1>10 DEF Operate

LEMMA StepLemma ==
  ASSUME TypeOK, [Next]_vars
  PROVE  Statement /\ TypeOK'
<1>1. CASE UNCHANGED vars
  <2>1. Statement
    BY <1>1 DEF vars, Statement
  <2>2. ProcessOK'
    BY <1>1 DEF vars, TypeOK, ProcessOK
  <2> QED
    BY <2>1, <2>2, StatementLemma DEF TypeOK
<1>2. CASE Next
  <2>1. Statement /\ ProcessOK'
    BY <1>2, BuildLemma, FetchLemma, DeckLemma, FeedbackLemma, OperateLemma DEF Next
  <2> QED
    BY <2>1, StatementLemma DEF TypeOK
<1> QED
  BY <1>1, <1>2

\* The type invariant holds in every reachable state.
THEOREM TypeCorrect == Spec => []TypeOK
<1>1. Init => TypeOK
  <2> SUFFICES ASSUME Init PROVE TypeOK
    OBVIOUS
  <2>1. nextId \in 1 .. MaxRow + 1 /\ IsTable(queue, nextId)
    BY DEF Init, IsTable, EmptyTable
  <2>2. IdleBuilder \in Builders
    BY EmptyPlanLemma DEF IdleBuilder, Builders
  <2>3. NoTrack \in Track /\ IdleFeedback \in Feedbacks
    BY DEF NoTrack, Track, IdleFeedback, Feedbacks
  <2>4. ProcessOK
    BY <2>2, <2>3 DEF Init, ProcessOK, NothingManual
  <2> QED
    BY <2>1, <2>4 DEF TypeOK
<1>2. TypeOK /\ [Next]_vars => TypeOK'
  BY StepLemma
<1> QED
  BY <1>1, <1>2, PTL DEF Spec

-----------------------------------------------------------------------------
(***************************************************************************)
(* A row is handed to Liquidsoap at most once.                             *)
(*                                                                         *)
(* DeliveredOnce alone is not inductive: a fetcher could hold a row that   *)
(* was delivered before.  What prevents it is that a delivered row is sent *)
(* (or gone), that sent is never taken back, and that a call reads only    *)
(* rows that are not sent while no other call is being waited for.         *)
(***************************************************************************)

DeliveryInv ==
  /\ \A f \in Fetcher : fetcher[f] # NoTrack => fetcher[f].row \in 1 .. nextId - 1
  /\ waiting # NoFetcher =>
       fetcher[waiting] # NoTrack /\ delivered[fetcher[waiting].row] = 0
  /\ \A r \in RowId : delivered[r] > 0 =>
       r < nextId /\ (r \in DOMAIN queue => queue[r].sent)
  /\ DeliveredOnce

LEMMA DeliveryStep ==
  ASSUME TypeOK, TypeOK', DeliveryInv, [Next]_vars
  PROVE  DeliveryInv'
<1>1. Advanced
  BY StepLemma, StatementLemma
<1>2. /\ nextId \in 1 .. MaxRow + 1 /\ nextId' \in 1 .. MaxRow + 1 /\ nextId <= nextId'
      /\ fetcher \in [Fetcher -> Track] /\ waiting \in Fetcher \cup {NoFetcher}
      /\ delivered \in [RowId -> Nat]
  BY <1>1 DEF TypeOK, ProcessOK, Advanced
<1>3. ASSUME UNCHANGED fetchVars PROVE DeliveryInv'
  <2>1. fetcher' = fetcher /\ waiting' = waiting /\ delivered' = delivered
    BY <1>3 DEF fetchVars
  <2>2. \A f \in Fetcher : fetcher[f] # NoTrack => fetcher[f].row \in 1 .. nextId' - 1
    BY <1>2 DEF DeliveryInv
  <2>3. \A r \in RowId : delivered[r] > 0 =>
          r < nextId' /\ (r \in DOMAIN queue' => queue'[r].sent)
    BY <1>1, <1>2 DEF DeliveryInv, Advanced, RowId
  <2> QED
    BY <2>1, <2>2, <2>3 DEF DeliveryInv, DeliveredOnce
<1>4. ASSUME NEW f \in Fetcher, FetchRead(f) PROVE DeliveryInv'
  <2>1. PICK r \in NextToSend(queue) :
          fetcher' = [fetcher EXCEPT ![f] = [row |-> r, song |-> queue[r].song]]
    BY <1>4 DEF FetchRead
  <2>2. r \in DOMAIN queue /\ ~ queue[r].sent /\ r \in 1 .. nextId - 1 /\ r \in RowId
    BY DEF NextToSend, Unsent, TypeOK, IsTable, RowId
  <2>3. delivered[r] = 0
    BY <1>2, <2>2 DEF DeliveryInv
  <2>4. r # NoRow
    BY <2>2
  <2>5. fetcher'[f].row = r /\ fetcher'[f] # NoTrack
    BY <1>2, <2>1, <2>4 DEF NoTrack
  <2>6. \A g \in Fetcher : g # f => fetcher'[g] = fetcher[g]
    BY <1>2, <2>1
  <2>7. waiting' = f /\ UNCHANGED <<queue, nextId, delivered>>
    BY <1>4 DEF FetchRead
  <2> QED
    BY <1>2, <2>2, <2>3, <2>5, <2>6, <2>7 DEF DeliveryInv, DeliveredOnce
<1>5. ASSUME NEW f \in Fetcher, FetchSend(f) PROVE DeliveryInv'
  <2>1. /\ fetcher[f] # NoTrack
        /\ fetcher' = [fetcher EXCEPT ![f] = NoTrack]
        /\ queue' = SetSent(queue, fetcher[f].row, now)
        /\ UNCHANGED nextId
    BY <1>5 DEF FetchSend
  <2>2. fetcher[f].row \in 1 .. nextId - 1 /\ fetcher[f].row \in RowId
    BY <1>2, <2>1 DEF DeliveryInv, RowId
  <2>3. \A g \in Fetcher : fetcher'[g] # NoTrack => g # f /\ fetcher'[g] = fetcher[g]
    BY <1>2, <2>1
  <2>4. \A r \in DOMAIN queue' : r = fetcher[f].row => queue'[r].sent
    <3>1. IsTable(queue, nextId) /\ now \in Timestamp
      BY <1>5 DEF FetchSend, TypeOK
    <3> QED
      BY <2>1, <3>1, SetSentLemma
  <2>5. CASE waiting = f
    <3>1. /\ delivered' = [delivered EXCEPT ![fetcher[f].row] = @ + 1]
          /\ waiting' = NoFetcher
      BY <1>5, <2>5 DEF FetchSend
    <3>2. delivered[fetcher[f].row] = 0
      BY <2>5 DEF DeliveryInv
    <3>3. /\ delivered'[fetcher[f].row] = 1
          /\ \A r \in RowId : r # fetcher[f].row => delivered'[r] = delivered[r]
      BY <1>2, <2>2, <3>1, <3>2
    <3> QED
      BY <1>1, <1>2, <2>1, <2>2, <2>3, <2>4, <3>1, <3>3
      DEF DeliveryInv, DeliveredOnce, Advanced
  <2>6. CASE waiting # f
    <3>1. UNCHANGED <<delivered, waiting>>
      BY <1>5, <2>6 DEF FetchSend
    <3>2. waiting # NoFetcher => fetcher'[waiting] = fetcher[waiting]
      BY <1>2, <2>1, <2>6
    <3> QED
      BY <1>1, <1>2, <2>1, <2>2, <2>3, <3>1, <3>2 DEF DeliveryInv, DeliveredOnce, Advanced
  <2> QED
    BY <2>5, <2>6
<1>6. ASSUME NEW f \in Fetcher, FetchFail(f) PROVE DeliveryInv'
  <2>1. /\ fetcher' = [fetcher EXCEPT ![f] = NoTrack]
        /\ waiting' = IF waiting = f THEN NoFetcher ELSE waiting
        /\ UNCHANGED <<queue, nextId, delivered>>
    BY <1>6 DEF FetchFail
  <2>2. \A g \in Fetcher : g # f => fetcher'[g] = fetcher[g]
    BY <1>2, <2>1
  <2>3. fetcher'[f] = NoTrack
    BY <1>2, <2>1
  <2>4. waiting' # NoFetcher => waiting' = waiting /\ waiting # f /\ waiting \in Fetcher
    BY <1>2, <2>1
  <2> QED
    BY <2>1, <2>2, <2>3, <2>4 DEF DeliveryInv, DeliveredOnce
<1>7. CASE FetchTimeout
  BY <1>7 DEF FetchTimeout, DeliveryInv, DeliveredOnce
<1>8. CASE UNCHANGED vars
  BY <1>3, <1>8 DEF vars, fetchVars
<1>9. CASE Next
  <2>1. ASSUME NEW b \in Builder, Build(b) PROVE UNCHANGED fetchVars
    BY <2>1 DEF Build, BuildRead, BuildFlush, BuildAdd, BuildAddNext, BuildGiveUp,
                BuildDone, BuildCrash
  <2>2. ASSUME StartTrack \/ OverEnds \/ Tick PROVE UNCHANGED fetchVars
    BY <2>2 DEF StartTrack, OverEnds, Tick
  <2>3. ASSUME NEW w \in FeedbackWorker, Feedback(w) PROVE UNCHANGED fetchVars
    BY <2>3 DEF Feedback, FeedbackRead, FeedbackTrack, FeedbackSave, FeedbackFail
  <2>4. ASSUME Operate PROVE UNCHANGED fetchVars
    BY <2>4 DEF Operate, OpDelete, OpClearUpcoming, OpClearUnplayed, OpUnassign,
                OpRebuild, OpQueueRead, OpQueueWrite, OpPlayNow, LiveBegins, Cleanup,
                DropRows
  <2> QED
    BY <1>3, <1>4, <1>5, <1>6, <1>7, <1>9, <2>1, <2>2, <2>3, <2>4 DEF Next, Fetch
<1> QED
  BY <1>8, <1>9

\* A row is handed to Liquidsoap at most once (getNextToSendToAutoDj and
\* postAnnotation, with any number of overlapping nextsong calls).
THEOREM DeliveredOnceCorrect == Spec => []DeliveredOnce
<1>1. Init => DeliveryInv
  BY DEF Init, DeliveryInv, DeliveredOnce, EmptyTable
<1>2. TypeOK /\ TypeOK' /\ DeliveryInv /\ [Next]_vars => DeliveryInv'
  BY DeliveryStep
<1>3. DeliveryInv => DeliveredOnce
  BY DEF DeliveryInv
<1> QED
  BY <1>1, <1>2, <1>3, TypeCorrect, PTL DEF Spec

-----------------------------------------------------------------------------
(***************************************************************************)
(* A row makes at most one history entry, when feedback handlers do not    *)
(* overlap.                                                                *)
(*                                                                         *)
(* The reason is the order of the handler's statements: the row is marked  *)
(* as played before the entry is stored, and a played row is never matched *)
(* again; a handler that fails in between loses the entry, it does not     *)
(* leave the row to be matched a second time.                              *)
(***************************************************************************)

SingleFeedback == \A v, w \in FeedbackWorker : v = w

\* The row will not be matched with a report again.
Finished(r) == r \in DOMAIN queue => queue[r].played

EntryInv ==
  /\ \A r \in RowId : entries[r] > 0 => r < nextId /\ Finished(r)
  /\ \A w \in FeedbackWorker : feedback[w].row # NoRow =>
       /\ feedback[w].row \in 1 .. nextId - 1
       /\ entries[feedback[w].row] = 0
       /\ feedback[w].pc = "saving" => Finished(feedback[w].row)
  /\ OneEntryPerRow

LEMMA FinishedLemma ==
  ASSUME Advanced, NEW r, r < nextId, Finished(r)
  PROVE  Finished(r)'
BY DEF Advanced, Finished

LEMMA EntryStep ==
  ASSUME SingleFeedback, TypeOK, TypeOK', EntryInv, [Next]_vars
  PROVE  EntryInv'
<1>1. Advanced
  BY StepLemma, StatementLemma
<1>2. /\ nextId \in 1 .. MaxRow + 1 /\ nextId' \in 1 .. MaxRow + 1 /\ nextId <= nextId'
      /\ feedback \in [FeedbackWorker -> Feedbacks]
      /\ entries \in [RowId -> Nat]
  BY <1>1 DEF TypeOK, ProcessOK, Advanced
<1>3. \A r \in RowId : r < nextId /\ Finished(r) => r < nextId' /\ Finished(r)'
  BY <1>1, <1>2, FinishedLemma DEF RowId
<1>4. ASSUME UNCHANGED <<feedback, entries>> PROVE EntryInv'
  <2>1. \A r \in RowId : entries[r] > 0 => r < nextId' /\ Finished(r)'
    BY <1>3 DEF EntryInv
  <2>2. \A w \in FeedbackWorker : feedback[w].row # NoRow =>
          /\ feedback[w].row \in 1 .. nextId' - 1
          /\ entries[feedback[w].row] = 0
          /\ feedback[w].pc = "saving" => Finished(feedback[w].row)'
    <3> SUFFICES ASSUME NEW w \in FeedbackWorker, feedback[w].row # NoRow
                 PROVE  /\ feedback[w].row \in 1 .. nextId' - 1
                        /\ entries[feedback[w].row] = 0
                        /\ feedback[w].pc = "saving" => Finished(feedback[w].row)'
      OBVIOUS
    <3>1. /\ feedback[w].row \in 1 .. nextId - 1
          /\ entries[feedback[w].row] = 0
          /\ feedback[w].pc = "saving" => Finished(feedback[w].row)
      BY DEF EntryInv
    <3>2. feedback[w].row \in RowId /\ feedback[w].row < nextId
      BY <1>2, <3>1 DEF RowId
    <3>3. feedback[w].pc = "saving" => Finished(feedback[w].row)'
      BY <1>1, <1>4, <3>1, <3>2 DEF Advanced, Finished
    <3> QED
      BY <1>2, <3>1, <3>3
  <2> QED
    BY <1>4, <2>1, <2>2 DEF EntryInv, OneEntryPerRow
<1>5. ASSUME NEW w \in FeedbackWorker, NEW s \in reports, FeedbackRead(w, s)
      PROVE  EntryInv'
  <2>1. CASE s = current
    BY <1>4, <1>5, <2>1 DEF FeedbackRead
  <2>2. CASE s # current
    <3>1. PICK r \in FeedbackRow(s) :
            feedback' = [feedback EXCEPT ![w] =
              IF r = NoRow
              THEN [IdleFeedback EXCEPT !.pc = "saving", !.song = s]
              ELSE [pc |-> "tracking", song |-> s, row |-> r, cued |-> queue[r].cued]]
      BY <1>5, <2>2 DEF FeedbackRead
    <3>2. UNCHANGED <<queue, nextId, entries>>
      BY <1>5 DEF FeedbackRead
    <3>3. \A v \in FeedbackWorker : v = w
      BY DEF SingleFeedback
    <3>4. feedback'[w].row = r /\ (r # NoRow => feedback'[w].pc = "tracking")
      BY <1>2, <3>1 DEF IdleFeedback
    <3>5. r # NoRow => r \in DOMAIN queue /\ ~ queue[r].played
      BY DEF FeedbackRow, RecentlyCued, Unplayed
    <3>6. r # NoRow => r \in 1 .. nextId - 1 /\ r \in RowId
      BY <3>5 DEF TypeOK, IsTable, RowId
    <3>7. r # NoRow => entries[r] = 0
      BY <1>2, <3>5, <3>6 DEF EntryInv, Finished
    <3> QED
      BY <3>2, <3>3, <3>4, <3>6, <3>7 DEF EntryInv, OneEntryPerRow, Finished
  <2> QED
    BY <2>1, <2>2
<1>6. ASSUME NEW w \in FeedbackWorker, FeedbackTrack(w) PROVE EntryInv'
  <2>1. /\ queue' = TrackPlayed(queue, feedback[w].row, feedback[w].cued)
        /\ feedback' = [feedback EXCEPT ![w].pc = "saving"]
        /\ UNCHANGED <<nextId, entries>>
    BY <1>6 DEF FeedbackTrack
  <2>2. \A v \in FeedbackWorker : v = w
    BY DEF SingleFeedback
  <2>3. feedback'[w].row = feedback[w].row
    BY <1>2, <2>1 DEF Feedbacks
  <2>4. Finished(feedback[w].row)'
    <3>1. IsTable(queue, nextId)
      BY DEF TypeOK
    <3> QED
      BY <2>1, <3>1, TrackPlayedLemma DEF Finished
  <2>5. \A r \in RowId : entries[r] > 0 => r < nextId' /\ Finished(r)'
    BY <1>3 DEF EntryInv
  <2> QED
    BY <2>1, <2>2, <2>3, <2>4, <2>5 DEF EntryInv, OneEntryPerRow
<1>7. ASSUME NEW w \in FeedbackWorker, FeedbackSave(w) PROVE EntryInv'
  <2>1. /\ feedback[w].pc = "saving"
        /\ entries' = [r \in RowId |->
                         IF r = feedback[w].row THEN entries[r] + 1 ELSE entries[r]]
        /\ feedback' = [feedback EXCEPT ![w] = IdleFeedback]
        /\ UNCHANGED <<queue, nextId>>
    BY <1>7 DEF FeedbackSave
  <2>2. \A v \in FeedbackWorker : feedback'[v].row = NoRow
    BY <1>2, <2>1 DEF SingleFeedback, IdleFeedback
  <2>3. \A r \in RowId : r = feedback[w].row =>
          entries[r] = 0 /\ r < nextId /\ Finished(r)
    BY <1>2, <2>1 DEF EntryInv, RowId
  <2>4. \A r \in RowId : entries'[r] > 0 => r < nextId' /\ Finished(r)'
    BY <2>1, <2>3 DEF EntryInv, Finished
  <2>5. \A r \in RowId : entries'[r] <= 1
    BY <1>2, <2>1, <2>3 DEF EntryInv, OneEntryPerRow
  <2> QED
    BY <2>2, <2>4, <2>5 DEF EntryInv, OneEntryPerRow
<1>8. ASSUME NEW w \in FeedbackWorker, FeedbackFail(w) PROVE EntryInv'
  <2>1. /\ feedback' = [feedback EXCEPT ![w] = IdleFeedback]
        /\ UNCHANGED <<queue, nextId, entries>>
    BY <1>8 DEF FeedbackFail
  <2>2. \A v \in FeedbackWorker : feedback'[v].row = NoRow
    BY <1>2, <2>1 DEF SingleFeedback, IdleFeedback
  <2> QED
    BY <2>1, <2>2 DEF EntryInv, OneEntryPerRow, Finished
<1>9. CASE UNCHANGED vars
  BY <1>4, <1>9 DEF vars
<1>10. CASE Next
  <2> USE DEF feedbackVars
  <2>1. ASSUME NEW b \in Builder, Build(b) PROVE UNCHANGED <<feedback, entries>>
    BY <2>1 DEF Build, BuildRead, BuildFlush, BuildAdd, BuildAddNext, BuildGiveUp,
                BuildDone, BuildCrash
  <2>2. ASSUME StartTrack \/ OverEnds \/ Tick PROVE UNCHANGED <<feedback, entries>>
    BY <2>2 DEF StartTrack, OverEnds, Tick
  <2>3. ASSUME (\E f \in Fetcher : Fetch(f)) \/ FetchTimeout
        PROVE  UNCHANGED <<feedback, entries>>
    BY <2>3 DEF Fetch, FetchRead, FetchSend, FetchFail, FetchTimeout
  <2>4. ASSUME Operate PROVE UNCHANGED <<feedback, entries>>
    BY <2>4 DEF Operate, OpDelete, OpClearUpcoming, OpClearUnplayed, OpUnassign,
                OpRebuild, OpQueueRead, OpQueueWrite, OpPlayNow, LiveBegins, Cleanup,
                DropRows
  <2> QED
    BY <1>4, <1>5, <1>6, <1>7, <1>8, <1>10, <2>1, <2>2, <2>3, <2>4 DEF Next, Feedback
<1> QED
  BY <1>9, <1>10

\* A row makes at most one song history entry (findRecentlyCuedSong, trackPlayed
\* and the save that follows), when at most one feedback call is served at a time.
THEOREM OneEntryPerRowCorrect ==
  ASSUME SingleFeedback
  PROVE  Spec => []OneEntryPerRow
<1>1. Init => EntryInv
  BY DEF Init, EntryInv, OneEntryPerRow, EmptyTable, IdleFeedback
<1>2. TypeOK /\ TypeOK' /\ EntryInv /\ [Next]_vars => EntryInv'
  BY EntryStep
<1>3. EntryInv => OneEntryPerRow
  BY DEF EntryInv
<1> QED
  BY <1>1, <1>2, <1>3, TypeCorrect, PTL DEF Spec

-----------------------------------------------------------------------------
(***************************************************************************)
(* The queue implements the life cycle of a row: the flags of the rows     *)
(* there are only grow, and a played row is sent, so that every row is in  *)
(* one of the stages.                                                      *)
(***************************************************************************)

LEMMA ForwardLemma ==
  ASSUME TypeOK, TypeOK', PlayedIsSent, PlayedIsSent', Advanced, NEW r \in RowId
  PROVE  Lifecycle!Rank(StageOf(r)) <= Lifecycle!Rank(StageOf(r)')
<1>1. /\ nextId \in Int /\ nextId' \in Int /\ r \in Int /\ nextId <= nextId'
      /\ r \in DOMAIN queue => r < nextId /\ queue[r] \in Row
      /\ r \in DOMAIN queue' => r < nextId' /\ queue'[r] \in Row
  BY DEF TypeOK, IsTable, Advanced, RowId
<1>2. CASE r >= nextId
  <2>1. StageOf(r) = "none" /\ StageOf(r)' \in Lifecycle!Stage
    <3>1. StageOf(r)' \in Lifecycle!Stage
      BY <1>1 DEF Row, PlayedIsSent, StageOf, Lifecycle!Stage
    <3> QED
      BY <1>1, <1>2, <3>1 DEF StageOf
  <2> QED
    BY <2>1 DEF Lifecycle!Rank, Lifecycle!Stage
<1>3. CASE r < nextId /\ r \notin DOMAIN queue
  <2>1. r \notin DOMAIN queue' /\ r < nextId'
    BY <1>1, <1>3 DEF Advanced
  <2> QED
    BY <1>1, <1>3, <2>1 DEF StageOf, Lifecycle!Rank
<1>4. CASE r \in DOMAIN queue /\ r \notin DOMAIN queue'
  <2>1. StageOf(r)' = "removed" /\ StageOf(r) \in {"upcoming", "sent", "played"}
    BY <1>1, <1>4 DEF StageOf, Row, PlayedIsSent
  <2> QED
    BY <2>1 DEF Lifecycle!Rank
<1>5. CASE r \in DOMAIN queue /\ r \in DOMAIN queue'
  <2>1. (queue[r].sent => queue'[r].sent) /\ (queue[r].played => queue'[r].played)
    BY <1>1, <1>5 DEF Advanced
  <2>2. (queue[r].played => queue[r].sent) /\ (queue'[r].played => queue'[r].sent)
    BY <1>5 DEF PlayedIsSent
  <2>3. /\ StageOf(r) = IF queue[r].played THEN "played"
                        ELSE IF queue[r].sent THEN "sent" ELSE "upcoming"
        /\ StageOf(r)' = IF queue'[r].played THEN "played"
                         ELSE IF queue'[r].sent THEN "sent" ELSE "upcoming"
    BY <1>1, <1>5, <2>2 DEF StageOf, Row
  <2> QED
    BY <2>1, <2>3 DEF Lifecycle!Rank
<1> QED
  BY <1>1, <1>2, <1>3, <1>4, <1>5

\* Refinement: the queue implements RowLifecycle, whatever stale reads the
\* writers of the table act on.
THEOREM RowsMoveForwardCorrect == Spec => RowsMoveForward
<1>1. Init => Lifecycle!LifecycleInit /\ PlayedIsSent
  BY DEF Init, Lifecycle!LifecycleInit, PlayedIsSent, StageOf, EmptyTable, RowId
<1>2. TypeOK /\ PlayedIsSent /\ [Next]_vars => PlayedIsSent'
  BY StepLemma, StatementLemma
<1>3. TypeOK /\ TypeOK' /\ PlayedIsSent /\ PlayedIsSent' /\ [Next]_vars
        => Lifecycle!MoveForward
  <2> SUFFICES ASSUME TypeOK, TypeOK', PlayedIsSent, PlayedIsSent', [Next]_vars
               PROVE  Lifecycle!MoveForward
    OBVIOUS
  <2>1. Advanced
    BY StepLemma, StatementLemma
  <2>2. \A r \in RowId : StageOf(r)' \in Lifecycle!Stage
    <3>1. \A r \in RowId : (r \in DOMAIN queue' => r < nextId' /\ queue'[r] \in Row) /\ nextId' \in Int
      BY DEF TypeOK, IsTable, RowId
    <3> QED
      BY <3>1 DEF Row, PlayedIsSent, StageOf, Lifecycle!Stage, RowId
  <2>3. \A r \in RowId : Lifecycle!Rank(StageOf(r)) <= Lifecycle!Rank(StageOf(r)')
    BY <2>1, ForwardLemma
  <2> QED
    BY <2>2, <2>3 DEF Lifecycle!MoveForward
<1> QED
  BY <1>1, <1>2, <1>3, TypeCorrect, PTL DEF Spec, RowsMoveForward, Lifecycle!LifecycleSpec
=============================================================================
