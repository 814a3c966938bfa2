---------------------------- MODULE AutoDjQueue ----------------------------
(***************************************************************************)
(* One station's AutoDJ queue and everyone who writes it:                  *)
(*                                                                         *)
(*   builders   Queue::buildQueue, run by the sync loop under a lock and,  *)
(*              without one, by the "Rebuild Queue" button;                *)
(*   fetchers   the web workers answering Liquidsoap's nextsong call;      *)
(*   feedback   the web workers answering Liquidsoap's feedback call;      *)
(*   operators  the queue, media and debug pages;                          *)
(*   cleanup    the task that deletes old rows.                            *)
(*                                                                         *)
(* Each of them reads the table in one statement and writes it in a later  *)
(* one, with no lock or transaction around the two.  A step of this        *)
(* specification is one database statement (or one flush), or one step of  *)
(* Liquidsoap.                                                             *)
(***************************************************************************)
EXTENDS StationQueue

CONSTANTS
  SyncBuilder,  \* builders started by the sync loop
  Rebuilder,    \* builders started by the "Rebuild Queue" button
  Fetcher,      \* workers that may serve a nextsong call at the same time
  FeedbackWorker, \* workers that may serve a feedback call at the same time
  QueueLength,  \* autodj_queue_length of the station's backend config
  Merged,       \* the contents of the station's merged playlists
  MaxBatch,     \* the most songs that enter the queue at once: at least 1
  KeepTime,     \* age at which cleanup deletes a row
  QueueGap,     \* time between manually queued rows and the next row (10 s)
  StartTime,    \* the clock at the start
  NoSong,       \* "no song": a null song id
  LiveSong,     \* the metadata of a live DJ, which is no song of the library
  NoRow,        \* "no row": a null queue row
  NoFetcher     \* "no call in progress"

\* Bounds on the behaviours explored; each is part of a guard below.
CONSTANTS
  MaxRow,      \* rows ever created
  MaxTime,     \* the clock stops here
  MaxOps,      \* steps of operators, DJs and cleanup
  MaxManual,   \* songs an operator queues at once
  MaxReject,   \* songs rejected in one iteration of buildQueue
  MaxReports  \* feedback calls in flight

Builder == SyncBuilder \cup Rebuilder

ASSUME BuilderAssumption == SyncBuilder \cap Rebuilder = {} /\ IsFiniteSet(Builder)
ASSUME QueueLengthAssumption == QueueLength \in Nat
ASSUME NoSongAssumption == {NoSong, LiveSong} \cap Song = {} /\ NoSong # LiveSong
ASSUME MergedAssumption ==
  /\ MaxBatch \in Nat \ {0}
  /\ Merged \subseteq UNION {[1 .. n -> Song] : n \in 1 .. MaxBatch}
ASSUME NoFetcherAssumption == NoFetcher \notin Fetcher
ASSUME BoundAssumption ==
  /\ MaxRow \in Nat /\ MaxOps \in Nat /\ MaxReject \in Nat /\ MaxReports \in Nat
  /\ MaxManual \in Nat
  /\ StartTime \in Int /\ MaxTime \in Int /\ KeepTime \in Int /\ QueueGap \in Int
ASSUME NoRowAssumption == NoRow \notin Int

RowId == 1 .. MaxRow

VARIABLES
  now,       \* the clock, in seconds
  queue,     \* the table station_queue
  nextId,    \* its auto-increment counter
  builder,   \* the progress of each builder
  fetcher,   \* the row each fetcher has read and not yet marked as sent
  waiting,   \* the fetcher whose answer Liquidsoap is waiting for
  ready,     \* the track Liquidsoap has fetched and not started
  onAir,     \* the song of the AutoDJ track being played
  over,      \* what plays instead of it: a live DJ, an interrupting song
  reports,   \* songs of the feedback calls in flight
  feedback,  \* the progress of each feedback worker
  current,   \* the song of station.current_song
  manual,    \* an operator's pending insertion
  ops        \* steps of operators, DJs and cleanup so far

\* History variables: how often a row was handed to Liquidsoap, and how many
\* song history entries were made from it.
VARIABLES delivered, entries

builderVars == <<builder>>
deckVars == <<ready, onAir, over, reports>>
fetchVars == <<fetcher, waiting, delivered>>
feedbackVars == <<feedback, current, entries>>
operVars == <<manual, ops>>
vars == <<now, queue, nextId, builder, fetcher, waiting, ready, onAir, over,
          reports, feedback, current, manual, ops, delivered, entries>>

-----------------------------------------------------------------------------
\* buildQueue fills the queue to this length: at least 2.
MaxQueueLength == IF QueueLength < 2 THEN 2 ELSE QueueLength

\* What a builder holds in memory: the cue times it will write, the next cue
\* time, the last song id, the length counted, the rows of a merged playlist
\* that are stored and not yet timed.  History: the cue times it has read of the
\* unsent rows, until it has flushed the new ones.
IdleBuilder == [pc |-> "idle", plan |-> EmptyTable, cue |-> StartTime,
                last |-> NoSong, len |-> 0, batch |-> <<>>, read |-> EmptyTable]

IdleFeedback == [pc |-> "idle", song |-> NoSong, row |-> NoRow, cued |-> StartTime]

NoTrack == [row |-> NoRow, song |-> NoSong]

NothingManual == [songs |-> <<>>, cue |-> StartTime]

\* The songs an operator queues at once.
Batches == UNION {[1 .. n -> Song] : n \in 1 .. MaxManual}

\* What Liquidsoap last reported: the title on the air.
Title == IF over = NoSong THEN onAir ELSE over

Init ==
  /\ now = StartTime
  /\ queue = EmptyTable /\ nextId = 1
  /\ builder = [b \in Builder |-> IdleBuilder]
  /\ fetcher = [f \in Fetcher |-> NoTrack]
  /\ waiting = NoFetcher
  /\ ready = NoTrack /\ onAir = NoSong /\ over = NoSong /\ reports = {}
  /\ feedback = [w \in FeedbackWorker |-> IdleFeedback] /\ current = NoSong
  /\ manual = NothingManual /\ ops = 0
  /\ delivered = [r \in RowId |-> 0]
  /\ entries = [r \in RowId |-> 0]

\* Store a sequence of new rows in the table.
Store(new) ==
  /\ nextId + Len(new) <= MaxRow + 1
  /\ \A i \in DOMAIN new : new[i].cued \in Timestamp
  /\ queue' = Insert(queue, nextId, new)
  /\ nextId' = nextId + Len(new)

-----------------------------------------------------------------------------
(***************************************************************************)
(* The builders.                                                           *)
(***************************************************************************)

\* The sync loop starts its builder at any time; the other one is started by
\* OpRebuild.
MayStart(b) == builder[b].pc = (IF b \in SyncBuilder THEN "idle" ELSE "asked")

\* Read the unplayed queue and compute the new cue time of each unsent row.
BuildRead(b) ==
  /\ MayStart(b)
  /\ \E o \in UnplayedQueues(queue) :
       LET first == FirstCue(queue, o, now)
           cue   == Retimed(queue, o, first)
           next  == CueAfter(queue, o, DOMAIN o \ SentPositions(queue, o), first)
       IN  /\ next \in Timestamp /\ \A r \in DOMAIN cue : cue[r] \in Timestamp
           /\ builder' = [builder EXCEPT ![b] =
                [pc    |-> "retiming",
                 plan  |-> Changed(queue, cue),
                 cue   |-> next,
                 last  |-> IF o = <<>> THEN NoSong ELSE queue[o[Len(o)]].song,
                 len   |-> CountedLength(queue, o),
                 batch |-> <<>>,
                 read  |-> [r \in DOMAIN cue |-> queue[r].cued]]]
  /\ UNCHANGED <<now, queue, nextId, fetchVars, deckVars, feedbackVars, operVars>>

\* Flush the cue times computed before.
BuildFlush(b) ==
  /\ builder[b].pc = "retiming"
  /\ queue' = SetCued(queue, builder[b].plan)
  /\ builder' = [builder EXCEPT ![b].pc = "filling", ![b].plan = EmptyTable,
                                    ![b].read = EmptyTable]
  /\ UNCHANGED <<now, nextId, fetchVars, deckVars, feedbackVars, operVars>>

\* Rows of songs that repeat the last song.  They are persisted before
\* setNextSongs refuses them, so the next flush stores them as constructed:
\* cued at the present time.
Rejected(b) ==
  {[i \in 1 .. k |-> NewRow(builder[b].last, now, FALSE)] :
     k \in 0 .. (IF builder[b].last = NoSong THEN 0 ELSE MaxReject)}

\* What a BuildQueue event accepts: one song that does not repeat the last
\* one, or the songs of a merged playlist, whatever they are.
Accepted(b) == {<<s>> : s \in Song \ {builder[b].last}} \cup Merged

\* BUG variant: a stored row is not counted.
BuilderAfter_NotCounted(b, song, rest) ==
  [builder[b] EXCEPT !.cue = @ + Advance(song), !.last = song, !.batch = rest]

\* The builder after it has timed a row of a song, with the rows still to time.
BuilderAfter(b, song, rest) ==
  [builder[b] EXCEPT !.cue = @ + Advance(song), !.last = song, !.len = @ + 1,
                     !.batch = rest]

\* The rows of the accepted songs: the first one gets its cue time before the
\* flush, the other ones are stored as constructed, cued at the present time.
AcceptedRows(b, songs) ==
  [i \in DOMAIN songs |->
     NewRow(songs[i], IF i = 1 THEN builder[b].cue ELSE now, TRUE)]

\* Those other ones, as the builder remembers them; the first has the given id.
ToTime(songs, first) ==
  [i \in 1 .. Len(songs) - 1 |-> [row |-> first + i, song |-> songs[i + 1], cued |-> now]]

\* Dispatch the BuildQueue event and flush the rows of the songs it refused and
\* of the songs it returned: all of them have been persisted.
BuildAdd(b) ==
  /\ builder[b].pc = "filling" /\ builder[b].batch = <<>>
  /\ builder[b].len < MaxQueueLength
  /\ \E songs \in Accepted(b), refused \in Rejected(b) :
       /\ Store(refused \o AcceptedRows(b, songs))
       /\ builder' = [builder EXCEPT ![b] =
            BuilderAfter(b, Head(songs), ToTime(songs, nextId + Len(refused)))]
  /\ UNCHANGED <<now, fetchVars, deckVars, feedbackVars, operVars>>

\* Flush the cue time of the next row of a merged playlist, if it is another
\* than the row was stored with.
BuildAddNext(b) ==
  /\ builder[b].pc = "filling" /\ builder[b].batch # <<>>
  /\ builder[b].cue \in Timestamp
  /\ LET next == Head(builder[b].batch)
     IN  /\ queue' = IF next.cued = builder[b].cue THEN queue
                     ELSE SetCued(queue, [r \in {next.row} |-> builder[b].cue])
         /\ builder' = [builder EXCEPT ![b] =
              BuilderAfter(b, next.song, Tail(builder[b].batch))]
  /\ UNCHANGED <<now, nextId, fetchVars, deckVars, feedbackVars, operVars>>

\* The event returned no song: flush what was persisted, and stop.
BuildGiveUp(b) ==
  /\ builder[b].pc = "filling" /\ builder[b].batch = <<>>
  /\ builder[b].len < MaxQueueLength
  /\ \E refused \in Rejected(b) : Store(refused)
  /\ builder' = [builder EXCEPT ![b] = IdleBuilder]
  /\ UNCHANGED <<now, fetchVars, deckVars, feedbackVars, operVars>>

\* The queue is long enough.
BuildDone(b) ==
  /\ builder[b].pc = "filling" /\ builder[b].batch = <<>>
  /\ builder[b].len >= MaxQueueLength
  /\ builder' = [builder EXCEPT ![b] = IdleBuilder]
  /\ UNCHANGED <<now, queue, nextId, fetchVars, deckVars, feedbackVars, operVars>>

\* The process is killed (the sync loop's time limit) or throws.
BuildCrash(b) ==
  /\ builder[b].pc # "idle"
  /\ builder' = [builder EXCEPT ![b] = IdleBuilder]
  /\ UNCHANGED <<now, queue, nextId, fetchVars, deckVars, feedbackVars, operVars>>

-----------------------------------------------------------------------------
(***************************************************************************)
(* Liquidsoap fetches the next track.                                      *)
(***************************************************************************)

\* A nextsong call arrives and its worker reads the next row to send.  When
\* there is none the answer is "false" and nothing changes.
FetchRead(f) ==
  /\ waiting = NoFetcher /\ ready = NoTrack /\ fetcher[f] = NoTrack
  /\ \E r \in NextToSend(queue) :
       fetcher' = [fetcher EXCEPT ![f] = [row |-> r, song |-> queue[r].song]]
  /\ waiting' = f
  /\ UNCHANGED <<now, queue, nextId, builder, deckVars, feedbackVars, operVars,
                 delivered>>

\* The worker marks the row as sent and answers; Liquidsoap takes the answer
\* unless it has stopped waiting for it.
FetchSend(f) ==
  /\ fetcher[f] # NoTrack
  /\ now \in Timestamp
  /\ queue' = SetSent(queue, fetcher[f].row, now)
  /\ fetcher' = [fetcher EXCEPT ![f] = NoTrack]
  /\ IF waiting = f
     THEN /\ ready' = fetcher[f]
          /\ delivered' = [delivered EXCEPT ![fetcher[f].row] = @ + 1]
          /\ waiting' = NoFetcher
     ELSE UNCHANGED <<ready, delivered, waiting>>
  /\ UNCHANGED <<now, nextId, builder, onAir, over, reports, feedbackVars, operVars>>

\* Liquidsoap's time limit for the call passes (or the answer is lost).
FetchTimeout ==
  /\ waiting # NoFetcher
  /\ waiting' = NoFetcher
  /\ UNCHANGED <<now, queue, nextId, builder, fetcher, delivered, deckVars,
                 feedbackVars, operVars>>

\* The worker fails before its flush: the answer is "false".
FetchFail(f) ==
  /\ fetcher[f] # NoTrack
  /\ fetcher' = [fetcher EXCEPT ![f] = NoTrack]
  /\ waiting' = IF waiting = f THEN NoFetcher ELSE waiting
  /\ UNCHANGED <<now, queue, nextId, builder, delivered, deckVars, feedbackVars,
                 operVars>>

-----------------------------------------------------------------------------
(***************************************************************************)
(* Liquidsoap plays and reports what it plays.                             *)
(***************************************************************************)

\* A change of title is reported in a thread of its own; the call may fail
\* and is not repeated.
Report(s) ==
  \/ UNCHANGED reports
  \/ /\ s \notin {Title, NoSong}
     /\ reports' = reports \cup {s}
     /\ Cardinality(reports') <= MaxReports

\* The fetched track starts: the one before it ended or was skipped.
StartTrack ==
  /\ ready # NoTrack /\ over = NoSong
  /\ onAir' = ready.song
  /\ ready' = NoTrack
  /\ Report(ready.song)
  /\ UNCHANGED <<now, queue, nextId, builder, fetchVars, over, feedbackVars, operVars>>

\* The DJ or the interrupting song is over: what is left of the track goes on.
OverEnds ==
  /\ over # NoSong
  /\ over' = NoSong
  /\ Report(onAir)
  /\ UNCHANGED <<now, queue, nextId, builder, fetchVars, ready, onAir, feedbackVars,
                 operVars>>

-----------------------------------------------------------------------------
(***************************************************************************)
(* The feedback command.                                                   *)
(***************************************************************************)

\* BUG variant: a row that was already tracked is found again.
FeedbackRow_AnySent(s) ==
  LET R == {r \in DOMAIN queue : queue[r].sent /\ queue[r].song = s}
  IN  IF R = {} THEN {NoRow} ELSE R

\* The row a report is matched with: the first sent, unplayed row of the song.
FeedbackRow(s) ==
  IF RecentlyCued(queue, s) = {} THEN {NoRow} ELSE RecentlyCued(queue, s)

\* A report arrives.  A song that is already the current one is refused.
FeedbackRead(w, s) ==
  /\ feedback[w].pc = "idle"
  /\ reports' = reports \ {s}
  /\ IF s = current
     THEN UNCHANGED feedback
     ELSE \E r \in FeedbackRow(s) :
            feedback' = [feedback EXCEPT ![w] =
              IF r = NoRow
              THEN [IdleFeedback EXCEPT !.pc = "saving", !.song = s]
              ELSE [pc |-> "tracking", song |-> s, row |-> r, cued |-> queue[r].cued]]
  /\ UNCHANGED <<now, queue, nextId, builder, fetchVars, ready, onAir, over, current,
                 entries, operVars>>

\* Mark the row, and the rows cued before it, as played.
FeedbackTrack(w) ==
  /\ feedback[w].pc = "tracking"
  /\ queue' = TrackPlayed(queue, feedback[w].row, feedback[w].cued)
  /\ feedback' = [feedback EXCEPT ![w].pc = "saving"]
  /\ UNCHANGED <<now, nextId, builder, fetchVars, deckVars, current, entries, operVars>>

\* Store the history entry and make it the station's current song.
FeedbackSave(w) ==
  /\ feedback[w].pc = "saving"
  /\ current' = feedback[w].song
  /\ entries' = [r \in RowId |->
                   IF r = feedback[w].row THEN entries[r] + 1 ELSE entries[r]]
  /\ feedback' = [feedback EXCEPT ![w] = IdleFeedback]
  /\ UNCHANGED <<now, queue, nextId, builder, fetchVars, deckVars, operVars>>

\* The handler fails between two statements.
FeedbackFail(w) ==
  /\ feedback[w].pc # "idle"
  /\ feedback' = [feedback EXCEPT ![w] = IdleFeedback]
  /\ UNCHANGED <<now, queue, nextId, builder, fetchVars, deckVars, current, entries,
                 operVars>>

-----------------------------------------------------------------------------
(***************************************************************************)
(* Operators, DJs and cleanup.                                             *)
(***************************************************************************)

Operator == ops < MaxOps /\ ops' = ops + 1

\* A DJ goes on the air; what was playing is skipped.
LiveBegins ==
  /\ Operator
  /\ over # LiveSong
  /\ over' = LiveSong
  /\ onAir' = IF over = NoSong THEN NoSong ELSE onAir
  /\ Report(LiveSong)
  /\ UNCHANGED <<now, queue, nextId, builder, fetchVars, ready, feedbackVars, manual>>

\* Delete rows in one statement.
DropRows(R) ==
  /\ queue' = Delete(queue, R)
  /\ UNCHANGED <<now, nextId, builder, fetchVars, deckVars, feedbackVars, manual>>

\* Delete a single row.
OpDelete(r) == Operator /\ r \in DOMAIN queue /\ DropRows({r})

\* Clear the upcoming queue.
OpClearUpcoming == Operator /\ Unsent(queue) # {} /\ DropRows(Unsent(queue))

\* Clear all unplayed rows (CLI, station edit).
OpClearUnplayed == Operator /\ Unplayed(queue) # {} /\ DropRows(Unplayed(queue))

\* A song is taken out of a playlist: its unplayed rows from that playlist go.
OpUnassign(s) ==
  /\ Operator
  /\ \E R \in SUBSET {r \in Unplayed(queue) : queue[r].song = s} : R # {} /\ DropRows(R)

\* "Rebuild Queue": clear all unplayed rows and run a builder.
OpRebuild(b) ==
  /\ Operator
  /\ builder[b].pc = "idle"
  /\ queue' = Delete(queue, Unplayed(queue))
  /\ builder' = [builder EXCEPT ![b].pc = "asked"]
  /\ UNCHANGED <<now, nextId, fetchVars, deckVars, feedbackVars, manual>>

\* "Queue": read the next row to send, ...
OpQueueRead ==
  /\ Operator
  /\ manual = NothingManual
  /\ \E songs \in Batches :
       IF Unsent(queue) = {}
       THEN manual' = [songs |-> songs, cue |-> now]
       ELSE \E r \in NextToSend(queue) :
              manual' = [songs |-> songs, cue |-> queue[r].cued - QueueGap]
  /\ UNCHANGED <<now, queue, nextId, builder, fetchVars, deckVars, feedbackVars>>

\* ... and insert the songs before it, each before the one inserted last.
OpQueueWrite ==
  /\ manual # NothingManual
  /\ Store([i \in DOMAIN manual.songs |->
              NewRow(manual.songs[i], manual.cue - (i - 1) * QueueGap, FALSE)])
  /\ manual' = NothingManual
  /\ UNCHANGED <<now, builder, fetchVars, deckVars, feedbackVars, ops>>

\* "Play immediately": the row is stored as played, then pushed to Liquidsoap's
\* interrupting queue.  The push may fail; a live DJ hides the song.
OpPlayNow(s) ==
  /\ Operator
  /\ Store(<<PlayedRow(s, now)>>)
  /\ \/ UNCHANGED <<over, reports>>
     \/ over # LiveSong /\ over' = s /\ Report(s)
  /\ UNCHANGED <<now, builder, fetchVars, ready, onAir, feedbackVars, manual>>

\* The cleanup task deletes every row cued long ago.
Cleanup ==
  LET old == {r \in DOMAIN queue : queue[r].cued <= now - KeepTime}
  IN  Operator /\ old # {} /\ DropRows(old)

Tick ==
  /\ now < MaxTime
  /\ now' = now + 1
  /\ UNCHANGED <<queue, nextId, builder, fetchVars, deckVars, feedbackVars, operVars>>

-----------------------------------------------------------------------------
Build(b) ==
  \/ BuildRead(b) \/ BuildFlush(b) \/ BuildAdd(b) \/ BuildAddNext(b)
  \/ BuildGiveUp(b) \/ BuildDone(b) \/ BuildCrash(b)

Fetch(f) == FetchRead(f) \/ FetchSend(f) \/ FetchFail(f)

Feedback(w) ==
  \/ \E s \in reports : FeedbackRead(w, s)
  \/ FeedbackTrack(w) \/ FeedbackSave(w) \/ FeedbackFail(w)

Operate ==
  \/ \E r \in RowId : OpDelete(r)
  \/ OpClearUpcoming \/ OpClearUnplayed
  \/ \E s \in Song : OpUnassign(s)
  \/ \E b \in Rebuilder : OpRebuild(b)
  \/ OpQueueRead \/ OpQueueWrite
  \/ \E s \in Song : OpPlayNow(s)
  \/ LiveBegins \/ Cleanup

Next ==
  \/ \E b \in Builder : Build(b)
  \/ \E f \in Fetcher : Fetch(f)
  \/ FetchTimeout \/ StartTrack \/ OverEnds
  \/ \E w \in FeedbackWorker : Feedback(w)
  \/ Operate \/ Tick

Spec == Init /\ [][Next]_vars

-----------------------------------------------------------------------------
(***************************************************************************)
(* Properties.                                                             *)
(***************************************************************************)

Feedbacks ==
  [pc: {"idle", "tracking", "saving"}, song: Song \cup {LiveSong, NoSong},
   row: RowId \cup {NoRow}, cued: Timestamp \cup {StartTime}]

Track == [row: RowId \cup {NoRow}, song: Song \cup {NoSong}]

\* New cue times of some rows.
Plans == UNION {[R -> Timestamp] : R \in SUBSET RowId}

Builders ==
  [pc: {"idle", "asked", "retiming", "filling"}, plan: Plans,
   cue: Int, last: Song \cup {NoSong}, len: Nat,
   batch: Seq([row: RowId, song: Song, cued: Timestamp]), read: Plans]

\* What the processes and Liquidsoap hold.
ProcessOK ==
  /\ now \in Int
  /\ builder \in [Builder -> Builders]
  /\ fetcher \in [Fetcher -> Track]
  /\ waiting \in Fetcher \cup {NoFetcher}
  /\ ready \in Track
  /\ onAir \in Song \cup {NoSong}
  /\ over \in Song \cup {LiveSong, NoSong}
  /\ reports \subseteq Song \cup {LiveSong}
  /\ feedback \in [FeedbackWorker -> Feedbacks]
  /\ current \in Song \cup {LiveSong, NoSong}
  /\ manual \in [songs: Seq(Song), cue: Int]
  /\ ops \in 0 .. MaxOps
  /\ delivered \in [RowId -> Nat]
  /\ entries \in [RowId -> Nat]

\* Type invariant: every row, track, call and in-memory result has the shape
\* its writer gives it, and only ids the counter has passed are in use.
TypeOK == nextId \in 1 .. MaxRow + 1 /\ IsTable(queue, nextId) /\ ProcessOK

\* The stage a row has reached, read off its flags.  A row that is played
\* and not sent would be in none.
StageOf(r) ==
  CASE r >= nextId -> "none"
    [] r < nextId /\ r \notin DOMAIN queue -> "removed"
    [] r \in DOMAIN queue /\ queue[r].played /\ queue[r].sent -> "played"
    [] r \in DOMAIN queue /\ ~ queue[r].played /\ queue[r].sent -> "sent"
    [] r \in DOMAIN queue /\ ~ queue[r].played /\ ~ queue[r].sent -> "upcoming"
    [] OTHER -> "corrupt"

Lifecycle == INSTANCE RowLifecycle WITH stage <- [r \in RowId |-> StageOf(r)]

\* Refinement: whatever stale reads the five writers act on, a row only moves
\* forward (buildQueue's late flush never makes a sent or played row upcoming
\* again, nor does it bring back a deleted row).
RowsMoveForward == Lifecycle!LifecycleSpec

\* Rows the builders picked that Liquidsoap has not fetched.
Picked(q) == {r \in Unsent(q) : q[r].picked}

\* Queue::buildQueue stops at the configured length: of its own picks no more
\* than that wait at a time, whatever is sent, deleted, queued by hand or
\* refused while it runs; a merged playlist may exceed it by its other songs,
\* and each unlocked rebuild may fill the queue once more.
PickedBound ==
  Cardinality(Picked(queue)) <= Cardinality(Builder) * (MaxQueueLength - 1 + MaxBatch)

\* A row is handed to Liquidsoap at most once, through retiming, clearing and
\* answers that come too late from workers that still run when the next call
\* comes in.
DeliveredOnce == \A r \in RowId : delivered[r] <= 1

\* A row makes at most one song history entry, however often its song is
\* reported: live interruptions, repeated titles, handlers that fail midway
\* (feedback handlers that do not overlap).
OneEntryPerRow == \A r \in RowId : entries[r] <= 1

\* Retiming does not reorder the rows it has read: of two unsent rows that are
\* still cued as the builder read them, the one cued first stays cued first, or
\* at the same second, whatever was sent, deleted, queued by hand or added by
\* another builder before the flush.  (A row that was queued or re-timed in
\* between is none of these: the flush may put the others before it.)
RetimingKeepsOrder ==
  [][\A b \in Builder : BuildFlush(b) =>
       LET read == builder[b].read
           kept == {r \in Unsent(queue) \cap DOMAIN read : queue[r].cued = read[r]}
       IN  \A r, t \in kept :
             read[r] < read[t] => queue'[r].cued <= queue'[t].cued]_vars

\* No row is marked as sent unless a nextsong call has sent it
\* (StationQueueDetailed.sent_to_autodj).
SentMeansSent ==
  [][\A r \in Unsent(queue) \cap DOMAIN queue' :
       queue'[r].sent => \E f \in Fetcher : fetcher[f].row = r /\ FetchSend(f)]_vars
=============================================================================
