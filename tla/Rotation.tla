------------------------------ MODULE Rotation ------------------------------
(***************************************************************************)
(* Which song of a playlist is queued next: the part of the queue builder  *)
(* that AutoDjQueue leaves open.  One playlist of songs, which may be      *)
(* scheduled for a window of time, beside a general rotation that fills    *)
(* the queue whenever this playlist does not (Other stands for its songs). *)
(*                                                                         *)
(* The builder keeps Doctrine's identity map: a record it has changed is   *)
(* not read again in the same run, so resetQueue's UPDATE, which goes past *)
(* the map, does not show in it, and a change back is no change to write.  *)
(*                                                                         *)
(* Every song takes one unit of time.  The queue is built ahead, for the   *)
(* times at which its rows are expected to play; rows may play later (a    *)
(* live DJ) and, when a song is skipped or a row deleted, earlier.         *)
(***************************************************************************)
EXTENDS PlaylistQueue, SequencesExt

CONSTANTS
  NoSong,       \* no song: null
  Other,        \* a song of the general rotation
  Modes,        \* what may be set for the playlist: its songs, schedule, order
  QueueLength,  \* autodj_queue_length, at least 2
  WinStart, WinEnd, \* the window the playlist is scheduled for
  TimeRange         \* duplicate_prevention_time_range

\* Bounds.
CONSTANTS
  MaxTime,      \* the clock stops here
  MaxOps        \* steps of operators

ASSUME OtherAssumption == NoSong \notin Media /\ Other \notin Media \cup {NoSong}
ASSUME QueueLengthAssumption == QueueLength \in Nat /\ QueueLength >= 2
ASSUME TimeAssumption ==
  /\ {WinStart, WinEnd, TimeRange, MaxTime, MaxOps} \subseteq Nat
  /\ 1 < WinStart /\ WinStart <= WinEnd /\ 1 <= MaxTime
ASSUME ModesAssumption ==
  Modes \subseteq [songs : (SUBSET Media) \ {{}},
                   kind : {"always", "loop once", "single track"},
                   shuffle : BOOLEAN, avoid : BOOLEAN]

VARIABLES
  mode,     \* the playlist's settings; they do not change
  now,      \* the clock
  rows,     \* the unplayed rows of the queue, with their timestamp_played
  until,    \* the time at which the current song ends
  seen,     \* timestamp_played of the last played row of each song, or 0
  queued,   \* is_queued of each song
  weight,   \* weight of each song
  playedAt, \* the playlist's played_at
  resetAt,  \* the playlist's queue_reset_at
  run,      \* the builder's run
  ops       \* steps of operators so far

\* History variables: how often each song was started, which one was stored in
\* the queue last, whether it was stored since the last reset, and what happened
\* that the playlist's settings make no provision for.
VARIABLES aired, latest, served, disturbed

listVars == <<queued, weight, playedAt, resetAt>>
vars == <<mode, now, rows, until, seen, queued, weight, playedAt, resetAt, run, ops,
          aired, latest, served, disturbed>>

-----------------------------------------------------------------------------
\* What a run holds in memory: the expected play time, the length, the last
\* song, the history read for the present song, the attempt (a second one allows
\* duplicates), the managed records known to be out of the rotation, the ones
\* whose change is to be written, the rows that were refused and are persisted,
\* the playlist's two times, the time a reset is to be dated.
Idle == [pc |-> "idle", exp |-> 0, len |-> 0, last |-> NoSong,
         history |-> {}, again |-> FALSE, known |-> {}, dirty |-> {},
         refused |-> <<>>, playedAt |-> 0, resetAt |-> 0, at |-> 0, song |-> NoSong]

Init ==
  /\ mode \in Modes
  /\ now = 1 /\ rows = <<>> /\ until = 1
  /\ seen = [m \in Media |-> 0]
  /\ weight \in Weights(mode.songs)
  /\ \E done \in 0 .. Cardinality(mode.songs) :
        queued = [m \in mode.songs |-> done < weight[m]]
  /\ playedAt = 0 /\ resetAt = 0
  /\ run = Idle /\ ops = 0
  /\ aired = [m \in Media |-> 0] /\ latest = NoSong
  /\ served = {m \in mode.songs : ~ queued[m]}
  /\ disturbed = {}

InWindow(t) == WinStart <= t /\ t <= WinEnd

HasCued == \E i \in DOMAIN rows : rows[i].song \in Media

Later(s, t) == IF s < t THEN t ELSE s

\* getRecentlyPlayedByTimeRange: the rows that wait in the queue and the ones
\* played within the range before the expected play time, or later.
History(exp) ==
  {<<rows[i].song, rows[i].exp>> : i \in {j \in DOMAIN rows : rows[j].song \in Media}}
  \cup {<<m, seen[m]>> : m \in {k \in Media : seen[k] > 0 /\ seen[k] >= exp - TimeRange}}

\* The unplayed rows with the times the builder gives them.
Retimed == [i \in DOMAIN rows |-> [rows[i] EXCEPT !.exp = Later(now, until) + i - 1]]

-----------------------------------------------------------------------------
(***************************************************************************)
(* The builder.                                                            *)
(***************************************************************************)

\* A run reads the queue and the playlist and gives the rows their times; a queue
\* that is long enough is left at that.
Start ==
  /\ run.pc = "idle"
  /\ rows' = Retimed
  /\ run' = IF Len(rows) >= QueueLength THEN Idle
            ELSE [Idle EXCEPT !.pc = "consider", !.len = Len(rows),
                              !.exp = Later(now, until) + Len(rows),
                              !.last = IF rows = <<>> THEN NoSong ELSE Last(rows).song,
                              !.playedAt = playedAt, !.resetAt = resetAt]
  /\ UNCHANGED <<mode, now, until, seen, listVars, ops, aired, latest, served, disturbed>>

\* BUG variant: the general rotation has no song to give.
PassOn_NoSong(r) == [r EXCEPT !.pc = "store", !.song = NoSong]

\* The playlist's turn is over: the general rotation gives the song.
PassOn(r) == [r EXCEPT !.pc = "store", !.song = Other]

\* shouldPlaylistLoopNow after the resets, on the playlist as this run holds it:
\* refetch returns the managed record.
LoopOrPass(r, isQueueEmpty) ==
  IF ~ isQueueEmpty /\ ~ InWindow(r.resetAt) THEN [r EXCEPT !.pc = "pick"] ELSE PassOn(r)

\* shouldPlaylistLoopNow resets the rotation at the first look in a window if
\* it is used up or begun, and later when it is used up, unless some of its
\* songs still wait in the queue.
MustReset(r) ==
  /\ ~ HasCued
  /\ IF ~ InWindow(r.playedAt)
     THEN ~ IsQueueCompletelyFilled(queued) \/ IsQueueEmpty(queued)
     ELSE IsQueueEmpty(queued)

\* The time of a reset is the present one, unless another is asked for.
Present == 0

\* BUG variant: a reset of a used-up rotation is dated like the first one.
ResetTime_Before(r) == WinStart - 1

\* The first reset of a window is dated just before it.
ResetTime(r) == IF InWindow(r.playedAt) THEN Present ELSE WinStart - 1

\* The schedule allows the playlist, and it is not a single-track one that has
\* been picked in this window.
MayPlay(r) ==
  \/ mode.kind = "always"
  \/ InWindow(r.exp) /\ (mode.kind = "single track" => r.playedAt < WinStart)

\* A BuildQueue event: the history is read and the playlist is considered.
Consider ==
  /\ run.pc = "consider"
  /\ LET r == [run EXCEPT !.history = History(run.exp), !.again = FALSE]
     IN  run' = IF ~ MayPlay(r) THEN PassOn(r)
                ELSE IF mode.kind # "loop once" THEN [r EXCEPT !.pc = "pick"]
                ELSE IF MustReset(r)
                THEN [r EXCEPT !.pc = "reset to loop", !.at = ResetTime(r)]
                ELSE LoopOrPass(r, IsQueueEmpty(queued))
  /\ UNCHANGED <<mode, now, rows, until, seen, listVars, ops, aired, latest, served,
                 disturbed>>

\* resetQueue's UPDATE: every song is queued, a shuffled playlist gets new weights.
ResetSongs ==
  /\ queued' = [m \in mode.songs |-> TRUE]
  /\ weight' \in IF mode.shuffle THEN Weights(mode.songs) ELSE {weight}
  /\ served' = {}

Reset ==
  /\ run.pc \in {"reset to loop", "reset to pick"}
  /\ ResetSongs
  /\ run' = [run EXCEPT !.pc = IF @ = "reset to loop" THEN "flush to loop"
                                                      ELSE "flush to pick"]
  /\ UNCHANGED <<mode, now, rows, until, seen, playedAt, resetAt, ops, aired, latest,
                 disturbed>>

\* The rows with some put before the ones that wait; the first of these may have
\* been sent to Liquidsoap already, then it stays the first.
BeforeWaiting(new) ==
  {new \o rows} \cup IF rows = <<>> THEN {} ELSE {<<Head(rows)>> \o new \o Tail(rows)}

SongsOf(s) == {s[i].song : i \in DOMAIN s} \cap Media

\* The song of the last of some rows that holds one of the playlist's.
LatestStored(s) ==
  \/ SongsOf(s) = {} /\ latest' = latest
  \/ \E i \in DOMAIN s : /\ s[i].song \in Media
                         /\ \A j \in DOMAIN s : j > i => s[j].song \notin Media
                         /\ latest' = s[i].song

\* BUG variant: the refused rows are given up, their songs' changes are not.
Flush_OnlyNew(new) ==
  /\ \E before \in BeforeWaiting(<<>>) : rows' = before \o new
  /\ queued' = [m \in mode.songs |-> queued[m] /\ m \notin run.dirty]
  /\ playedAt' = run.playedAt
  /\ served' = served \cup SongsOf(new)
  /\ latest' = IF SongsOf(new) = {} THEN latest ELSE Last(new).song

\* A flush of what the run has persisted, with new rows.  The refused rows were
\* created before the row accepted now and are cued at the present time, before
\* the rows that wait.
Flush(new) ==
  /\ \E before \in BeforeWaiting(run.refused) : rows' = before \o new
  /\ queued' = [m \in mode.songs |-> queued[m] /\ m \notin run.dirty]
  /\ playedAt' = run.playedAt
  /\ served' = served \cup SongsOf(run.refused \o new)
  /\ LatestStored(run.refused \o new)

Flushed == [run EXCEPT !.known = @ \cup run.dirty, !.dirty = {}, !.refused = <<>>]

\* resetQueue dates the reset and flushes.
ResetFlush ==
  /\ run.pc \in {"flush to loop", "flush to pick"}
  /\ Flush(<<>>)
  /\ resetAt' = IF run.at = Present THEN now ELSE run.at
  /\ LET r == [Flushed EXCEPT !.resetAt = resetAt']
     IN  run' = IF run.pc = "flush to loop" THEN LoopOrPass(r, FALSE)
                                            ELSE [r EXCEPT !.pc = "choose"]
  /\ UNCHANGED <<mode, now, until, seen, weight, ops, aired, disturbed>>

\* A used-up rotation is reset before a song is picked; so is a shuffled one
\* when duplicates have to be allowed.
ResetToPick ==
  \/ IsQueueEmpty(queued)
  \/ mode.shuffle /\ mode.avoid /\ run.again

PickAfterReset ==
  /\ run.pc = "pick" /\ ResetToPick
  /\ run' = [run EXCEPT !.pc = "reset to pick", !.at = Present]
  /\ UNCHANGED <<mode, now, rows, until, seen, listVars, ops, aired, latest, served,
                 disturbed>>

\* playSongFromPlaylist's choice, if there is one.
NextTracks ==
  IF mode.shuffle /\ mode.avoid
  THEN PreventDuplicates(GetQueue(queued), weight, run.history, run.again)
  ELSE FirstOf(GetQueue(queued), weight)

\* After a choice that did not lead to a song: once more, allowing duplicates,
\* then the general rotation.
TryAgain(r) == IF r.again THEN PassOn(r) ELSE [r EXCEPT !.pc = "pick", !.again = TRUE]

\* The song is marked as played and a row is persisted before setNextSongs
\* refuses it as a repetition of the last one.
Chosen(m) ==
  LET r == [run EXCEPT !.playedAt = run.exp,
                       !.dirty = IF queued[m] /\ m \notin run.known THEN @ \cup {m} ELSE @]
  IN  IF m = run.last
      THEN TryAgain([r EXCEPT !.refused = Append(@, [song |-> m, exp |-> now])])
      ELSE [r EXCEPT !.pc = "store", !.song = m]

Choose ==
  /\ run.pc = "choose" \/ (run.pc = "pick" /\ ~ ResetToPick)
  /\ \/ NextTracks = {} /\ run' = TryAgain(run) /\ UNCHANGED disturbed
     \/ \E m \in NextTracks :
           /\ run' = Chosen(m)
           /\ disturbed' = disturbed
                \cup (IF m = run.last THEN {"refused song"} ELSE {})
                \cup (IF m \in run.known THEN {"stale record"} ELSE {})
  /\ UNCHANGED <<mode, now, rows, until, seen, listVars, ops, aired, latest, served>>

\* The row of the accepted song is stored, and the run goes on until the queue is
\* long enough.
Store ==
  /\ run.pc = "store"
  /\ Flush(<<[song |-> run.song, exp |-> run.exp]>>)
  /\ run' = IF run.len + 1 >= QueueLength THEN Idle
            ELSE [Flushed EXCEPT !.pc = "consider", !.exp = @ + 1, !.len = @ + 1,
                                 !.last = run.song]
  /\ UNCHANGED <<mode, now, until, seen, weight, resetAt, ops, aired, disturbed>>

\* The process is killed.  A reset that was under way is left without its date.
Crash ==
  /\ run.pc # "idle"
  /\ run' = Idle
  /\ disturbed' = IF run.pc \in {"flush to loop", "flush to pick"}
                  THEN disturbed \cup {"torn reset"} ELSE disturbed
  /\ UNCHANGED <<mode, now, rows, until, seen, listVars, ops, aired, latest, served>>

-----------------------------------------------------------------------------
(***************************************************************************)
(* Playing, and the operators.                                             *)
(***************************************************************************)

Tick ==
  /\ now < MaxTime
  /\ now' = now + 1
  /\ disturbed' = IF now = WinEnd /\ run.pc # "idle" THEN disturbed \cup {"slow run"}
                                                     ELSE disturbed
  /\ UNCHANGED <<mode, rows, until, seen, listVars, run, ops, aired, latest, served>>

\* The next row starts when the song before it is over, or later.
RowStarts ==
  /\ rows # <<>> /\ until <= now
  /\ LET m == Head(rows).song
     IN  IF m \in Media
         THEN /\ seen' = [seen EXCEPT ![m] = now]
              /\ aired' = [aired EXCEPT ![m] = @ + 1]
              /\ disturbed' = IF now < WinStart THEN disturbed \cup {"early"} ELSE disturbed
         ELSE UNCHANGED <<seen, aired, disturbed>>
  /\ rows' = Tail(rows)
  /\ until' = now + 1
  /\ UNCHANGED <<mode, now, listVars, run, ops, latest, served>>

Operate == ops < MaxOps /\ ops' = ops + 1

\* The current song is skipped.
OpSkip ==
  /\ Operate
  /\ until > now /\ until' = now
  /\ UNCHANGED <<mode, now, rows, seen, listVars, run, aired, latest, served, disturbed>>

\* A row is deleted on the queue page.
OpDelete ==
  /\ Operate
  /\ \E i \in DOMAIN rows : rows' = RemoveAt(rows, i)
  /\ UNCHANGED <<mode, now, until, seen, listVars, run, aired, latest, served, disturbed>>

\* The playlist is reshuffled, or its queue cleared, on the playlists page.
OpReset ==
  /\ Operate
  /\ ResetSongs
  /\ resetAt' = now
  /\ disturbed' = disturbed \cup {"reset by hand"}
  /\ UNCHANGED <<mode, now, rows, until, seen, playedAt, run, aired, latest>>

Next ==
  \/ Start \/ Consider \/ Reset \/ ResetFlush \/ PickAfterReset \/ Choose \/ Store \/ Crash
  \/ Tick \/ RowStarts \/ OpSkip \/ OpDelete \/ OpReset

Spec == Init /\ [][Next]_vars

-----------------------------------------------------------------------------
Row == [song : Media \cup {Other}, exp : Nat]

TypeOK ==
  /\ mode \in Modes /\ now \in 1 .. MaxTime /\ until \in 1 .. MaxTime + 1
  /\ rows \in Seq(Row)
  /\ queued \in [mode.songs -> BOOLEAN] /\ weight \in Weights(mode.songs)
  /\ playedAt \in Nat /\ resetAt \in Nat
  /\ seen \in [Media -> 0 .. MaxTime]
  /\ run.last \in Media \cup {Other, NoSong} /\ run.dirty \cup run.known \subseteq Media

\* In the window each song of a playlist that loops once is played at most once,
\* and a single-track playlist plays one song, unless its rows started before the
\* window, somebody reset the rotation by hand, a run was killed within a reset or
\* was still going on at the end of the window, a song was refused (its rows are
\* stored all the same) or chosen again by the run that has changed its record.  A
\* shuffled playlist that avoids duplicates is left out: see PlaysOnce.
LoopsOnce ==
  disturbed = {} =>
    /\ mode.kind = "loop once" /\ ~ (mode.shuffle /\ mode.avoid)
         => \A m \in Media : aired[m] <= 1
    /\ mode.kind = "single track" => \A m, k \in Media : aired[m] + (IF k = m THEN 0 ELSE aired[k]) <= 1

\* "Only loop through playlist once", as the schedule form says of Loop Once, for
\* every setting of the playlist.
PlaysOnce ==
  disturbed = {} /\ mode.kind = "loop once" => \A m \in Media : aired[m] <= 1

\* A song leaves the rotation only with a row in the queue: whoever is killed or
\* refused between the two, a song that is not queued any more has been stored
\* since the last reset.
NoneIsLost == \A m \in mode.songs : queued[m] \/ m \in served

\* The song after another one in a sequential playlist, from its end back to its
\* start.
Follows(k, m) ==
  weight[m] = IF weight[k] = Cardinality(mode.songs) THEN 1 ELSE weight[k] + 1

\* "The order of the playlist is manually specified and followed by the AutoDJ":
\* whatever runs are killed and rows are deleted, the songs of a sequential playlist
\* are stored one after the other, as long as nobody resets it by hand and a run
\* picks no more songs than the playlist has.
OrderIsFollowed ==
  [][ mode.kind = "always" /\ ~ mode.shuffle /\ "reset by hand" \notin disturbed
      /\ QueueLength <= Cardinality(mode.songs)
      /\ Store /\ run.song \in Media /\ latest # NoSong
        => Follows(latest, run.song) ]_vars
=============================================================================
