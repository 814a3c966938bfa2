---------------------------- MODULE StationQueue ----------------------------
(***************************************************************************)
(* The station_queue table and the statements the application runs on it.  *)
(*                                                                         *)
(* A table is a function from the ids of the rows that exist to rows.  An  *)
(* id is an auto-increment value: it is never given to a second row.  Of a *)
(* row this module keeps the columns the AutoDJ decides on: the song, the  *)
(* expected cue time and the two flags sent_to_autodj and is_played.  The  *)
(* field picked is a history variable: it tells the rows buildQueue got    *)
(* from a BuildQueue event from the others.                                *)
(* timestamp_played, is_visible and the links to playlist, media and       *)
(* request are data no decision modelled here reads.                       *)
(***************************************************************************)
EXTENDS Integers, Sequences, FiniteSets, SequencesExt

CONSTANTS
  Song,       \* the songs of the station's library
  Duration,   \* seconds of each song; a row without a duration counts as 1
  Crossfade,  \* the station's crossfade, in seconds
  Timestamp   \* the values the column timestamp_cued can hold

ASSUME SongAssumption == Song # {}
ASSUME DurationAssumption == Duration \in [Song -> Nat]
ASSUME CrossfadeAssumption == Crossfade \in Nat
ASSUME TimestampAssumption == Timestamp \subseteq Int

Row == [song: Song, cued: Timestamp, sent: BOOLEAN, played: BOOLEAN,
        picked: BOOLEAN]

\* q holds rows under ids below n.
IsTable(q, n) ==
  /\ DOMAIN q \subseteq 1 .. n - 1
  /\ \A r \in DOMAIN q : q[r] \in Row

EmptyTable == [r \in {} |-> 0]

(***************************************************************************)
(* Rows as the constructors make them.                                     *)
(***************************************************************************)

\* A row made from a song: cued at the given time, neither sent nor played.
NewRow(s, cue, picked) ==
  [song |-> s, cued |-> cue, sent |-> FALSE, played |-> FALSE, picked |-> picked]

\* setIsPlayed(true) also sets sent_to_autodj.
PlayedRow(s, cue) == [NewRow(s, cue, FALSE) EXCEPT !.sent = TRUE, !.played = TRUE]

\* BUG variant: the counter and the ids it gives out disagree.
Insert_OffByOne(q, first, new) ==
  [r \in DOMAIN q \cup first + 1 .. first + Len(new) |->
     IF r \in DOMAIN q THEN q[r] ELSE new[r - first]]

\* The table with the rows of a sequence inserted under ids from first on.
Insert(q, first, new) ==
  [r \in DOMAIN q \cup first .. first + Len(new) - 1 |->
     IF r \in DOMAIN q THEN q[r] ELSE new[r - first + 1]]

\* The table without the rows of a set.
Delete(q, R) == [r \in DOMAIN q \ R |-> q[r]]

(***************************************************************************)
(* Queries.                                                                *)
(***************************************************************************)

Unplayed(q) == {r \in DOMAIN q : ~ q[r].played}

Unsent(q) == {r \in DOMAIN q : ~ q[r].sent}

\* ORDER BY sent_to_autodj DESC, timestamp_cued ASC: r is listed before t.
\* Rows that agree on both columns come in any order.
Precedes(q, r, t) ==
  \/ q[r].sent /\ ~ q[t].sent
  \/ q[r].sent = q[t].sent /\ q[r].cued < q[t].cued

\* The results getUnplayedQueue may return: the unplayed rows in that order.
UnplayedQueues(q) ==
  {o \in SetToSeqs(Unplayed(q)) :
     \A i, j \in DOMAIN o : i < j => ~ Precedes(q, o[j], o[i])}

\* BUG variant: a row that was sent and not yet played is found again.
NextToSend_Unplayed(q) ==
  {r \in Unplayed(q) : \A t \in Unplayed(q) : q[r].cued <= q[t].cued}

\* The rows getNextToSendToAutoDj may return: an unsent row cued first.
NextToSend(q) == {r \in Unsent(q) : \A t \in Unsent(q) : q[r].cued <= q[t].cued}

\* The rows findRecentlyCuedSong may return for a song.
RecentlyCued(q, s) ==
  LET cuedSong == {r \in Unplayed(q) : q[r].sent /\ q[r].song = s}
  IN  {r \in cuedSong : \A t \in cuedSong : q[r].cued <= q[t].cued}

(***************************************************************************)
(* Updates.  An UPDATE names a row by its id and changes nothing when the  *)
(* row is gone; Doctrine writes only the columns that were changed.        *)
(***************************************************************************)

\* BUG variant: the flush restores the flags as the writer read them.
SetCued_WholeRow(q, cue) ==
  [r \in DOMAIN q |->
     IF r \in DOMAIN cue THEN [q[r] EXCEPT !.cued = cue[r], !.sent = FALSE]
                         ELSE q[r]]

\* BUG variant: the flush inserts the rows that are gone (merge, not update).
SetCued_Inserts(q, cue) ==
  [r \in DOMAIN q \cup DOMAIN cue |->
     IF r \notin DOMAIN q THEN NewRow(CHOOSE s \in Song : TRUE, cue[r], FALSE)
     ELSE IF r \in DOMAIN cue THEN [q[r] EXCEPT !.cued = cue[r]] ELSE q[r]]

\* Write timestamp_cued of the rows in the domain of cue that still exist.
SetCued(q, cue) ==
  [r \in DOMAIN q |->
     IF r \in DOMAIN cue THEN [q[r] EXCEPT !.cued = cue[r]] ELSE q[r]]

\* BUG variant: only the cue time is written.
SetSent_NoFlag(q, r, at) ==
  [t \in DOMAIN q |-> IF t = r THEN [q[t] EXCEPT !.cued = at] ELSE q[t]]

\* postAnnotation: the row is sent, and cued at the time it was sent.
SetSent(q, r, at) ==
  [t \in DOMAIN q |->
     IF t = r THEN [q[t] EXCEPT !.sent = TRUE, !.cued = at] ELSE q[t]]

\* BUG variant: only the rows cued earlier are marked.
TrackPlayed_EarlierOnly(q, id, cue) ==
  [r \in DOMAIN q |->
     IF ~ q[r].played /\ q[r].cued < cue
     THEN [q[r] EXCEPT !.played = TRUE, !.sent = TRUE] ELSE q[r]]

\* trackPlayed: the row that started playing, and every unplayed row cued
\* before it, are marked as played and as sent.
TrackPlayed(q, id, cue) ==
  [r \in DOMAIN q |->
     IF ~ q[r].played /\ (r = id \/ q[r].cued < cue)
     THEN [q[r] EXCEPT !.played = TRUE, !.sent = TRUE] ELSE q[r]]

(***************************************************************************)
(* Timing.                                                                 *)
(***************************************************************************)

\* What addDurationToTime adds for a song: the crossfade overlaps the next
\* one unless the song is shorter than the crossfade.
Advance(s) ==
  IF Duration[s] >= Crossfade THEN Duration[s] - Crossfade ELSE Duration[s]

\* The time at which the rows at positions I of a queue are all over, when
\* the first of them is cued at start.
CueAfter(q, o, I, start) ==
  start + MapThenSumSet(LAMBDA i : Advance(q[o[i]].song), I)

SentPositions(q, o) == {i \in DOMAIN o : q[o[i]].sent}

\* The cue time the first unsent row of the queue o gets at time now: when
\* the last sent row will be over.
FirstCue(q, o, now) ==
  LET S == SentPositions(q, o)
  IN  IF S = {} THEN now ELSE CueAfter(q, o, {Max(S)}, q[o[Max(S)]].cued)

\* BUG variant: the rows are re-timed from the last to the first.
Retimed_Reversed(q, o, first) ==
  LET U == DOMAIN o \ SentPositions(q, o)
  IN  [r \in {o[i] : i \in U} |->
         CueAfter(q, o, {j \in U : o[j] # r /\ \E i \in U : o[i] = r /\ j > i}, first)]

\* New cue times of the unsent rows of the queue o, one after the other.
Retimed(q, o, first) ==
  LET U == DOMAIN o \ SentPositions(q, o)
  IN  [r \in {o[i] : i \in U} |->
         CueAfter(q, o, {j \in U : \E i \in U : o[i] = r /\ j < i}, first)]

\* Doctrine's change set: the rows whose new cue time differs from the one read.
Changed(q, cue) == [r \in {t \in DOMAIN cue : cue[t] # q[t].cued} |-> cue[r]]

\* BUG variant: only the first unsent row counts.
CountedLength_Once(q, o) ==
  LET S == SentPositions(q, o)
  IN  (IF DOMAIN o \ S = {} THEN 0 ELSE 1) + (IF S = {} THEN 0 ELSE 1)

\* The length buildQueue counts: the unsent rows, and one for the sent ones.
CountedLength(q, o) ==
  LET S == SentPositions(q, o)
  IN  Cardinality(DOMAIN o \ S) + (IF S = {} THEN 0 ELSE 1)
=============================================================================
