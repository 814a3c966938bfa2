--------------------------- MODULE PlaylistQueue ---------------------------
(***************************************************************************)
(* A playlist's rotation as the AutoDJ reads it: which songs are still     *)
(* queued (StationPlaylistMedia.is_queued), with which weights, and which  *)
(* of them DuplicatePrevention lets through.  No variables.                *)
(***************************************************************************)
EXTENDS Integers, FiniteSets, FiniteSetsExt, Functions

CONSTANTS
  Media,    \* the songs of the station's library
  Similar   \* pairs of songs with the same title or with an artist in common

ASSUME MediaAssumption == IsFiniteSet(Media)
ASSUME SimilarAssumption ==
  /\ Similar \subseteq Media \X Media
  /\ \A m \in Media : <<m, m>> \in Similar

\* The weights a reset may give the songs of a shuffled playlist.
Weights(songs) == Bijection(songs, 1 .. Cardinality(songs))

\* getQueue: the songs still queued, to be taken by weight.
GetQueue(queued) == {m \in DOMAIN queued : queued[m]}

IsQueueEmpty(queued) == \A m \in DOMAIN queued : ~ queued[m]

IsQueueCompletelyFilled(queued) == \A m \in DOMAIN queued : queued[m]

\* BUG variant: no ORDER BY.
FirstOf_Unordered(tracks, weight) == tracks

\* The tracks of the least weight, and of the greatest.
FirstOf(tracks, weight) == {m \in tracks : \A k \in tracks : weight[m] <= weight[k]}
LastOf(tracks, weight) == {m \in tracks : \A k \in tracks : weight[k] <= weight[m]}

\* A history is a set of pairs of a song and a time: its rows.  The songs that
\* were not played have time 0.
LatestTime(m, history) == Max({0} \cup {h[2] : h \in {g \in history : g[1] = m}})

\* The tracks that share neither title nor artist with a song of the history.
Distinct(tracks, history) == {m \in tracks : \A h \in history : <<m, h[1]>> \notin Similar}

\* The least recently played of some tracks.  Tracks with the same time share
\* one key of the array, so the last of them is kept.
LeastRecent(tracks, weight, history) ==
  LastOf({m \in tracks : \A k \in tracks : LatestTime(m, history) <= LatestTime(k, history)},
         weight)

\* preventDuplicates: the first track that is no duplicate; when there is none
\* and duplicates are allowed, the least recently played one.
PreventDuplicates(tracks, weight, history, allowDuplicates) ==
  LET distinct == Distinct(tracks, history)
  IN  IF distinct # {} THEN FirstOf(distinct, weight)
      ELSE IF allowDuplicates THEN LeastRecent(tracks, weight, history)
      ELSE {}
=============================================================================
