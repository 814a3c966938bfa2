--------------------------- MODULE RotationProofs ---------------------------
(***************************************************************************)
(* Proofs about Rotation, for every library, playlist and queue length.    *)
(***************************************************************************)
EXTENDS Rotation, FiniteSetTheorems, WellFoundedInduction, TLAPS

Song == Media \cup {Other, NoSong}

Pc == {"idle", "consider", "reset to loop", "flush to loop", "pick", "reset to pick",
       "flush to pick", "choose", "store"}

\* What a run may hold in memory.
RunType == [pc : Pc, exp : Nat, len : Nat, last : Song, history : SUBSET (Media \X Nat),
            again : BOOLEAN, known : SUBSET Media, dirty : SUBSET Media,
            refused : Seq(Row), playedAt : Nat, resetAt : Nat, at : Nat, song : Song]

\* TypeOK with the run's memory typed whole; a song about to be stored is a song.
TypeInv ==
  /\ TypeOK
  /\ run \in RunType
  /\ run.pc = "store" => run.song \in Media \cup {Other}

\* A change that is still to be written has its row among the ones still to be
\* stored: both reach the database with the same flush.
DirtyInv ==
  \A m \in run.dirty : m \in SongsOf(run.refused) \/ (run.pc = "store" /\ run.song = m)

\* The playlists OrderIsFollowed speaks of.
Sequential ==
  /\ mode.kind = "always" /\ ~ mode.shuffle /\ "reset by hand" \notin disturbed
  /\ QueueLength <= Cardinality(mode.songs)

\* The songs still queued are the ones after the latest one stored, or all of them
\* when it was the last of the order; before the first they are the last ones.
SegmentInv ==
  \/ /\ latest # NoSong
     /\ \A m \in mode.songs : queued[m] <=> weight[latest] < weight[m]
  \/ /\ latest # NoSong /\ weight[latest] = Cardinality(mode.songs)
     /\ \A m \in mode.songs : queued[m]
  \/ /\ latest = NoSong
     /\ \A m, k \in mode.songs : queued[m] /\ weight[m] < weight[k] => queued[k]

\* How many songs of the order come after m up to the latest one.
StoredSince(m) ==
  weight[latest] - weight[m]
    + (IF weight[m] <= weight[latest] THEN 0 ELSE Cardinality(mode.songs))

\* A run that has stored a song holds its record and writes no second change of
\* it: these are the latest songs, fewer than the run has rows.
KnownOf(r) ==
  \A m \in r.known : m \in mode.songs /\ latest # NoSong /\ StoredSince(m) < r.len

Quiet(r) == r.dirty = {} /\ r.refused = <<>>

\* The next song of the order.
IsNext(m) == m \in FirstOf(GetQueue(queued), weight)

\* Song m was chosen, and refused or is about to be stored, or both its attempts
\* failed.
PendingSong(r, m) ==
  /\ r.pc \in {"pick", "store"}
  /\ r.dirty = {m}
  /\ \A i \in DOMAIN r.refused : r.refused[i].song = m
  /\ r.refused = <<>> => r.pc = "store" /\ r.song = m
  /\ r.pc = "store" => r.song \in {m, Other}

PendingOf(r) ==
  \/ Quiet(r) /\ (r.pc = "store" => r.song = Other)
  \/ \E m \in mode.songs : IsNext(m) /\ PendingSong(r, m)

OrderRun(r) ==
  /\ KnownOf(r) /\ PendingOf(r)
  /\ r.pc \notin {"reset to loop", "flush to loop"}
  /\ r.pc = "reset to pick" => IsQueueEmpty(queued)
  /\ r.pc # "idle" => r.len < QueueLength

OrderInv ==
  Sequential => /\ latest \in mode.songs \cup {NoSong}
                /\ SegmentInv
                /\ OrderRun(run)

-----------------------------------------------------------------------------
\* The parts of a mode.
LEMMA ModeType ==
  ASSUME mode \in Modes
  PROVE  mode.songs \subseteq Media
BY ModesAssumption

\* The playlist's turn ends with a song of the general rotation to be stored.
LEMMA PassOnType ==
  ASSUME NEW r \in RunType
  PROVE  /\ PassOn(r) \in RunType
         /\ PassOn(r).pc = "store" /\ PassOn(r).song = Other
         /\ PassOn(r).dirty = r.dirty /\ PassOn(r).refused = r.refused
BY DEF PassOn, RunType, Pc, Song

\* Looping or passing on changes neither the changes nor the rows to be stored.
LEMMA LoopOrPassType ==
  ASSUME NEW r \in RunType, NEW b
  PROVE  /\ LoopOrPass(r, b) \in RunType
         /\ LoopOrPass(r, b).pc = "store" => LoopOrPass(r, b).song = Other
         /\ LoopOrPass(r, b).dirty = r.dirty /\ LoopOrPass(r, b).refused = r.refused
<1>1. CASE ~ b /\ ~ InWindow(r.resetAt)
  <2>1. LoopOrPass(r, b) = [r EXCEPT !.pc = "pick"]
    BY <1>1 DEF LoopOrPass
  <2> QED BY <2>1 DEF RunType, Pc
<1>2. CASE ~ (~ b /\ ~ InWindow(r.resetAt))
  <2>1. LoopOrPass(r, b) = PassOn(r)
    BY <1>2 DEF LoopOrPass
  <2> QED BY <2>1, PassOnType
<1> QED BY <1>1, <1>2

\* Neither does trying again.
LEMMA TryAgainType ==
  ASSUME NEW r \in RunType
  PROVE  /\ TryAgain(r) \in RunType
         /\ TryAgain(r).pc = "store" => TryAgain(r).song = Other
         /\ TryAgain(r).dirty = r.dirty /\ TryAgain(r).refused = r.refused
<1>1. CASE r.again
  <2>1. TryAgain(r) = PassOn(r)
    BY <1>1 DEF TryAgain
  <2> QED BY <2>1, PassOnType
<1>2. CASE ~ r.again
  <2>1. TryAgain(r) = [r EXCEPT !.pc = "pick", !.again = TRUE]
    BY <1>2 DEF TryAgain
  <2> QED BY <2>1 DEF RunType, Pc
<1> QED BY <1>1, <1>2

\* A track that may be picked is a song of the playlist that is still queued.
LEMMA NextTracksType ==
  ASSUME TypeOK
  PROVE  NextTracks \subseteq mode.songs /\ \A m \in NextTracks : queued[m]
<1>1. GetQueue(queued) \subseteq mode.songs /\ \A m \in GetQueue(queued) : queued[m]
  BY DEF GetQueue, TypeOK
<1>2. \A t, w : FirstOf(t, w) \subseteq t /\ LastOf(t, w) \subseteq t
  BY DEF FirstOf, LastOf
<1>3. \A t, h : Distinct(t, h) \subseteq t
  BY DEF Distinct
<1>4. \A t, w, h : LeastRecent(t, w, h) \subseteq t
  BY <1>2 DEF LeastRecent
<1>5. \A t, w, h, a : PreventDuplicates(t, w, h, a) \subseteq t
  BY <1>2, <1>3, <1>4 DEF PreventDuplicates
<1> QED BY <1>1, <1>2, <1>5 DEF NextTracks

\* The songs of two sequences put together.
LEMMA SongsOfConcat ==
  ASSUME NEW s \in Seq(Row), NEW t \in Seq(Row)
  PROVE  SongsOf(s \o t) = SongsOf(s) \cup SongsOf(t)
<1>1. \A i \in DOMAIN s : i \in DOMAIN (s \o t) /\ (s \o t)[i] = s[i]
  OBVIOUS
<1>2. \A i \in DOMAIN t :
        i + Len(s) \in DOMAIN (s \o t) /\ (s \o t)[i + Len(s)] = t[i]
  OBVIOUS
<1>3. \A i \in DOMAIN (s \o t) :
        \/ i \in DOMAIN s /\ (s \o t)[i] = s[i]
        \/ \E j \in DOMAIN t : (s \o t)[i] = t[j]
  <2> TAKE i \in DOMAIN (s \o t)
  <2>1. CASE i <= Len(s)
    BY <2>1
  <2>2. CASE i > Len(s)
    <3>1. i - Len(s) \in DOMAIN t /\ (s \o t)[i] = t[i - Len(s)]
      BY <2>2
    <3> QED BY <3>1
  <2> QED BY <2>1, <2>2
<1>4. \A m \in SongsOf(s \o t) : m \in SongsOf(s) \cup SongsOf(t)
  BY <1>3 DEF SongsOf
<1>5. \A m \in SongsOf(s) : m \in SongsOf(s \o t)
  <2> TAKE m \in SongsOf(s)
  <2>1. PICK i \in DOMAIN s : m = s[i].song
    BY DEF SongsOf
  <2> QED BY <1>1, <2>1 DEF SongsOf
<1>6. \A m \in SongsOf(t) : m \in SongsOf(s \o t)
  <2> TAKE m \in SongsOf(t)
  <2>1. PICK i \in DOMAIN t : m = t[i].song
    BY DEF SongsOf
  <2> QED BY <1>2, <2>1 DEF SongsOf
<1> QED BY <1>4, <1>5, <1>6

\* A refused song is among the songs of the rows still to be stored.
LEMMA SongsOfAppend ==
  ASSUME NEW s \in Seq(Row), NEW r \in Row
  PROVE  SongsOf(Append(s, r)) = SongsOf(s) \cup SongsOf(<<r>>)
<1>1. <<r>> \in Seq(Row)
  OBVIOUS
<1>2. Append(s, r) = s \o <<r>>
  BY <1>1
<1> QED BY <1>1, <1>2, SongsOfConcat

\* A flush stores rows: the queue stays a queue of rows.
LEMMA BeforeWaitingType ==
  ASSUME NEW new \in Seq(Row), rows \in Seq(Row)
  PROVE  BeforeWaiting(new) \subseteq Seq(Row)
<1>1. new \o rows \in Seq(Row)
  OBVIOUS
<1>2. ASSUME rows # <<>> PROVE <<Head(rows)>> \o new \o Tail(rows) \in Seq(Row)
  <2>1. Head(rows) \in Row /\ Tail(rows) \in Seq(Row)
    BY <1>2
  <2>2. <<Head(rows)>> \in Seq(Row)
    BY <2>1
  <2> QED BY <2>1, <2>2
<1> QED BY <1>1, <1>2 DEF BeforeWaiting

-----------------------------------------------------------------------------
\* The initial states have the types.
LEMMA InitType == Init => TypeInv
<1> SUFFICES ASSUME Init PROVE TypeInv
  OBVIOUS
<1>1. mode.songs \subseteq Media
  BY ModeType DEF Init
<1>2. TypeOK
  <2>1. run.last \in Media \cup {Other, NoSong} /\ run.dirty \cup run.known \subseteq Media
    BY DEF Init, Idle
  <2>2. seen \in [Media -> 0 .. MaxTime] /\ now \in 1 .. MaxTime /\ until \in 1 .. MaxTime + 1
    BY TimeAssumption DEF Init
  <2>3. queued \in [mode.songs -> BOOLEAN]
    <3>1. PICK done \in 0 .. Cardinality(mode.songs) :
            queued = [m \in mode.songs |-> done < weight[m]]
      BY DEF Init
    <3>2. \A m \in mode.songs : (done < weight[m]) \in BOOLEAN
      OBVIOUS
    <3> QED BY <3>1, <3>2
  <2> QED BY <2>1, <2>2, <2>3 DEF Init, TypeOK
<1>3. run \in RunType /\ run.pc # "store"
  BY DEF Init, Idle, RunType, Pc, Song
<1> QED BY <1>2, <1>3 DEF TypeInv

\* What a run holds before its first step.
LEMMA IdleType == Idle \in RunType /\ Idle.pc = "idle" /\ Idle.dirty = {}
BY DEF Idle, RunType, Pc, Song

\* The history a run reads.
LEMMA HistoryType ==
  ASSUME TypeOK, NEW exp
  PROVE  History(exp) \in SUBSET (Media \X Nat)
<1>1. \A i \in DOMAIN rows : rows[i].exp \in Nat
  <2>1. rows \in Seq(Row)
    BY DEF TypeOK
  <2>2. \A i \in DOMAIN rows : rows[i] \in Row
    BY <2>1
  <2> QED BY <2>2 DEF Row
<1>2. \A m \in Media : seen[m] \in Nat
  BY TimeAssumption DEF TypeOK
<1> QED BY <1>1, <1>2 DEF History

\* Giving the rows their times leaves a queue of rows with the same songs.
LEMMA RetimedType ==
  ASSUME TypeOK
  PROVE  Retimed \in Seq(Row)
<1> DEFINE t == Later(now, until)
<1>1. t \in Nat
  BY TimeAssumption DEF TypeOK, Later
<1>2. rows \in Seq(Row) /\ DOMAIN rows = 1 .. Len(rows) /\ Len(rows) \in Nat
  BY DEF TypeOK
<1>3. \A i \in DOMAIN rows : [rows[i] EXCEPT !.exp = t + i - 1] \in Row
  <2> TAKE i \in DOMAIN rows
  <2>1. rows[i] \in Row /\ t + i - 1 \in Nat
    BY <1>1, <1>2
  <2> QED BY <2>1 DEF Row
<1>4. Retimed = [i \in 1 .. Len(rows) |-> [rows[i] EXCEPT !.exp = t + i - 1]]
  BY <1>2 DEF Retimed
<1> HIDE DEF t
<1> QED BY <1>2, <1>3, <1>4

-----------------------------------------------------------------------------
\* The steps of the builder keep the types.
LEMMA StartType == TypeInv /\ Start => TypeInv'
<1> SUFFICES ASSUME TypeInv, Start PROVE TypeInv'
  OBVIOUS
<1>1. rows' \in Seq(Row)
  BY RetimedType DEF Start, TypeInv
<1>2. run' \in RunType /\ run'.pc # "store"
  <2>1. CASE Len(rows) >= QueueLength
    BY <2>1, IdleType DEF Start
  <2>2. CASE ~ (Len(rows) >= QueueLength)
    <3>1. rows \in Seq(Row) /\ Len(rows) \in Nat
      BY DEF TypeInv, TypeOK
    <3>2. Later(now, until) + Len(rows) \in Nat
      BY <3>1, TimeAssumption DEF TypeInv, TypeOK, Later
    <3>3. (IF rows = <<>> THEN NoSong ELSE Last(rows).song) \in Song
      <4>1. CASE rows = <<>>
        BY <4>1 DEF Song
      <4>2. CASE rows # <<>>
        <5>1. rows[Len(rows)] \in Row
          BY <3>1, <4>2
        <5> QED BY <4>2, <5>1 DEF Last, Row, Song
      <4> QED BY <4>1, <4>2
    <3>4. playedAt \in Nat /\ resetAt \in Nat
      BY DEF TypeInv, TypeOK
    <3> QED BY <2>2, <3>1, <3>2, <3>3, <3>4, IdleType DEF Start, RunType, Pc
  <2> QED BY <2>1, <2>2
<1>3. run'.last \in Song /\ run'.dirty \cup run'.known \subseteq Media
  BY <1>2 DEF RunType
<1> QED BY <1>1, <1>2, <1>3 DEF TypeInv, TypeOK, Start, listVars, Song

LEMMA ConsiderType == TypeInv /\ Consider => TypeInv'
<1> SUFFICES ASSUME TypeInv, Consider PROVE TypeInv'
  OBVIOUS
<1> DEFINE r == [run EXCEPT !.history = History(run.exp), !.again = FALSE]
<1>1. r \in RunType
  BY HistoryType DEF TypeInv, RunType
<1>2. run' \in RunType /\ (run'.pc = "store" => run'.song = Other)
  <2>1. CASE run' = PassOn(r)
    BY <1>1, <2>1, PassOnType
  <2>2. CASE run' = [r EXCEPT !.pc = "pick"]
    BY <1>1, <2>2 DEF RunType, Pc
  <2>3. CASE run' = [r EXCEPT !.pc = "reset to loop", !.at = ResetTime(r)]
    <3>1. ResetTime(r) \in Nat
      BY TimeAssumption DEF ResetTime, Present
    <3> QED BY <1>1, <2>3, <3>1 DEF RunType, Pc
  <2>4. CASE run' = LoopOrPass(r, IsQueueEmpty(queued))
    BY <1>1, <2>4, LoopOrPassType
  <2> QED BY <2>1, <2>2, <2>3, <2>4 DEF Consider
<1>3. run'.last \in Song /\ run'.dirty \cup run'.known \subseteq Media
  BY <1>2 DEF RunType
<1> QED BY <1>2, <1>3 DEF TypeInv, TypeOK, Consider, listVars, Song

\* A reset queues every song and gives weights.
LEMMA ResetSongsType ==
  ASSUME TypeOK, ResetSongs, mode' = mode
  PROVE  queued' \in [mode'.songs -> BOOLEAN] /\ weight' \in Weights(mode'.songs)
<1>1. CASE mode.shuffle
  BY <1>1 DEF ResetSongs
<1>2. CASE ~ mode.shuffle
  BY <1>2 DEF ResetSongs, TypeOK
<1> QED BY <1>1, <1>2

LEMMA ResetType == TypeInv /\ Reset => TypeInv'
<1> SUFFICES ASSUME TypeInv, Reset PROVE TypeInv'
  OBVIOUS
<1>1. queued' \in [mode'.songs -> BOOLEAN] /\ weight' \in Weights(mode'.songs)
  BY ResetSongsType DEF TypeInv, Reset
<1>2. run' \in RunType /\ run'.pc # "store"
  BY DEF TypeInv, Reset, RunType, Pc
<1>3. run'.last \in Song /\ run'.dirty \cup run'.known \subseteq Media
  BY <1>2 DEF RunType
<1> QED BY <1>1, <1>2, <1>3 DEF TypeInv, TypeOK, Reset, Song

\* A flush stores rows and takes songs out of the rotation.
LEMMA FlushType ==
  ASSUME TypeInv, NEW new \in Seq(Row), Flush(new), mode' = mode
  PROVE  /\ rows' \in Seq(Row)
         /\ queued' \in [mode'.songs -> BOOLEAN]
         /\ playedAt' \in Nat
<1>1. PICK before \in BeforeWaiting(run.refused) : rows' = before \o new
  BY DEF Flush
<1>2. run.refused \in Seq(Row) /\ rows \in Seq(Row) /\ run.playedAt \in Nat
  BY DEF TypeInv, TypeOK, RunType
<1>3. before \in Seq(Row)
  BY <1>2, BeforeWaitingType
<1>4. rows' \in Seq(Row)
  BY <1>1, <1>3
<1>5. queued' = [m \in mode.songs |-> queued[m] /\ m \notin run.dirty] /\ playedAt' = run.playedAt
  BY DEF Flush
<1>6. queued' \in [mode'.songs -> BOOLEAN]
  BY <1>5 DEF TypeInv, TypeOK
<1> QED BY <1>2, <1>4, <1>5, <1>6

\* What the run holds after it.
LEMMA FlushedType ==
  ASSUME TypeInv
  PROVE  Flushed \in RunType /\ Flushed.pc = run.pc /\ Flushed.dirty = {}
<1>1. run \in RunType
  BY DEF TypeInv
<1>2. run.known \cup run.dirty \in SUBSET Media
  BY <1>1 DEF RunType
<1>3. <<>> \in Seq(Row)
  OBVIOUS
<1> QED BY <1>1, <1>2, <1>3 DEF Flushed, RunType

LEMMA ResetFlushType == TypeInv /\ ResetFlush => TypeInv'
<1> SUFFICES ASSUME TypeInv, ResetFlush PROVE TypeInv'
  OBVIOUS
<1>1. <<>> \in Seq(Row)
  OBVIOUS
<1>2. rows' \in Seq(Row) /\ queued' \in [mode'.songs -> BOOLEAN] /\ playedAt' \in Nat
  BY <1>1, FlushType DEF ResetFlush
<1>3. resetAt' \in Nat
  <2>1. now \in Nat /\ run.at \in Nat
    BY DEF TypeInv, TypeOK, RunType
  <2> QED BY <2>1 DEF ResetFlush
<1> DEFINE r == [Flushed EXCEPT !.resetAt = resetAt']
<1>4. r \in RunType
  BY <1>3, FlushedType DEF RunType
<1>5. run' \in RunType /\ (run'.pc = "store" => run'.song = Other)
  <2>1. CASE run.pc = "flush to loop"
    <3>1. run' = LoopOrPass(r, FALSE)
      BY <2>1 DEF ResetFlush
    <3> QED BY <1>4, <3>1, LoopOrPassType
  <2>2. CASE run.pc # "flush to loop"
    <3>1. run' = [r EXCEPT !.pc = "choose"]
      BY <2>2 DEF ResetFlush
    <3> QED BY <1>4, <3>1 DEF RunType, Pc
  <2> QED BY <2>1, <2>2
<1>6. run'.last \in Song /\ run'.dirty \cup run'.known \subseteq Media
  BY <1>5 DEF RunType
<1> QED BY <1>2, <1>3, <1>5, <1>6 DEF TypeInv, TypeOK, ResetFlush, Song

LEMMA PickAfterResetType == TypeInv /\ PickAfterReset => TypeInv'
<1> SUFFICES ASSUME TypeInv, PickAfterReset PROVE TypeInv'
  OBVIOUS
<1>1. run' \in RunType /\ run'.pc # "store"
  BY DEF TypeInv, PickAfterReset, RunType, Pc, Present
<1>2. run'.last \in Song /\ run'.dirty \cup run'.known \subseteq Media
  BY <1>1 DEF RunType
<1> QED BY <1>1, <1>2 DEF TypeInv, TypeOK, PickAfterReset, listVars, Song

\* A song that is chosen is marked as played, and its row is among the rows to be
\* stored, be it refused or not.
LEMMA ChosenType ==
  ASSUME TypeInv, NEW m \in mode.songs
  PROVE  /\ Chosen(m) \in RunType
         /\ Chosen(m).pc = "store" => Chosen(m).song \in Media \cup {Other}
         /\ Chosen(m).dirty \subseteq run.dirty \cup {m}
         /\ \/ Chosen(m).pc = "store" /\ Chosen(m).song = m /\ Chosen(m).refused = run.refused
            \/ SongsOf(Chosen(m).refused) = SongsOf(run.refused) \cup {m}
<1>1. m \in Media
  BY ModeType DEF TypeInv, TypeOK
<1> DEFINE dirty == IF queued[m] /\ m \notin run.known THEN run.dirty \cup {m} ELSE run.dirty
           r == [run EXCEPT !.playedAt = run.exp, !.dirty = dirty]
           row == [song |-> m, exp |-> now]
<1>2. run \in RunType /\ dirty \in SUBSET Media /\ dirty \subseteq run.dirty \cup {m}
  BY <1>1 DEF TypeInv, RunType
<1>3. r \in RunType /\ r.dirty = dirty /\ r.refused = run.refused
  BY <1>2 DEF RunType
<1>4. r = [run EXCEPT !.playedAt = run.exp,
                      !.dirty = IF queued[m] /\ m \notin run.known THEN @ \cup {m} ELSE @]
  BY <1>2 DEF RunType
<1> HIDE DEF dirty, r
<1>5. CASE m = run.last
  <2>1. row \in Row
    BY <1>1 DEF TypeInv, TypeOK, Row
  <2>2. run.refused \in Seq(Row) /\ Append(run.refused, row) \in Seq(Row)
    BY <1>2, <2>1 DEF RunType
  <2> DEFINE q == [r EXCEPT !.refused = Append(run.refused, row)]
  <2>3. q \in RunType /\ q.dirty = dirty /\ q.refused = Append(run.refused, row)
    <3> HIDE DEF row
    <3> QED BY <1>3, <2>2 DEF RunType
  <2>4. SongsOf(q.refused) = SongsOf(run.refused) \cup {m}
    <3>1. SongsOf(<<row>>) = {m}
      BY <1>1 DEF SongsOf
    <3> QED BY <2>1, <2>2, <2>3, <3>1, SongsOfAppend
  <2>5. q = [r EXCEPT !.refused = Append(@, row)]
    BY <1>3
  <2> HIDE DEF q
  <2>6. Chosen(m) = TryAgain(q)
    BY <1>4, <1>5, <2>5 DEF Chosen
  <2> QED BY <1>2, <2>3, <2>4, <2>6, TryAgainType
<1>6. CASE m # run.last
  <2>1. Chosen(m) = [r EXCEPT !.pc = "store", !.song = m]
    BY <1>4, <1>6 DEF Chosen
  <2> QED BY <1>1, <1>2, <1>3, <2>1 DEF RunType, Pc, Song
<1> QED BY <1>5, <1>6

LEMMA ChooseType == TypeInv /\ Choose => TypeInv'
<1> SUFFICES ASSUME TypeInv, Choose PROVE TypeInv'
  OBVIOUS
<1>1. run' \in RunType /\ (run'.pc = "store" => run'.song \in Media \cup {Other})
  <2>1. CASE NextTracks = {}
    BY <2>1, TryAgainType DEF Choose, TypeInv
  <2>2. CASE NextTracks # {}
    <3>1. PICK m \in NextTracks : run' = Chosen(m)
      BY <2>2 DEF Choose
    <3> QED BY <3>1, NextTracksType, ChosenType DEF TypeInv
  <2> QED BY <2>1, <2>2
<1>2. run'.last \in Song /\ run'.dirty \cup run'.known \subseteq Media
  BY <1>1 DEF RunType
<1> QED BY <1>1, <1>2 DEF TypeInv, TypeOK, Choose, listVars, Song

LEMMA StoreType == TypeInv /\ Store => TypeInv'
<1> SUFFICES ASSUME TypeInv, Store PROVE TypeInv'
  OBVIOUS
<1>1. <<[song |-> run.song, exp |-> run.exp]>> \in Seq(Row)
  <2>1. [song |-> run.song, exp |-> run.exp] \in Row
    BY DEF TypeInv, RunType, Store, Row
  <2> QED BY <2>1
<1>2. rows' \in Seq(Row) /\ queued' \in [mode'.songs -> BOOLEAN] /\ playedAt' \in Nat
  BY <1>1, FlushType DEF Store
<1>3. run' \in RunType /\ run'.pc # "store"
  <2>1. CASE run.len + 1 >= QueueLength
    BY <2>1, IdleType DEF Store
  <2>2. CASE ~ (run.len + 1 >= QueueLength)
    <3> DEFINE f == Flushed
    <3>1. f \in RunType /\ run.song \in Song
      BY FlushedType DEF TypeInv, RunType
    <3>2. run' = [f EXCEPT !.pc = "consider", !.exp = @ + 1, !.len = @ + 1,
                           !.last = run.song]
      BY <2>2 DEF Store
    <3> HIDE DEF f
    <3>3. f.exp + 1 \in Nat /\ f.len + 1 \in Nat
      BY <3>1 DEF RunType
    <3>4. "consider" \in Pc /\ "consider" # "store"
      BY DEF Pc
    <3> QED BY <3>1, <3>2, <3>3, <3>4 DEF RunType
  <2> QED BY <2>1, <2>2
<1>4. run'.last \in Song /\ run'.dirty \cup run'.known \subseteq Media
  BY <1>3 DEF RunType
<1> QED BY <1>2, <1>3, <1>4 DEF TypeInv, TypeOK, Store, Song

\* So do the crash, the clock and the player, and the operators.
LEMMA CrashType == TypeInv /\ Crash => TypeInv'
<1> SUFFICES ASSUME TypeInv, Crash PROVE TypeInv'
  OBVIOUS
<1>1. run' \in RunType /\ run'.pc # "store"
  BY IdleType DEF Crash
<1>2. run'.last \in Song /\ run'.dirty \cup run'.known \subseteq Media
  BY <1>1 DEF RunType
<1> QED BY <1>1, <1>2 DEF TypeInv, TypeOK, Crash, listVars, Song

LEMMA TickType == TypeInv /\ Tick => TypeInv'
<1> SUFFICES ASSUME TypeInv, Tick PROVE TypeInv'
  OBVIOUS
<1>1. now' \in 1 .. MaxTime
  <2>1. MaxTime \in Nat /\ now \in 1 .. MaxTime
    BY TimeAssumption DEF TypeInv, TypeOK
  <2>2. now < MaxTime /\ now' = now + 1
    BY DEF Tick
  <2> QED BY <2>1, <2>2
<1> QED BY <1>1 DEF TypeInv, TypeOK, Tick, listVars

LEMMA RowStartsType == TypeInv /\ RowStarts => TypeInv'
<1> SUFFICES ASSUME TypeInv, RowStarts PROVE TypeInv'
  OBVIOUS
<1>1. rows' \in Seq(Row)
  BY DEF RowStarts, TypeInv, TypeOK
<1>2. until' \in 1 .. MaxTime + 1
  BY TimeAssumption DEF RowStarts, TypeInv, TypeOK
<1>3. seen' \in [Media -> 0 .. MaxTime]
  <2>1. seen \in [Media -> 0 .. MaxTime] /\ now \in 0 .. MaxTime
    BY TimeAssumption DEF TypeInv, TypeOK
  <2>2. CASE Head(rows).song \in Media
    BY <2>1, <2>2 DEF RowStarts
  <2>3. CASE Head(rows).song \notin Media
    BY <2>1, <2>3 DEF RowStarts
  <2> QED BY <2>2, <2>3
<1> QED BY <1>1, <1>2, <1>3 DEF TypeInv, TypeOK, RowStarts, listVars

LEMMA OpSkipType == TypeInv /\ OpSkip => TypeInv'
<1> SUFFICES ASSUME TypeInv, OpSkip PROVE TypeInv'
  OBVIOUS
<1>1. until' \in 1 .. MaxTime + 1
  BY TimeAssumption DEF OpSkip, TypeInv, TypeOK
<1> QED BY <1>1 DEF TypeInv, TypeOK, OpSkip, listVars

LEMMA OpDeleteType == TypeInv /\ OpDelete => TypeInv'
<1> SUFFICES ASSUME TypeInv, OpDelete PROVE TypeInv'
  OBVIOUS
<1>1. PICK i \in DOMAIN rows : rows' = RemoveAt(rows, i)
  BY DEF OpDelete
<1>2. rows \in Seq(Row)
  BY DEF TypeInv, TypeOK
<1>3. SubSeq(rows, 1, i - 1) \in Seq(Row) /\ SubSeq(rows, i + 1, Len(rows)) \in Seq(Row)
  BY <1>2
<1>4. rows' \in Seq(Row)
  BY <1>1, <1>3 DEF RemoveAt
<1> QED BY <1>4 DEF TypeInv, TypeOK, OpDelete, listVars

LEMMA OpResetType == TypeInv /\ OpReset => TypeInv'
<1> SUFFICES ASSUME TypeInv, OpReset PROVE TypeInv'
  OBVIOUS
<1>1. queued' \in [mode'.songs -> BOOLEAN] /\ weight' \in Weights(mode'.songs)
  BY ResetSongsType DEF TypeInv, OpReset
<1>2. resetAt' \in Nat
  <2>1. MaxTime \in Nat /\ now \in 1 .. MaxTime
    BY TimeAssumption DEF TypeInv, TypeOK
  <2>2. resetAt' = now
    BY DEF OpReset
  <2> QED BY <2>1, <2>2
<1> QED BY <1>1, <1>2 DEF TypeInv, TypeOK, OpReset

\* Every step keeps the types.
LEMMA StepType == TypeInv /\ [Next]_vars => TypeInv'
<1> SUFFICES ASSUME TypeInv, [Next]_vars PROVE TypeInv'
  OBVIOUS
<1>1. CASE UNCHANGED vars
  BY <1>1 DEF TypeInv, TypeOK, vars
<1>2. CASE Next
  BY <1>2, StartType, ConsiderType, ResetType, ResetFlushType, PickAfterResetType,
     ChooseType, StoreType, CrashType, TickType, RowStartsType, OpSkipType,
     OpDeleteType, OpResetType DEF Next
<1> QED BY <1>1, <1>2

\* The type invariant holds: the queue holds rows of songs, never of no song, and
\* the records of a run are the playlist's.
THEOREM TypeCorrect == Spec => []TypeOK
<1>1. TypeInv => TypeOK
  BY DEF TypeInv
<1> QED BY InitType, StepType, <1>1, PTL DEF Spec

-----------------------------------------------------------------------------
\* The builder's steps keep every change to be written beside its row.
LEMMA DirtyStep == TypeInv /\ DirtyInv /\ [Next]_vars => DirtyInv'
<1> SUFFICES ASSUME TypeInv, DirtyInv, [Next]_vars PROVE DirtyInv'
  OBVIOUS
<1>0. run \in RunType
  BY DEF TypeInv
<1>1. ASSUME run' = run PROVE DirtyInv'
  BY <1>1 DEF DirtyInv
<1>2. ASSUME run'.dirty = {} PROVE DirtyInv'
  BY <1>2 DEF DirtyInv
\* Outside of "store" the change's row is a refused one.
<1>3. ASSUME run.pc # "store", run'.dirty = run.dirty, run'.refused = run.refused
      PROVE  DirtyInv'
  BY <1>3 DEF DirtyInv
<1>4. CASE Start
  <2>1. CASE Len(rows) >= QueueLength
    BY <1>2, <1>4, <2>1, IdleType DEF Start
  <2>2. CASE ~ (Len(rows) >= QueueLength)
    <3>1. run'.dirty = {}
      BY <1>4, <2>2 DEF Start, Idle
    <3> QED BY <1>2, <3>1
  <2> QED BY <2>1, <2>2
<1>5. CASE Consider
  <2> DEFINE r == [run EXCEPT !.history = History(run.exp), !.again = FALSE]
  <2>1. r \in RunType /\ r.dirty = run.dirty /\ r.refused = run.refused
    BY <1>0, HistoryType DEF TypeInv, RunType
  <2>2. run'.dirty = r.dirty /\ run'.refused = r.refused
    <3>1. CASE run' = PassOn(r)
      BY <2>1, <3>1, PassOnType
    <3>2. CASE run' = [r EXCEPT !.pc = "pick"]
      BY <2>1, <3>2 DEF RunType
    <3>3. CASE run' = [r EXCEPT !.pc = "reset to loop", !.at = ResetTime(r)]
      BY <2>1, <3>3 DEF RunType
    <3>4. CASE run' = LoopOrPass(r, IsQueueEmpty(queued))
      BY <2>1, <3>4, LoopOrPassType
    <3> QED BY <1>5, <3>1, <3>2, <3>3, <3>4 DEF Consider
  <2> QED BY <1>3, <1>5, <2>1, <2>2 DEF Consider
<1>6. CASE Reset
  BY <1>0, <1>3, <1>6 DEF Reset, RunType
<1>7. CASE ResetFlush
  <2> DEFINE r == [Flushed EXCEPT !.resetAt = resetAt']
  <2>1. resetAt' \in Nat
    BY <1>7, ResetFlushType DEF TypeInv, TypeOK
  <2>2. r \in RunType /\ r.dirty = {}
    BY <2>1, FlushedType DEF RunType
  <2>3. CASE run.pc = "flush to loop"
    <3>1. run' = LoopOrPass(r, FALSE)
      BY <1>7, <2>3 DEF ResetFlush
    <3> QED BY <1>2, <2>2, <3>1, LoopOrPassType
  <2>4. CASE run.pc # "flush to loop"
    <3>1. run' = [r EXCEPT !.pc = "choose"]
      BY <1>7, <2>4 DEF ResetFlush
    <3> QED BY <1>2, <2>2, <3>1 DEF RunType
  <2> QED BY <2>3, <2>4
<1>8. CASE PickAfterReset
  BY <1>0, <1>3, <1>8 DEF PickAfterReset, RunType
<1>9. CASE Choose
  <2>1. run.pc # "store"
    BY <1>9 DEF Choose
  <2>2. CASE NextTracks = {}
    <3>1. run' = TryAgain(run)
      BY <1>9, <2>2 DEF Choose
    <3> QED BY <1>0, <1>3, <2>1, <3>1, TryAgainType
  <2>3. CASE NextTracks # {}
    <3>1. PICK m \in NextTracks : run' = Chosen(m)
      BY <1>9, <2>3 DEF Choose
    <3>2. m \in mode.songs
      BY <3>1, NextTracksType DEF TypeInv
    <3> QED BY <2>1, <3>1, <3>2, ChosenType DEF DirtyInv
  <2> QED BY <2>2, <2>3
<1>10. CASE Store
  <2>1. CASE run.len + 1 >= QueueLength
    BY <1>2, <1>10, <2>1, IdleType DEF Store
  <2>2. CASE ~ (run.len + 1 >= QueueLength)
    <3> DEFINE f == Flushed
    <3>1. f \in RunType /\ f.dirty = {}
      BY FlushedType
    <3>2. run' = [f EXCEPT !.pc = "consider", !.exp = @ + 1, !.len = @ + 1,
                           !.last = run.song]
      BY <1>10, <2>2 DEF Store
    <3> HIDE DEF f
    <3> QED BY <1>2, <3>1, <3>2 DEF RunType
  <2> QED BY <2>1, <2>2
<1>11. CASE Crash
  BY <1>2, <1>11, IdleType DEF Crash
<1>12. CASE Tick \/ RowStarts \/ OpSkip \/ OpDelete \/ OpReset
  BY <1>1, <1>12 DEF Tick, RowStarts, OpSkip, OpDelete, OpReset
<1>13. CASE UNCHANGED vars
  BY <1>1, <1>13 DEF vars
<1> QED BY <1>4, <1>5, <1>6, <1>7, <1>8, <1>9, <1>10, <1>11, <1>12, <1>13 DEF Next

\* A flush serves the songs it takes out of the rotation.
LEMMA FlushServes ==
  ASSUME TypeInv, DirtyInv, NoneIsLost, NEW new \in Seq(Row), Flush(new), mode' = mode,
         run.pc = "store" => run.song \in SongsOf(new) \cup {Other}
  PROVE  NoneIsLost'
<1> SUFFICES ASSUME NEW m \in mode.songs PROVE queued'[m] \/ m \in served'
  BY DEF NoneIsLost
<1>1. run.refused \in Seq(Row)
  BY DEF TypeInv, RunType
<1>2. served' = served \cup SongsOf(run.refused) \cup SongsOf(new)
  <2>1. served' = served \cup SongsOf(run.refused \o new)
    BY DEF Flush
  <2> QED BY <1>1, <2>1, SongsOfConcat
<1>3. queued'[m] = (queued[m] /\ m \notin run.dirty)
  BY DEF Flush
<1>4. ASSUME m \in run.dirty PROVE m \in served'
  <2>1. m \in Media
    BY ModeType DEF TypeInv, TypeOK
  <2> QED BY <1>2, <1>4, <2>1, OtherAssumption DEF DirtyInv
<1> QED BY <1>2, <1>3, <1>4 DEF NoneIsLost

\* Every other step leaves the marks alone or queues every song.
LEMMA ServedStep == TypeInv /\ DirtyInv /\ NoneIsLost /\ [Next]_vars => NoneIsLost'
<1> SUFFICES ASSUME TypeInv, DirtyInv, NoneIsLost, [Next]_vars PROVE NoneIsLost'
  OBVIOUS
<1>1. CASE ResetFlush
  <2>1. <<>> \in Seq(Row)
    OBVIOUS
  <2> QED BY <1>1, <2>1, FlushServes DEF ResetFlush
<1>2. CASE Store
  <2> DEFINE row == [song |-> run.song, exp |-> run.exp]
  <2>1. row \in Row
    BY <1>2 DEF TypeInv, RunType, Store, Row
  <2>2. <<row>> \in Seq(Row) /\ DOMAIN <<row>> = {1} /\ <<row>>[1] = row
    BY <2>1
  <2>3. run.song \in Media => run.song \in SongsOf(<<row>>)
    BY <2>2 DEF SongsOf
  <2> QED BY <1>2, <2>2, <2>3, FlushServes DEF Store, TypeInv
<1>3. CASE Reset \/ OpReset
  BY <1>3 DEF Reset, OpReset, ResetSongs, NoneIsLost
<1>4. CASE Start \/ Consider \/ PickAfterReset \/ Choose \/ Crash
  BY <1>4 DEF Start, Consider, PickAfterReset, Choose, Crash, listVars, NoneIsLost
<1>5. CASE Tick \/ RowStarts \/ OpSkip \/ OpDelete
  BY <1>5 DEF Tick, RowStarts, OpSkip, OpDelete, listVars, NoneIsLost
<1>6. CASE UNCHANGED vars
  BY <1>6 DEF vars, NoneIsLost
<1> QED BY <1>1, <1>2, <1>3, <1>4, <1>5, <1>6 DEF Next

\* Whatever is refused, reset or killed, no song leaves the rotation without a row
\* in the queue.
THEOREM NoneIsLostCorrect == Spec => []NoneIsLost
<1>1. Init => DirtyInv /\ NoneIsLost
  BY DEF Init, Idle, DirtyInv, NoneIsLost
<1> QED BY <1>1, InitType, StepType, DirtyStep, ServedStep, PTL DEF Spec

-----------------------------------------------------------------------------
\* The weights number the songs of the playlist.
LEMMA WeightLemma ==
  ASSUME TypeOK
  PROVE  LET n == Cardinality(mode.songs)
         IN  /\ n \in Nat /\ mode.songs # {}
             /\ weight \in [mode.songs -> 1 .. n]
             /\ \A m, k \in mode.songs : weight[m] = weight[k] => m = k
             /\ \A i \in 1 .. n : \E m \in mode.songs : weight[m] = i
<1>1. mode.songs \subseteq Media /\ mode.songs # {}
  BY ModesAssumption DEF TypeOK
<1>2. Cardinality(mode.songs) \in Nat
  BY <1>1, MediaAssumption, FS_Subset, FS_CardinalityType
<1>3. weight \in Bijection(mode.songs, 1 .. Cardinality(mode.songs))
  BY DEF TypeOK, Weights
<1> QED BY <1>1, <1>2, <1>3 DEF Bijection, Injection, Surjection, IsInjective

\* The next song follows the latest one, and once it is out of the rotation the
\* songs still queued are the ones after it.
LEMMA NextLemma ==
  ASSUME TypeOK, latest \in mode.songs \cup {NoSong}, SegmentInv, NEW m, IsNext(m)
  PROVE  /\ m \in mode.songs /\ queued[m]
         /\ latest # NoSong => Follows(latest, m)
         /\ \A k \in mode.songs : (queued[k] /\ k # m) <=> weight[m] < weight[k]
         /\ \A k : IsNext(k) => k = m
<1> DEFINE n == Cardinality(mode.songs)
<1>1. /\ n \in Nat /\ weight \in [mode.songs -> 1 .. n]
      /\ \A k, l \in mode.songs : weight[k] = weight[l] => k = l
      /\ \A i \in 1 .. n : \E k \in mode.songs : weight[k] = i
  BY WeightLemma
<1>2. DOMAIN queued = mode.songs
  BY DEF TypeOK
<1>3. \A k : IsNext(k) <=> /\ k \in mode.songs /\ queued[k]
                           /\ \A l \in mode.songs : queued[l] => weight[k] <= weight[l]
  BY <1>2 DEF IsNext, FirstOf, GetQueue
<1>4. m \in mode.songs /\ queued[m] /\ \A l \in mode.songs : queued[l] => weight[m] <= weight[l]
  BY <1>3
<1> HIDE DEF n
<1>5. \A k \in mode.songs : weight[k] \in 1 .. n
  BY <1>1
<1>6. \A k : IsNext(k) => k = m
  <2> SUFFICES ASSUME NEW k, IsNext(k) PROVE k = m
    OBVIOUS
  <2>1. k \in mode.songs /\ weight[k] <= weight[m] /\ weight[m] <= weight[k]
    BY <1>3, <1>4
  <2>2. weight[k] = weight[m]
    BY <1>4, <1>5, <2>1
  <2> QED BY <1>1, <1>4, <2>1, <2>2
<1>7. ASSUME latest # NoSong PROVE Follows(latest, m)
  <2>1. latest \in mode.songs
    BY <1>7
  <2>2. CASE \A k \in mode.songs : queued[k] <=> weight[latest] < weight[k]
    <3>1. weight[latest] < weight[m] /\ weight[latest] + 1 \in 1 .. n
      BY <1>4, <1>5, <2>1, <2>2, <1>1
    <3>2. PICK k \in mode.songs : weight[k] = weight[latest] + 1
      BY <1>1, <3>1
    <3>3. weight[latest] < weight[k]
      BY <1>5, <2>1, <3>2
    <3>4. weight[m] <= weight[latest] + 1
      BY <1>4, <2>2, <3>2, <3>3
    <3>5. weight[m] = weight[latest] + 1 /\ weight[latest] # n
      BY <1>4, <1>5, <2>1, <3>1, <3>4, <1>1
    <3> QED BY <3>5 DEF Follows, n
  <2>3. CASE weight[latest] = n /\ \A k \in mode.songs : queued[k]
    <3>1. 1 \in 1 .. n
      BY <1>1, <1>5, <2>1
    <3>2. PICK k \in mode.songs : weight[k] = 1
      BY <1>1, <3>1
    <3>3. weight[m] = 1
      BY <1>4, <1>5, <2>3, <3>2
    <3> QED BY <2>3, <3>3 DEF Follows, n
  <2> QED BY <1>7, <2>2, <2>3 DEF SegmentInv, n
<1>8. ASSUME NEW k \in mode.songs
      PROVE  (queued[k] /\ k # m) <=> weight[m] < weight[k]
  <2>1. ASSUME queued[k], k # m PROVE weight[m] < weight[k]
    <3>1. weight[m] <= weight[k] /\ weight[m] # weight[k]
      BY <1>1, <1>4, <2>1
    <3> QED BY <1>4, <1>5, <3>1
  <2>2. ASSUME weight[m] < weight[k] PROVE queued[k] /\ k # m
    <3>1. k # m
      BY <1>4, <1>5, <2>2
    <3>2. CASE latest # NoSong /\ \A l \in mode.songs : queued[l] <=> weight[latest] < weight[l]
      <4>1. latest \in mode.songs /\ weight[latest] < weight[m]
        BY <1>4, <3>2
      <4>2. weight[latest] < weight[k]
        BY <1>4, <1>5, <2>2, <4>1
      <4> QED BY <3>1, <3>2, <4>2
    <3> QED BY <1>4, <2>2, <3>1, <3>2 DEF SegmentInv
  <2> QED BY <2>1, <2>2
<1> QED BY <1>4, <1>6, <1>7, <1>8

\* A run with fewer rows than the playlist has songs does not hold the record of
\* the next one.
LEMMA NotKnownLemma ==
  ASSUME TypeInv, Sequential, latest \in mode.songs \cup {NoSong}, SegmentInv,
         KnownOf(run), run.len < QueueLength, NEW m, IsNext(m)
  PROVE  m \notin run.known
<1> SUFFICES ASSUME m \in run.known PROVE FALSE
  OBVIOUS
<1> DEFINE n == Cardinality(mode.songs)
<1>1. /\ m \in mode.songs /\ latest # NoSong /\ latest \in mode.songs
      /\ StoredSince(m) < run.len
  BY DEF KnownOf
<1>2. Follows(latest, m)
  BY <1>1, NextLemma DEF TypeInv
<1>3. n \in Nat /\ weight[m] \in 1 .. n /\ weight[latest] \in 1 .. n
  BY <1>1, WeightLemma DEF TypeInv
<1>4. QueueLength \in Nat /\ QueueLength <= n /\ run.len \in Nat
  BY QueueLengthAssumption DEF Sequential, TypeInv, RunType
<1>5. weight[m] = IF weight[latest] = n THEN 1 ELSE weight[latest] + 1
  BY <1>2 DEF Follows
<1>6. weight[latest] - weight[m] + (IF weight[m] <= weight[latest] THEN 0 ELSE n) < run.len
  BY <1>1 DEF StoredSince
<1> HIDE DEF n
<1> QED BY <1>3, <1>4, <1>5, <1>6

-----------------------------------------------------------------------------
\* A playlist that is sequential was so before the step, with the same order.
LEMMA SequentialStep ==
  ASSUME [Next]_vars, Sequential'
  PROVE  Sequential /\ mode' = mode /\ weight' = weight
<1>1. mode' = mode /\ disturbed \subseteq disturbed'
  BY DEF Next, vars, Start, Consider, Reset, ResetFlush, PickAfterReset, Choose, Store,
         Crash, Tick, RowStarts, OpSkip, OpDelete, OpReset
<1>2. Sequential
  BY <1>1 DEF Sequential
<1>3. ~ OpReset
  BY DEF OpReset, Sequential
<1>4. weight' = weight
  BY <1>2, <1>3 DEF Sequential, ResetSongs, listVars, Next, vars, Start, Consider, Reset,
     ResetFlush, PickAfterReset, Choose, Store, Crash, Tick, RowStarts, OpSkip, OpDelete
<1> QED BY <1>1, <1>2, <1>4

\* What a run that begins or was killed holds.
LEMMA FreshRun ==
  ASSUME NEW r, r.dirty = {}, r.refused = <<>>, r.known = {},
         r.pc \in {"idle", "consider"}, r.pc = "consider" => r.len < QueueLength
  PROVE  OrderRun(r)
BY DEF OrderRun, KnownOf, PendingOf, Quiet

\* The flush of a run that has chosen nothing, with no row of the playlist's.
LEMMA QuietFlush ==
  ASSUME TypeInv, Quiet(run), NEW new \in Seq(Row), SongsOf(new) = {}, Flush(new)
  PROVE  queued' = queued /\ latest' = latest
<1>1. run.refused \o new = new
  BY DEF Quiet
<1>2. latest' = latest
  BY <1>1 DEF Flush, LatestStored, SongsOf
<1>3. queued' = queued
  BY DEF Flush, Quiet, TypeInv, TypeOK
<1> QED BY <1>2, <1>3

\* The flush of a run that has chosen the next song m: m is the latest one.
LEMMA SongFlush ==
  ASSUME TypeInv, NEW m \in mode.songs, PendingSong(run, m), run.pc = "store",
         NEW row, row = [song |-> run.song, exp |-> run.exp], Flush(<<row>>)
  PROVE  /\ latest' = m
         /\ \A k \in mode.songs : queued'[k] <=> queued[k] /\ k # m
<1>1. m \in Media
  BY ModeType DEF TypeInv, TypeOK
<1>2. run.refused \in Seq(Row) /\ row \in Row /\ row.song = run.song
  BY DEF TypeInv, RunType, Row
<1> DEFINE all == run.refused \o <<row>>
<1>3. /\ DOMAIN all = 1 .. Len(run.refused) + 1
      /\ \A i \in DOMAIN run.refused : all[i] = run.refused[i] /\ i \in DOMAIN all
      /\ all[Len(run.refused) + 1] = row
      /\ \A i \in DOMAIN all : i \in DOMAIN run.refused \/ i = Len(run.refused) + 1
  BY <1>2
<1>4. \A i \in DOMAIN all : all[i].song \in {m, Other}
  BY <1>2, <1>3 DEF PendingSong
<1>5. \E i \in DOMAIN all : all[i].song = m
  <2>1. CASE run.refused = <<>>
    BY <1>2, <1>3, <2>1 DEF PendingSong
  <2>2. CASE run.refused # <<>>
    <3>1. 1 \in DOMAIN run.refused
      BY <1>2, <2>2
    <3> QED BY <1>3, <3>1 DEF PendingSong
  <2> QED BY <2>1, <2>2
<1>6. LatestStored(all)
  BY DEF Flush
<1> HIDE DEF all
<1>7. SongsOf(all) # {}
  BY <1>1, <1>5 DEF SongsOf
<1>8. latest' = m
  BY <1>4, <1>6, <1>7, OtherAssumption DEF LatestStored
<1>9. \A k \in mode.songs : queued'[k] <=> queued[k] /\ k # m
  BY DEF Flush, PendingSong, TypeInv, TypeOK
<1> QED BY <1>8, <1>9

\* A step that gives the run more to hold, and nothing else.
LEMMA RunStep ==
  ASSUME TypeInv, OrderInv, Sequential, mode' = mode, weight' = weight, queued' = queued,
         latest' = latest, Sequential => OrderRun(run)'
  PROVE  OrderInv'
BY DEF OrderInv, SegmentInv, Sequential

\* A run that has chosen nothing goes on.
LEMMA QuietRun ==
  ASSUME TypeInv, Sequential, OrderRun(run), NEW r, r.known = run.known, r.len = run.len,
         Quiet(r), run.pc # "idle",
         r.pc \in {"pick", "choose", "store"} \/ (r.pc = "reset to pick" /\ IsQueueEmpty(queued)),
         r.pc = "store" => r.song = Other
  PROVE  OrderRun(r)
BY DEF OrderRun, KnownOf, PendingOf

\* In the states in which nothing can be pending nothing is.
LEMMA NothingPending ==
  ASSUME PendingOf(run), run.pc \notin {"pick", "store"} \/ IsQueueEmpty(queued), TypeInv
  PROVE  Quiet(run) /\ (run.pc = "store" => run.song = Other)
<1>1. \A m : IsNext(m) => queued[m] /\ m \in DOMAIN queued
  BY DEF IsNext, FirstOf, GetQueue
<1> QED BY <1>1 DEF PendingOf, PendingSong, IsQueueEmpty

\* What the builder decides on for a BuildQueue event.
LEMMA ConsiderOrder ==
  ASSUME TypeInv, OrderRun(run), Sequential, Consider
  PROVE  OrderRun(run')
<1> DEFINE r == [run EXCEPT !.history = History(run.exp), !.again = FALSE]
<1>1. Quiet(run) /\ run.pc = "consider"
  BY NothingPending DEF OrderRun, Consider
<1>2. /\ r \in RunType /\ r.known = run.known /\ r.len = run.len /\ r.dirty = run.dirty
      /\ r.refused = run.refused
  BY HistoryType DEF TypeInv, RunType
<1>3. \/ run' = PassOn(r)
      \/ run' = [r EXCEPT !.pc = "pick"]
  BY DEF Consider, Sequential
<1> HIDE DEF r
<1>4. /\ run'.known = run.known /\ run'.len = run.len /\ Quiet(run')
      /\ run'.pc \in {"pick", "store"} /\ (run'.pc = "store" => run'.song = Other)
  BY <1>1, <1>2, <1>3 DEF PassOn, RunType, Quiet
<1> QED BY <1>1, <1>4, QuietRun

\* After a choice that did not lead to a song: whatever is pending stays so.
LEMMA TryAgainOrder ==
  ASSUME NEW r \in RunType
  PROVE  LET q == TryAgain(r)
         IN  /\ q.known = r.known /\ q.len = r.len /\ q.dirty = r.dirty
             /\ q.refused = r.refused
             /\ q.pc \in {"pick", "store"} /\ (q.pc = "store" => q.song = Other)
BY DEF TryAgain, PassOn, RunType

\* The song that is chosen is the next one, also at the second attempt.
LEMMA ChooseOrder ==
  ASSUME TypeInv, OrderRun(run), Sequential, latest \in mode.songs \cup {NoSong}, SegmentInv,
         Choose
  PROVE  OrderRun(run')
<1>1. run \in RunType /\ run.pc \in {"choose", "pick"} /\ run.len < QueueLength
  BY DEF TypeInv, Choose, OrderRun
<1>2. \A m : m \in NextTracks <=> IsNext(m)
  BY DEF NextTracks, Sequential, IsNext
<1>3. CASE NextTracks = {}
  <2>1. run' = TryAgain(run)
    BY <1>3 DEF Choose
  <2>2. Quiet(run)
    BY <1>2, <1>3 DEF OrderRun, PendingOf
  <2> QED BY <1>1, <2>1, <2>2, TryAgainOrder, QuietRun DEF Quiet
<1>4. CASE NextTracks # {}
  <2>1. PICK m \in NextTracks : run' = Chosen(m)
    BY <1>4 DEF Choose
  <2>2. IsNext(m) /\ m \in mode.songs /\ queued[m] /\ \A k : IsNext(k) => k = m
    BY <1>2, NextLemma DEF TypeInv
  <2>3. m \notin run.known
    BY <1>1, <2>2, NotKnownLemma DEF OrderRun
  <2>4. /\ run.dirty \cup {m} = {m}
        /\ run.refused \in Seq(Row)
        /\ \A i \in DOMAIN run.refused : run.refused[i].song = m
    <3>1. CASE Quiet(run)
      BY <3>1 DEF Quiet
    <3>2. CASE PendingSong(run, m)
      BY <1>1, <3>2 DEF PendingSong, RunType
    <3> QED BY <2>2, <3>1, <3>2 DEF OrderRun, PendingOf
  <2>5. PICK r : r = [run EXCEPT !.playedAt = run.exp, !.dirty = {m}]
    OBVIOUS
  <2>6. m \in Media
    BY <2>2, ModeType DEF TypeInv, TypeOK
  <2>7. /\ r \in RunType /\ r.known = run.known /\ r.len = run.len /\ r.dirty = {m}
        /\ r.refused = run.refused
    BY <1>1, <2>5, <2>6 DEF RunType
  <2>8. r = [run EXCEPT !.playedAt = run.exp,
                        !.dirty = IF queued[m] /\ m \notin run.known THEN @ \cup {m} ELSE @]
    BY <1>1, <2>2, <2>3, <2>4, <2>5
  <2>9. /\ run'.known = run.known /\ run'.len = run.len /\ PendingSong(run', m)
    <3>1. CASE m = run.last
      <4>1. PICK row : row = [song |-> m, exp |-> now]
        OBVIOUS
      <4>2. row \in Row /\ row.song = m
        BY <2>6, <4>1 DEF Row, TypeInv, TypeOK
      <4>3. PICK s : s = Append(run.refused, row)
        OBVIOUS
      <4>4. s \in Seq(Row) /\ s # <<>> /\ \A i \in DOMAIN s : s[i].song = m
        BY <2>4, <4>2, <4>3
      <4>5. PICK q : q = [r EXCEPT !.refused = s]
        OBVIOUS
      <4>6. /\ q \in RunType /\ q.known = run.known /\ q.len = run.len /\ q.dirty = {m}
            /\ q.refused = s
        BY <2>7, <4>4, <4>5 DEF RunType
      <4>7. q = [r EXCEPT !.refused = Append(@, [song |-> m, exp |-> now])]
        BY <2>7, <4>1, <4>3, <4>5
      <4>8. run' = TryAgain(q)
        BY <2>1, <2>8, <3>1, <4>7 DEF Chosen
      <4> QED BY <4>4, <4>6, <4>8, TryAgainOrder DEF PendingSong
    <3>2. CASE m # run.last
      <4>1. run' = [r EXCEPT !.pc = "store", !.song = m]
        BY <2>1, <2>8, <3>2 DEF Chosen
      <4>2. /\ run'.pc = "store" /\ run'.song = m /\ run'.known = run.known
            /\ run'.len = run.len /\ run'.dirty = {m} /\ run'.refused = run.refused
        BY <2>7, <4>1 DEF RunType
      <4> QED BY <2>4, <4>2 DEF PendingSong
    <3> QED BY <3>1, <3>2
  <2> QED BY <1>1, <2>2, <2>9 DEF OrderRun, KnownOf, PendingOf, PendingSong
<1> QED BY <1>3, <1>4

\* A reset comes when no song is queued, after the last of the order.
LEMMA ResetOrder ==
  ASSUME TypeInv, OrderInv, Sequential, Reset, weight' = weight, Sequential'
  PROVE  OrderInv'
<1> DEFINE n == Cardinality(mode.songs)
<1>0. /\ latest \in mode.songs \cup {NoSong} /\ SegmentInv /\ OrderRun(run)
  BY DEF OrderInv
<1>1. run.pc = "reset to pick" /\ IsQueueEmpty(queued) /\ Quiet(run)
  BY <1>0, NothingPending DEF Reset, OrderRun
<1>2. \A m \in mode.songs : ~ queued[m]
  BY <1>1 DEF IsQueueEmpty, TypeInv, TypeOK
<1>3. latest = NoSong \/ weight[latest] = n
  <2>1. /\ n \in Nat /\ mode.songs # {} /\ weight \in [mode.songs -> 1 .. n]
        /\ \A i \in 1 .. n : \E k \in mode.songs : weight[k] = i
    BY WeightLemma DEF TypeInv
  <2>2. CASE latest # NoSong /\ \A m \in mode.songs : queued[m] <=> weight[latest] < weight[m]
    <3>1. latest \in mode.songs /\ weight[latest] \in 1 .. n
      BY <1>0, <2>1, <2>2
    <3> HIDE DEF n
    <3>2. PICK k \in mode.songs : weight[k] = n
      BY <2>1, <3>1
    <3>3. ~ (weight[latest] < n)
      BY <1>2, <2>2, <3>2
    <3> QED BY <2>1, <3>1, <3>3
  <2> QED BY <1>0, <1>2, <2>1, <2>2 DEF SegmentInv
<1>4. SegmentInv'
  BY <1>3 DEF Reset, ResetSongs, SegmentInv
<1>5. run' = [run EXCEPT !.pc = "flush to pick"]
  BY <1>1 DEF Reset
<1>6. /\ run'.pc = "flush to pick" /\ run'.known = run.known /\ run'.len = run.len
      /\ Quiet(run')
  BY <1>1, <1>5 DEF TypeInv, RunType, Quiet
<1>7. OrderRun(run)'
  BY <1>0, <1>1, <1>6 DEF OrderRun, KnownOf, PendingOf, StoredSince, Reset, Quiet
<1> QED BY <1>0, <1>4, <1>7 DEF OrderInv, Reset

\* The flush of a reset stores no row: a run that resets has chosen nothing.
LEMMA ResetFlushOrder ==
  ASSUME TypeInv, OrderInv, Sequential, ResetFlush, weight' = weight
  PROVE  OrderInv'
<1>0. OrderRun(run) /\ run \in RunType
  BY DEF OrderInv, TypeInv
<1>1. run.pc = "flush to pick" /\ Quiet(run)
  BY <1>0, NothingPending DEF ResetFlush, OrderRun
<1>2. queued' = queued /\ latest' = latest
  <2>1. <<>> \in Seq(Row) /\ SongsOf(<<>>) = {}
    BY DEF SongsOf
  <2> QED BY <1>1, <2>1, QuietFlush DEF ResetFlush
<1>3. resetAt' \in Nat
  BY ResetFlushType DEF TypeInv, TypeOK
<1>4. PICK f : f = Flushed
  OBVIOUS
<1>5. f \in RunType /\ f.known = run.known /\ f.len = run.len /\ Quiet(f)
  BY <1>0, <1>1, <1>4, FlushedType DEF Flushed, RunType, Quiet
<1>6. run' = [f EXCEPT !.resetAt = resetAt', !.pc = "choose"]
  BY <1>1, <1>4, <1>5 DEF ResetFlush
<1>7. /\ run'.pc = "choose" /\ run'.known = run.known /\ run'.len = run.len
      /\ Quiet(run')
  BY <1>5, <1>6 DEF RunType, Quiet
<1>8. OrderRun(run')
  BY <1>0, <1>1, <1>7, QuietRun
<1>9. OrderRun(run)'
  BY <1>2, <1>8 DEF OrderRun, KnownOf, PendingOf, StoredSince, IsNext, ResetFlush
<1> QED BY <1>2, <1>9, RunStep DEF ResetFlush

\* The song that is stored is the next one: it becomes the latest, and the ones the
\* run holds are still fewer than its rows.
LEMMA StoreOrder ==
  ASSUME TypeInv, OrderInv, Sequential, Store, weight' = weight, Sequential'
  PROVE  OrderInv'
<1> DEFINE n == Cardinality(mode.songs)
<1>0. /\ latest \in mode.songs \cup {NoSong} /\ SegmentInv /\ OrderRun(run)
      /\ run \in RunType /\ run.pc = "store" /\ run.len < QueueLength
  BY DEF OrderInv, TypeInv, OrderRun, Store
<1>1. PICK row : row = [song |-> run.song, exp |-> run.exp]
  OBVIOUS
<1>2. row \in Row /\ row.song = run.song /\ Flush(<<row>>) /\ <<row>> \in Seq(Row)
  BY <1>0, <1>1 DEF Store, TypeInv, RunType, Row
<1>3. mode' = mode
  BY DEF Store
<1>4. PICK f : f = Flushed
  OBVIOUS
<1>5. /\ f \in RunType /\ f.known = run.known \cup run.dirty /\ f.len = run.len
      /\ Quiet(f)
  BY <1>0, <1>4, FlushedType DEF Flushed, RunType, Quiet
<1>6. \/ run' = Idle
      \/ /\ run'.known = run.known \cup run.dirty
         /\ run'.len = run.len + 1 /\ run.len + 1 < QueueLength
         /\ Quiet(run') /\ run'.pc = "consider"
  <2>1. CASE run.len + 1 >= QueueLength
    BY <2>1 DEF Store
  <2>2. CASE ~ (run.len + 1 >= QueueLength)
    <3>1. run' = [f EXCEPT !.pc = "consider", !.exp = f.exp + 1, !.len = f.len + 1,
                           !.last = run.song]
      BY <1>4, <1>5, <2>2 DEF Store
    <3>2. run.len + 1 < QueueLength
      BY <1>0, <2>2, QueueLengthAssumption DEF RunType
    <3> QED BY <1>5, <3>1, <3>2 DEF RunType, Quiet
  <2> QED BY <2>1, <2>2
<1>7. ASSUME \A m \in run.known \cup run.dirty :
                m \in mode.songs /\ latest' # NoSong /\ StoredSince(m)' < run.len + 1
      PROVE  OrderRun(run)'
  <2>1. CASE run' = Idle
    BY <2>1 DEF Idle, OrderRun, KnownOf, PendingOf, Quiet
  <2>2. CASE run' # Idle
    BY <1>3, <1>6, <1>7, <2>2 DEF OrderRun, KnownOf, PendingOf, Quiet
  <2> QED BY <2>1, <2>2
<1>8. CASE Quiet(run) /\ run.song = Other
  <2>1. SongsOf(<<row>>) = {}
    BY <1>2, <1>8, OtherAssumption DEF SongsOf
  <2>2. queued' = queued /\ latest' = latest
    BY <1>2, <1>8, <2>1, QuietFlush
  <2>3. \A m \in run.known \cup run.dirty :
           m \in mode.songs /\ latest' # NoSong /\ StoredSince(m)' < run.len + 1
    <3>1. \A m \in run.known :
             m \in mode.songs /\ latest # NoSong /\ StoredSince(m) < run.len
      BY <1>0 DEF OrderRun, KnownOf
    <3>2. \A m \in run.known : StoredSince(m)' = StoredSince(m) /\ StoredSince(m) \in Int
      <4> TAKE m \in run.known
      <4>1. latest \in mode.songs /\ m \in mode.songs
        BY <1>0, <3>1
      <4>2. n \in Nat /\ weight[m] \in 1 .. n /\ weight[latest] \in 1 .. n
        BY <4>1, WeightLemma DEF TypeInv
      <4>3. StoredSince(m)' = StoredSince(m)
        BY <1>3, <2>2 DEF StoredSince
      <4>4. StoredSince(m)
              = weight[latest] - weight[m] + (IF weight[m] <= weight[latest] THEN 0 ELSE n)
        BY DEF StoredSince
      <4> HIDE DEF n
      <4> QED BY <4>2, <4>3, <4>4
    <3>3. run.len \in Nat /\ run.dirty = {}
      BY <1>0, <1>8 DEF RunType, Quiet
    <3> QED BY <2>2, <3>1, <3>2, <3>3
  <2> QED BY <1>0, <1>3, <1>7, <2>2, <2>3 DEF OrderInv, SegmentInv
<1>9. ASSUME NEW m \in mode.songs, IsNext(m), PendingSong(run, m)
      PROVE  OrderInv'
  <2>1. latest' = m /\ \A k \in mode.songs : queued'[k] <=> queued[k] /\ k # m
    BY <1>0, <1>1, <1>2, <1>9, SongFlush
  <2>2. /\ latest # NoSong => Follows(latest, m)
        /\ \A k \in mode.songs : (queued[k] /\ k # m) <=> weight[m] < weight[k]
    BY <1>0, <1>9, NextLemma DEF TypeInv
  <2>3. m # NoSong
    BY ModeType, OtherAssumption DEF TypeInv, TypeOK
  <2>4. SegmentInv'
    BY <1>3, <2>1, <2>2, <2>3 DEF SegmentInv
  <2>5. ASSUME NEW k \in run.known \cup run.dirty
        PROVE  k \in mode.songs /\ latest' # NoSong /\ StoredSince(k)' < run.len + 1
    <3>0. /\ n \in Nat /\ weight \in [mode.songs -> 1 .. n] /\ run.len \in Nat
          /\ QueueLength <= n /\ QueueLength \in Nat
      BY <1>0, WeightLemma, QueueLengthAssumption DEF TypeInv, RunType, Sequential
    <3>1. StoredSince(k)'
            = weight[m] - weight[k] + (IF weight[k] <= weight[m] THEN 0 ELSE n)
      BY <1>3, <2>1 DEF StoredSince
    <3> HIDE DEF n
    <3>2. CASE k = m
      <4>1. weight[m] \in 1 .. n
        BY <3>0
      <4> QED BY <2>1, <2>3, <3>0, <3>1, <3>2, <4>1
    <3>3. CASE k # m
      <4>1. k \in run.known
        BY <1>9, <3>3 DEF PendingSong
      <4>2. k \in mode.songs /\ latest # NoSong /\ latest \in mode.songs
            /\ StoredSince(k) < run.len
        BY <1>0, <4>1 DEF OrderRun, KnownOf
      <4>3. weight[latest] - weight[k] + (IF weight[k] <= weight[latest] THEN 0 ELSE n)
              < run.len
        BY <4>2 DEF StoredSince, n
      <4>4. weight[m] = IF weight[latest] = n THEN 1 ELSE weight[latest] + 1
        BY <2>2, <4>2 DEF Follows, n
      <4>5. weight[k] \in 1 .. n /\ weight[latest] \in 1 .. n /\ weight[m] \in 1 .. n
        BY <3>0, <4>2
      <4>6. weight[k] # weight[m]
        BY <3>3, <4>2, WeightLemma DEF TypeInv
      <4> QED BY <1>0, <2>1, <2>3, <3>0, <3>1, <4>2, <4>3, <4>4, <4>5, <4>6
    <3> QED BY <3>2, <3>3
  <2> QED BY <1>3, <1>7, <2>1, <2>4, <2>5 DEF OrderInv
<1> QED BY <1>0, <1>8, <1>9 DEF OrderRun, PendingOf

\* Every step keeps the order.
LEMMA OrderStep == TypeInv /\ OrderInv /\ [Next]_vars => OrderInv'
<1> SUFFICES ASSUME TypeInv, OrderInv, [Next]_vars, Sequential' PROVE OrderInv'
  BY DEF OrderInv
<1>0. Sequential /\ mode' = mode /\ weight' = weight
  BY SequentialStep
<1>1. latest \in mode.songs \cup {NoSong} /\ SegmentInv /\ OrderRun(run)
  BY <1>0 DEF OrderInv
<1>2. ASSUME queued' = queued, latest' = latest, OrderRun(run') PROVE OrderInv'
  <2>1. OrderRun(run)'
    BY <1>0, <1>2 DEF OrderRun, KnownOf, PendingOf, StoredSince, IsNext
  <2> QED BY <1>0, <1>2, <2>1, RunStep
<1>3. CASE Start
  <2>1. run' = Idle \/ /\ run'.dirty = {} /\ run'.refused = <<>> /\ run'.known = {}
                       /\ run'.pc = "consider" /\ run'.len < QueueLength
    <3>1. CASE Len(rows) >= QueueLength
      BY <1>3, <3>1 DEF Start
    <3>2. CASE ~ (Len(rows) >= QueueLength)
      <4>1. Len(rows) < QueueLength
        BY <3>2, QueueLengthAssumption DEF TypeInv, TypeOK
      <4> QED BY <1>3, <3>2, <4>1 DEF Start, Idle
    <3> QED BY <3>1, <3>2
  <2>2. OrderRun(run')
    BY <2>1, FreshRun DEF Idle
  <2> QED BY <1>2, <1>3, <2>2 DEF Start, listVars
<1>4. CASE Consider
  BY <1>0, <1>1, <1>2, <1>4, ConsiderOrder DEF Consider, listVars
<1>5. CASE Reset
  BY <1>0, <1>5, ResetOrder
<1>6. CASE ResetFlush
  BY <1>0, <1>6, ResetFlushOrder
<1>7. CASE PickAfterReset
  <2>1. run.pc = "pick" /\ IsQueueEmpty(queued)
    BY <1>0, <1>7 DEF PickAfterReset, ResetToPick, Sequential
  <2>2. Quiet(run)
    BY <1>1, <2>1, NothingPending DEF OrderRun
  <2>3. run' = [run EXCEPT !.pc = "reset to pick", !.at = Present]
    BY <1>7 DEF PickAfterReset
  <2>4. /\ run'.pc = "reset to pick" /\ run'.known = run.known /\ run'.len = run.len
        /\ Quiet(run')
    BY <2>2, <2>3 DEF TypeInv, RunType, Quiet
  <2>5. OrderRun(run')
    BY <1>0, <1>1, <2>1, <2>4, QuietRun
  <2> QED BY <1>2, <1>7, <2>5 DEF PickAfterReset, listVars
<1>8. CASE Choose
  BY <1>0, <1>1, <1>2, <1>8, ChooseOrder DEF Choose, listVars
<1>9. CASE Store
  BY <1>0, <1>9, StoreOrder
<1>10. CASE Crash
  <2>1. OrderRun(run')
    BY <1>10, FreshRun DEF Crash, Idle
  <2> QED BY <1>2, <1>10, <2>1 DEF Crash, listVars
<1>11. CASE Tick \/ RowStarts \/ OpSkip \/ OpDelete
  BY <1>1, <1>2, <1>11 DEF Tick, RowStarts, OpSkip, OpDelete, listVars
<1>12. CASE OpReset
  BY <1>12 DEF OpReset, Sequential
<1>13. CASE UNCHANGED vars
  BY <1>1, <1>2, <1>13 DEF vars
<1> QED BY <1>3, <1>4, <1>5, <1>6, <1>7, <1>8, <1>9, <1>10, <1>11, <1>12, <1>13 DEF Next

\* The songs of a sequential playlist are stored in its order, whatever runs are
\* killed, rows deleted or choices refused, for every playlist that is at least as
\* long as the queue.
THEOREM OrderIsFollowedCorrect == Spec => OrderIsFollowed
<1>1. Init => OrderInv
  <2> SUFFICES ASSUME Init PROVE OrderInv
    OBVIOUS
  <2>1. /\ latest = NoSong
        /\ \A m, k \in mode.songs : queued[m] /\ weight[m] < weight[k] => queued[k]
    <3>1. TypeOK
      BY InitType DEF TypeInv
    <3>2. \A m \in mode.songs : weight[m] \in Nat
      BY <3>1, WeightLemma
    <3>3. PICK done \in 0 .. Cardinality(mode.songs) :
            queued = [m \in mode.songs |-> done < weight[m]]
      BY DEF Init
    <3>4. done \in Nat
      BY <3>1, WeightLemma
    <3>5. ASSUME NEW m \in mode.songs, NEW k \in mode.songs, queued[m], weight[m] < weight[k]
          PROVE  queued[k]
      <4>1. queued[m] = (done < weight[m]) /\ queued[k] = (done < weight[k])
        BY <3>3
      <4>2. done < weight[m] /\ weight[m] \in Nat /\ weight[k] \in Nat
        BY <3>2, <3>5, <4>1
      <4>3. done < weight[k]
        BY <3>4, <3>5, <4>2
      <4> QED BY <4>1, <4>3
    <3>6. latest = NoSong
      BY DEF Init
    <3> QED BY <3>5, <3>6
  <2>2. OrderRun(run)
    BY FreshRun DEF Init, Idle
  <2> QED BY <2>1, <2>2 DEF OrderInv, SegmentInv
<1>2. ASSUME TypeInv, OrderInv, Sequential, Store, run.song \in Media, latest # NoSong
      PROVE  Follows(latest, run.song)
  <2>1. latest \in mode.songs \cup {NoSong} /\ SegmentInv /\ PendingOf(run)
    BY <1>2 DEF OrderInv, OrderRun
  <2>2. run.pc = "store" /\ run.song # Other
    BY <1>2, OtherAssumption DEF Store
  <2>3. PICK m \in mode.songs : IsNext(m) /\ PendingSong(run, m)
    BY <2>1, <2>2 DEF PendingOf
  <2>4. run.song = m
    BY <2>2, <2>3 DEF PendingSong
  <2> QED BY <1>2, <2>1, <2>3, <2>4, NextLemma DEF TypeInv
<1>3. TypeInv /\ OrderInv =>
        (mode.kind = "always" /\ ~ mode.shuffle /\ "reset by hand" \notin disturbed
         /\ QueueLength <= Cardinality(mode.songs)
         /\ Store /\ run.song \in Media /\ latest # NoSong => Follows(latest, run.song))
  BY <1>2 DEF Sequential
<1> QED BY <1>1, <1>3, InitType, StepType, OrderStep, PTL DEF Spec, OrderIsFollowed

-----------------------------------------------------------------------------
\* Some naturals have a least one.
LEMMA LeastNatural ==
  ASSUME NEW S \in SUBSET Nat, S # {}
  PROVE  \E n \in S : \A k \in S : n <= k
<1>1. PICK n \in S : \A k \in S : ~ (<<k, n>> \in OpToRel(<, Nat))
  BY NatLessThanWellFounded, WFMin
<1>2. \A k \in S : ~ (k < n)
  BY <1>1 DEF OpToRel
<1> QED BY <1>2

\* Some of finitely many things weigh least.
LEMMA LeastOfSome ==
  ASSUME NEW T, IsFiniteSet(T), T # {}, NEW w \in [T -> Int]
  PROVE  \E m \in T : \A k \in T : w[m] <= w[k]
<1> DEFINE HasLeast(S) == \E m \in S : \A k \in S : w[m] <= w[k]
           Sizes == {n \in Nat : \E S \in SUBSET T : S # {} /\ ~ HasLeast(S) /\ Cardinality(S) = n}
<1>1. \A S \in SUBSET T : IsFiniteSet(S) /\ Cardinality(S) \in Nat
  BY FS_Subset, FS_CardinalityType
<1>2. SUFFICES ASSUME ~ HasLeast(T) PROVE FALSE
  OBVIOUS
<1>3. Sizes # {}
  BY <1>1, <1>2
<1>4. PICK n \in Sizes : \A k \in Sizes : n <= k
  BY <1>3, LeastNatural
<1>5. PICK S \in SUBSET T : S # {} /\ ~ HasLeast(S) /\ Cardinality(S) = n
  BY <1>4
<1>6. PICK x \in S : TRUE
  BY <1>5
<1>7. Cardinality(S \ {x}) = n - 1 /\ n \in Nat
  BY <1>1, <1>5, <1>6, FS_RemoveElement
<1>8. S \ {x} = {} \/ HasLeast(S \ {x})
  <2>1. CASE S \ {x} # {} /\ ~ HasLeast(S \ {x})
    <3>1. n - 1 \in Sizes
      BY <1>1, <1>7, <2>1
    <3> QED BY <1>4, <1>7, <3>1
  <2> QED BY <2>1
<1>9. CASE S \ {x} = {}
  <2>1. \A k \in S : k = x /\ w[x] <= w[k]
    BY <1>9
  <2> QED BY <1>5, <2>1
<1>10. CASE HasLeast(S \ {x})
  <2>1. PICK m \in S \ {x} : \A k \in S \ {x} : w[m] <= w[k]
    BY <1>10
  <2>2. \A k \in S : w[k] \in Int
    OBVIOUS
  <2>3. CASE w[m] <= w[x]
    <3>1. \A k \in S : w[m] <= w[k]
      BY <2>1, <2>3
    <3> QED BY <1>5, <2>1, <3>1
  <2>4. CASE w[x] < w[m]
    <3>1. \A k \in S : w[x] <= w[k]
      BY <2>1, <2>2, <2>4
    <3> QED BY <1>5, <3>1
  <2> QED BY <2>2, <2>3, <2>4
<1> QED BY <1>8, <1>9, <1>10

\* Some songs have a first one and a last one in an order.
LEMMA FirstOfLemma ==
  ASSUME NEW T, IsFiniteSet(T), T # {}, NEW w, \A m \in T : w[m] \in Int
  PROVE  FirstOf(T, w) # {} /\ LastOf(T, w) # {}
<1>1. PICK f : f = [m \in T |-> w[m]]
  OBVIOUS
<1>2. PICK g : g = [m \in T |-> 0 - w[m]]
  OBVIOUS
<1>3. f \in [T -> Int] /\ g \in [T -> Int]
  BY <1>1, <1>2
<1>4. PICK m \in T : \A k \in T : f[m] <= f[k]
  BY <1>3, LeastOfSome
<1>5. PICK l \in T : \A k \in T : g[l] <= g[k]
  BY <1>3, LeastOfSome
<1>6. \A k \in T : w[m] <= w[k]
  BY <1>1, <1>4
<1>7. \A k \in T : w[k] <= w[l]
  <2> TAKE k \in T
  <2>1. g[l] <= g[k] /\ g[l] = 0 - w[l] /\ g[k] = 0 - w[k] /\ w[l] \in Int /\ w[k] \in Int
    BY <1>2, <1>5
  <2> QED BY <2>1
<1> QED BY <1>6, <1>7 DEF FirstOf, LastOf

\* Finitely many songs with the times at which they are played.
IsHistory(history) == history \in SUBSET (Media \X Nat) /\ IsFiniteSet(history)

\* When a song was played last is a time.
LEMMA LatestTimeLemma ==
  ASSUME NEW history \in SUBSET (Media \X Nat), IsFiniteSet(history), NEW m
  PROVE  LatestTime(m, history) \in Nat
<1>1. PICK T : T = {0} \cup {h[2] : h \in {g \in history : g[1] = m}}
  OBVIOUS
<1>2. T \in SUBSET Nat /\ T # {}
  BY <1>1
<1>3. IsFiniteSet(T)
  <2>1. IsFiniteSet({g \in history : g[1] = m})
    BY FS_Subset
  <2>2. IsFiniteSet({h[2] : h \in {g \in history : g[1] = m}})
    <3>1. PICK G : G = {g \in history : g[1] = m}
      OBVIOUS
    <3>2. PICK I : I = {h[2] : h \in G}
      OBVIOUS
    <3>3. PICK f : f = [h \in G |-> h[2]]
      OBVIOUS
    <3>4. f \in Surjection(G, I)
      BY <3>2, <3>3 DEF Surjection
    <3> QED BY <2>1, <3>1, <3>2, <3>4, FS_Surjection
  <2> QED BY <1>1, <2>2, FS_Singleton, FS_Union
<1>4. PICK w : w = [x \in T |-> 0 - x]
  OBVIOUS
<1>5. w \in [T -> Int]
  BY <1>2, <1>4
<1>6. PICK x \in T : \A k \in T : w[x] <= w[k]
  BY <1>2, <1>3, <1>5, LeastOfSome
<1>7. \A k \in T : x >= k
  <2> TAKE k \in T
  <2>1. w[x] <= w[k] /\ w[x] = 0 - x /\ w[k] = 0 - k /\ x \in Nat /\ k \in Nat
    BY <1>2, <1>4, <1>6
  <2> QED BY <2>1
<1>8. Max(T) \in T
  BY <1>7 DEF Max
<1> QED BY <1>1, <1>2, <1>8 DEF LatestTime

\* An order of some songs.
IsOrder(w, tracks) ==
  /\ \A m \in tracks : w[m] \in Nat
  /\ \A m, k \in tracks : w[m] = w[k] => m = k

\* A list with songs gives at most one of them, and none only when duplicates are
\* not allowed.
LEMMA PreventionFinds ==
  ASSUME NEW tracks \in SUBSET Media, NEW w, IsOrder(w, tracks),
         NEW history, IsHistory(history), NEW allow,
         NEW P, P = PreventDuplicates(tracks, w, history, allow)
  PROVE  /\ P \subseteq tracks
         /\ \A m, k \in P : m = k
         /\ P = {} => ~ allow \/ tracks = {}
<1>1. PICK D : D = Distinct(tracks, history)
  OBVIOUS
<1>2. PICK L : L = {m \in tracks : \A k \in tracks :
                      LatestTime(m, history) <= LatestTime(k, history)}
  OBVIOUS
<1>3. D \subseteq tracks /\ L \subseteq tracks
  BY <1>1, <1>2 DEF Distinct
<1>4. IsFiniteSet(tracks) /\ IsFiniteSet(D) /\ IsFiniteSet(L)
  BY <1>3, MediaAssumption, FS_Subset
<1>5. \A m \in tracks : w[m] \in Nat
  BY DEF IsOrder
<1>6. \A T \in SUBSET tracks : /\ FirstOf(T, w) \subseteq T /\ LastOf(T, w) \subseteq T
                               /\ \A m, k \in FirstOf(T, w) : m = k
                               /\ \A m, k \in LastOf(T, w) : m = k
  BY <1>5 DEF FirstOf, LastOf, IsOrder
<1>7. D # {} => FirstOf(D, w) # {}
  BY <1>3, <1>4, <1>5, FirstOfLemma
<1>8. tracks # {} => L # {}
  <2>1. PICK l : l = [m \in tracks |-> LatestTime(m, history)]
    OBVIOUS
  <2>2. l \in [tracks -> Int]
    BY <2>1, LatestTimeLemma DEF IsHistory
  <2>3. tracks # {} => \E m \in tracks : \A k \in tracks : l[m] <= l[k]
    BY <1>4, <2>2, LeastOfSome
  <2> QED BY <1>2, <2>1, <2>3
<1>9. tracks # {} => LastOf(L, w) # {}
  BY <1>3, <1>4, <1>5, <1>8, FirstOfLemma
<1>10. P = IF D # {} THEN FirstOf(D, w) ELSE IF allow THEN LastOf(L, w) ELSE {}
  BY <1>1, <1>2 DEF PreventDuplicates, LeastRecent
<1> QED BY <1>3, <1>6, <1>7, <1>9, <1>10

\* Duplicate prevention gives the first song in the order that shares neither title
\* nor artist with the history; only when there is none and duplicates are allowed,
\* one of those played least recently.  It gives no song only when it must.
THEOREM DuplicatesPrevented ==
  ASSUME NEW tracks \in SUBSET Media, NEW w, IsOrder(w, tracks),
         NEW history, IsHistory(history),
         NEW allow,
         NEW picked, picked = PreventDuplicates(tracks, w, history, allow),
         NEW distinct, distinct = Distinct(tracks, history)
  PROVE  /\ picked \subseteq tracks
         /\ \A m, k \in picked : m = k
         /\ picked = {} <=> distinct = {} /\ (~ allow \/ tracks = {})
         /\ distinct # {} => picked \subseteq distinct
         /\ \A m \in picked \ distinct, k \in tracks :
               LatestTime(m, history) <= LatestTime(k, history)
<1>1. PICK D : D = distinct
  OBVIOUS
<1>2. PICK L : L = {m \in tracks : \A k \in tracks :
                      LatestTime(m, history) <= LatestTime(k, history)}
  OBVIOUS
<1>3. PICK P : P = picked
  OBVIOUS
<1>4. P = IF D # {} THEN FirstOf(D, w) ELSE IF allow THEN LastOf(L, w) ELSE {}
  BY <1>1, <1>2, <1>3 DEF PreventDuplicates, LeastRecent
<1>5. FirstOf(D, w) \subseteq D /\ LastOf(L, w) \subseteq L
  BY DEF FirstOf, LastOf
<1>6. /\ P \subseteq tracks
      /\ \A m, k \in P : m = k
      /\ P = {} => ~ allow \/ tracks = {}
  BY <1>3, PreventionFinds
<1>7. D # {} => FirstOf(D, w) # {}
  <2>1. D \subseteq tracks
    BY <1>1 DEF Distinct
  <2> QED BY <2>1, MediaAssumption, FS_Subset, FirstOfLemma DEF IsOrder
<1>8. /\ P = {} <=> D = {} /\ (~ allow \/ tracks = {})
      /\ D # {} => P \subseteq D
  BY <1>4, <1>5, <1>6, <1>7
<1>9. \A m \in P \ D, k \in tracks : LatestTime(m, history) <= LatestTime(k, history)
  <2>1. P \ D \subseteq L
    BY <1>4, <1>5
  <2> QED BY <1>2, <2>1
<1> QED BY <1>1, <1>3, <1>6, <1>8, <1>9

\* The history a run reads is finite.
LEMMA HistoryFinite ==
  ASSUME TypeOK, NEW exp
  PROVE  IsFiniteSet(History(exp))
<1>1. PICK D : D = {j \in DOMAIN rows : rows[j].song \in Media}
  OBVIOUS
<1>2. PICK E : E = {k \in Media : seen[k] > 0 /\ seen[k] >= exp - TimeRange}
  OBVIOUS
<1>3. IsFiniteSet(D) /\ IsFiniteSet(E)
  <2>1. rows \in Seq(Row) /\ Len(rows) \in Nat /\ DOMAIN rows = 1 .. Len(rows)
    BY DEF TypeOK
  <2>2. IsFiniteSet(1 .. Len(rows))
    BY <2>1, FS_Interval
  <2> QED BY <1>1, <1>2, <2>1, <2>2, MediaAssumption, FS_Subset
<1>4. PICK A : A = {<<rows[i].song, rows[i].exp>> : i \in D}
  OBVIOUS
<1>5. PICK B : B = {<<m, seen[m]>> : m \in E}
  OBVIOUS
<1>6. PICK f : f = [i \in D |-> <<rows[i].song, rows[i].exp>>]
  OBVIOUS
<1>7. PICK g : g = [m \in E |-> <<m, seen[m]>>]
  OBVIOUS
<1>8. f \in Surjection(D, A) /\ g \in Surjection(E, B)
  BY <1>4, <1>5, <1>6, <1>7 DEF Surjection
<1>9. IsFiniteSet(A) /\ IsFiniteSet(B)
  BY <1>3, <1>8, FS_Surjection
<1>10. History(exp) = A \cup B
  BY <1>1, <1>2, <1>4, <1>5 DEF History
<1> QED BY <1>9, <1>10, FS_Union

FiniteInv == IsFiniteSet(run.history)

LEMMA FiniteStep == TypeInv /\ FiniteInv /\ [Next]_vars => FiniteInv'
<1> SUFFICES ASSUME TypeInv, FiniteInv, [Next]_vars PROVE FiniteInv'
  OBVIOUS
<1>0. run \in RunType
  BY DEF TypeInv
<1>1. ASSUME run'.history = run.history \/ run'.history = {} PROVE FiniteInv'
  BY <1>1, FS_EmptySet DEF FiniteInv
<1>2. \A r \in RunType : PassOn(r).history = r.history /\ TryAgain(r).history = r.history
  BY DEF PassOn, TryAgain, RunType
<1>3. \A r \in RunType : \A b : LoopOrPass(r, b).history = r.history
  BY <1>2 DEF LoopOrPass, RunType
<1>4. Idle.history = {}
  BY DEF Idle
<1>5. CASE Start
  <2>1. run'.history = {}
    BY <1>5 DEF Start, Idle
  <2> QED BY <1>1, <2>1
<1>6. CASE Consider
  <2>1. PICK h : h = History(run.exp)
    OBVIOUS
  <2>2. PICK r : r = [run EXCEPT !.history = h, !.again = FALSE]
    OBVIOUS
  <2>3. h \in SUBSET (Media \X Nat) /\ IsFiniteSet(h)
    BY <2>1, HistoryType, HistoryFinite DEF TypeInv
  <2>4. r \in RunType /\ r.history = h
    BY <1>0, <2>2, <2>3 DEF RunType
  <2>5. \/ run' = PassOn(r) \/ run' = [r EXCEPT !.pc = "pick"]
        \/ run' = [r EXCEPT !.pc = "reset to loop", !.at = ResetTime(r)]
        \/ run' = LoopOrPass(r, IsQueueEmpty(queued))
    BY <1>6, <2>1, <2>2 DEF Consider
  <2>6. run'.history = h
    <3>1. CASE run' = PassOn(r) \/ run' = LoopOrPass(r, IsQueueEmpty(queued))
      BY <1>2, <1>3, <2>4, <3>1
    <3>2. CASE run' = [r EXCEPT !.pc = "pick"]
      BY <2>4, <3>2 DEF RunType
    <3>3. CASE run' = [r EXCEPT !.pc = "reset to loop", !.at = ResetTime(r)]
      BY <2>4, <3>3 DEF RunType
    <3> QED BY <2>5, <3>1, <3>2, <3>3
  <2> QED BY <2>3, <2>6 DEF FiniteInv
<1>7. CASE Reset
  BY <1>0, <1>1, <1>7 DEF Reset, RunType
<1>8. CASE ResetFlush
  <2>1. PICK f : f = Flushed
    OBVIOUS
  <2>2. f \in RunType /\ f.history = run.history
    BY <1>0, <2>1, FlushedType DEF Flushed, RunType
  <2>3. PICK r : r = [f EXCEPT !.resetAt = resetAt']
    OBVIOUS
  <2>4. resetAt' \in Nat
    BY <1>8, ResetFlushType DEF TypeInv, TypeOK
  <2>5. r \in RunType /\ r.history = run.history
    BY <2>2, <2>3, <2>4 DEF RunType
  <2>6. run' = LoopOrPass(r, FALSE) \/ run' = [r EXCEPT !.pc = "choose"]
    BY <1>8, <2>1, <2>3 DEF ResetFlush
  <2>7. run'.history = run.history
    BY <1>3, <2>5, <2>6 DEF RunType
  <2> QED BY <1>1, <2>7
<1>9. CASE PickAfterReset
  BY <1>0, <1>1, <1>9 DEF PickAfterReset, RunType
<1>10. CASE Choose
  <2>1. CASE run' = TryAgain(run)
    BY <1>0, <1>1, <1>2, <2>1
  <2>2. ASSUME NEW m \in NextTracks, run' = Chosen(m) PROVE FiniteInv'
    <3>1. PICK r : r = [run EXCEPT !.playedAt = run.exp,
                          !.dirty = IF queued[m] /\ m \notin run.known THEN @ \cup {m} ELSE @]
      OBVIOUS
    <3>2. m \in Media
      BY NextTracksType, ModeType DEF TypeInv, TypeOK
    <3>3. r \in RunType /\ r.history = run.history
      BY <1>0, <3>1, <3>2 DEF RunType
    <3>4. PICK row : row = [song |-> m, exp |-> now]
      OBVIOUS
    <3>5. row \in Row
      BY <3>2, <3>4 DEF Row, TypeInv, TypeOK
    <3>10. PICK s : s = Append(r.refused, row)
      OBVIOUS
    <3>11. r.refused \in Seq(Row)
      BY <3>3 DEF RunType
    <3>12. s \in Seq(Row)
      BY <3>5, <3>10, <3>11
    <3>6. PICK q : q = [r EXCEPT !.refused = s]
      OBVIOUS
    <3>7. q \in RunType /\ q.history = run.history
      BY <3>3, <3>6, <3>12 DEF RunType
    <3>8. run' = TryAgain(q) \/ run' = [r EXCEPT !.pc = "store", !.song = m]
      <4>1. q = [r EXCEPT !.refused = Append(@, [song |-> m, exp |-> now])]
        BY <3>3, <3>4, <3>6, <3>10 DEF RunType
      <4> QED BY <2>2, <3>1, <4>1 DEF Chosen
    <3>9. run'.history = run.history
      BY <1>2, <3>3, <3>7, <3>8 DEF RunType
    <3> QED BY <1>1, <3>9
  <2> QED BY <1>10, <2>1, <2>2 DEF Choose
<1>11. CASE Store
  <2>1. PICK f : f = Flushed
    OBVIOUS
  <2>2. f \in RunType /\ f.history = run.history
    BY <1>0, <2>1, FlushedType DEF Flushed, RunType
  <2>3. run' = Idle \/ run' = [f EXCEPT !.pc = "consider", !.exp = f.exp + 1,
                                         !.len = f.len + 1, !.last = run.song]
    BY <1>11, <2>1 DEF Store
  <2>4. run'.history = {} \/ run'.history = run.history
    BY <1>4, <2>2, <2>3 DEF RunType
  <2> QED BY <1>1, <2>4
<1>12. CASE Crash
  BY <1>1, <1>4, <1>12 DEF Crash
<1>13. CASE Tick \/ RowStarts \/ OpSkip \/ OpDelete \/ OpReset
  BY <1>1, <1>13 DEF Tick, RowStarts, OpSkip, OpDelete, OpReset
<1>14. CASE UNCHANGED vars
  BY <1>1, <1>14 DEF vars
<1> QED BY <1>5, <1>6, <1>7, <1>8, <1>9, <1>10, <1>11, <1>12, <1>13, <1>14 DEF Next

\* A look at a rotation that is not used up gives one song, and no other: only a
\* first attempt that avoids duplicates may find none.
AlwaysFinds ==
  run.pc \in {"pick", "choose"} /\ ~ IsQueueEmpty(queued)
    /\ (mode.shuffle /\ mode.avoid => run.again)
    => \E m \in mode.songs : queued[m] /\ NextTracks = {m}

\* The second attempt at a playlist never ends without a choice while a song of it is
\* queued, however recently all of them were played; and what is chosen does not
\* depend on the order in which the database or an array gives equal tracks.
THEOREM AlwaysFindsCorrect == Spec => []AlwaysFinds
<1>1. Init => FiniteInv
  BY FS_EmptySet DEF Init, Idle, FiniteInv
<1>2. ASSUME TypeInv, FiniteInv PROVE AlwaysFinds
  <2> SUFFICES ASSUME run.pc \in {"pick", "choose"}, ~ IsQueueEmpty(queued),
                      mode.shuffle /\ mode.avoid => run.again
               PROVE  \E m \in mode.songs : queued[m] /\ NextTracks = {m}
    BY DEF AlwaysFinds
  <2>1. PICK T : T = GetQueue(queued)
    OBVIOUS
  <2>2. T # {} /\ T \subseteq mode.songs /\ \A m \in T : queued[m]
    BY <1>2, <2>1 DEF GetQueue, IsQueueEmpty, TypeInv, TypeOK
  <2>3. mode.songs \subseteq Media
    BY <1>2, ModeType DEF TypeInv, TypeOK
  <2>4. /\ \A m \in T : weight[m] \in Nat
        /\ \A m, k \in T : weight[m] = weight[k] => m = k
    <3>1. PICK n \in Nat : n = Cardinality(mode.songs)
      BY <1>2, WeightLemma DEF TypeInv
    <3>2. /\ weight \in [mode.songs -> 1 .. n]
          /\ \A m, k \in mode.songs : weight[m] = weight[k] => m = k
      BY <1>2, <3>1, WeightLemma DEF TypeInv
    <3> QED BY <2>2, <3>1, <3>2
  <2>5. IsFiniteSet(T)
    BY <2>2, <2>3, MediaAssumption, FS_Subset
  <2>6. NextTracks # {} /\ NextTracks \subseteq T /\ \A m, k \in NextTracks : m = k
    <3>1. CASE mode.shuffle /\ mode.avoid
      <4>1. PICK P : P = PreventDuplicates(T, weight, run.history, run.again)
        OBVIOUS
      <4>2. NextTracks = P
        BY <2>1, <3>1, <4>1 DEF NextTracks
      <4>3. PICK h : h = run.history /\ IsHistory(h)
        BY <1>2 DEF TypeInv, RunType, FiniteInv, IsHistory
      <4>4. PICK w : w = weight /\ IsOrder(w, T)
        BY <2>4 DEF IsOrder
      <4>5. PICK a : a = run.again
        OBVIOUS
      <4>6. P = PreventDuplicates(T, w, h, a)
        BY <4>1, <4>3, <4>4, <4>5
      <4>7. T \in SUBSET Media
        BY <2>2, <2>3
      <4>8. P \subseteq T /\ (\A m, k \in P : m = k) /\ (P = {} => ~ a \/ T = {})
        BY <4>3, <4>4, <4>6, <4>7, PreventionFinds
      <4>9. P # {}
        BY <2>2, <3>1, <4>5, <4>8
      <4> QED BY <4>2, <4>8, <4>9
    <3>2. CASE ~ (mode.shuffle /\ mode.avoid)
      <4>1. NextTracks = FirstOf(T, weight)
        BY <2>1, <3>2 DEF NextTracks
      <4>2. FirstOf(T, weight) # {}
        BY <2>2, <2>4, <2>5, FirstOfLemma
      <4> QED BY <2>4, <4>1, <4>2 DEF FirstOf
    <3> QED BY <3>1, <3>2
  <2>7. PICK m \in NextTracks : TRUE
    BY <2>6
  <2> QED BY <2>2, <2>6, <2>7
<1> QED BY <1>1, <1>2, InitType, StepType, FiniteStep, PTL DEF Spec
=============================================================================
