------------------------- MODULE PlaylistLoopProofs -------------------------
(***************************************************************************)
(* Proofs about Rotation: how often the songs of a scheduled playlist are  *)
(* played in its window, for every library, playlist, window and queue     *)
(* length, and every number of deleted rows and skipped songs.             *)
(***************************************************************************)
EXTENDS RotationProofs

\* A row of song m waits in the queue.
Waiting(m) == \E i \in DOMAIN rows : rows[i].song = m

\* Nothing of the playlist waits or has been played.
Fresh == ~ HasCued /\ \A m \in Media : aired[m] = 0

\* The run is about to store a song of the playlist.
Decided == run.pc = "store" /\ run.song \in Media

\* Each song has one row at most; there is one row at most.
Unique == \A i, j \in DOMAIN rows : rows[i].song \in Media /\ rows[i].song = rows[j].song => i = j
Sole == \A i, j \in DOMAIN rows : rows[i].song \in Media /\ rows[j].song \in Media => i = j

\* What a run remembers of the playlist is what is stored, but for the song it
\* has decided on.
MemoryInv ==
  /\ run.refused = <<>>
  /\ run.pc # "idle" => run.resetAt = resetAt
  /\ run.pc # "idle" /\ ~ Decided => run.dirty = {} /\ run.playedAt = playedAt
  /\ Decided => /\ run.dirty = {run.song} /\ run.playedAt = run.exp
                /\ run.song \in mode.songs /\ queued[run.song]

\* Songs are chosen for a time in the window and played from its start on; the
\* first one stored dates the playlist.
TimeRun ==
  /\ run.pc # "idle" => now <= WinEnd \/ WinEnd < run.exp
  /\ run.pc \notin {"idle", "consider", "store"} \/ Decided => InWindow(run.exp)
TimeData ==
  /\ ~ Fresh => InWindow(playedAt)
  /\ now < WinStart => \A m \in Media : aired[m] = 0

\* A run of a playlist that loops once.  A reset comes when no row waits, and is
\* dated before the window when nothing has been used in it.
LoopRun ==
  /\ run.pc \notin {"choose", "reset to pick", "flush to pick"}
  /\ run.pc = "pick" => ~ InWindow(resetAt) /\ ~ IsQueueEmpty(queued)
  /\ Decided => ~ InWindow(resetAt)
  /\ run.pc \in {"reset to loop", "flush to loop"} =>
        ~ HasCued /\ (run.at = Present \/ (run.at = WinStart - 1 /\ Fresh))
  /\ run.pc = "flush to loop" => \A m \in mode.songs : queued[m]

\* Unless the last reset was in the window, a song still queued has not been used
\* in it.
LoopData ==
  /\ ~ InWindow(resetAt) /\ run.pc # "flush to loop" =>
        \A m \in mode.songs : queued[m] => ~ Waiting(m) /\ aired[m] = 0
  /\ Unique
  /\ \A m \in Media : aired[m] <= 1 /\ (Waiting(m) => aired[m] = 0)

\* A single-track playlist is passed by once it has a date in the window.
SingleRun ==
  /\ run.pc \notin {"reset to loop", "flush to loop"}
  /\ run.pc \in {"pick", "reset to pick", "flush to pick", "choose"} \/ Decided
        => playedAt < WinStart
SingleData ==
  /\ Sole
  /\ HasCued => \A m \in Media : aired[m] = 0
  /\ \A m, k \in Media : aired[m] <= 1 /\ (aired[m] # 0 /\ aired[k] # 0 => m = k)

Looping == mode.kind = "loop once" /\ ~ (mode.shuffle /\ mode.avoid)
Single == mode.kind = "single track"

\* While nothing has disturbed a playlist that loops once or plays a single track.
Undisturbed == disturbed = {} /\ (Looping \/ Single)

OnceRun == MemoryInv /\ TimeRun /\ (Looping => LoopRun) /\ (Single => SingleRun)
OnceData == TimeData /\ (Looping => LoopData) /\ (Single => SingleData)

OnceInv == aired \in [Media -> Nat] /\ (Undisturbed => OnceRun /\ OnceData)

-----------------------------------------------------------------------------
\* The rows after a step are some of the rows before it.
Fewer ==
  \E f \in [DOMAIN rows' -> DOMAIN rows] :
     /\ \A i \in DOMAIN rows' : rows'[i].song = rows[f[i]].song
     /\ \A i, j \in DOMAIN rows' : f[i] = f[j] => i = j

LEMMA FewerRows ==
  ASSUME Fewer
  PROVE  /\ \A m : Waiting(m)' => Waiting(m)
         /\ HasCued' => HasCued
         /\ Unique => Unique'
         /\ Sole => Sole'
<1>1. PICK f \in [DOMAIN rows' -> DOMAIN rows] :
         /\ \A i \in DOMAIN rows' : rows'[i].song = rows[f[i]].song
         /\ \A i, j \in DOMAIN rows' : f[i] = f[j] => i = j
  BY DEF Fewer
<1>2. \A i \in DOMAIN rows' : f[i] \in DOMAIN rows
  OBVIOUS
<1>3. \A m : Waiting(m)' => Waiting(m)
  BY <1>1, <1>2 DEF Waiting
<1>4. HasCued' => HasCued
  BY <1>1, <1>2 DEF HasCued
<1>5. Unique => Unique'
  BY <1>1, <1>2 DEF Unique
<1>6. Sole => Sole'
  BY <1>1, <1>2 DEF Sole
<1> QED BY <1>3, <1>4, <1>5, <1>6

LEMMA FewerSame ==
  ASSUME rows' = rows
  PROVE  Fewer
<1>1. [i \in DOMAIN rows' |-> i] \in [DOMAIN rows' -> DOMAIN rows]
  OBVIOUS
<1> QED BY <1>1 DEF Fewer

LEMMA FewerRetimed ==
  ASSUME TypeInv, rows' = Retimed
  PROVE  Fewer
<1>1. rows \in Seq(Row) /\ DOMAIN rows' = DOMAIN rows
  BY DEF TypeInv, TypeOK, Retimed
<1>2. \A i \in DOMAIN rows : rows'[i].song = rows[i].song
  <2> TAKE i \in DOMAIN rows
  <2>1. rows[i] \in Row
    BY <1>1
  <2>2. rows'[i] = [rows[i] EXCEPT !.exp = Later(now, until) + i - 1]
    BY <1>1 DEF Retimed
  <2> QED BY <2>1, <2>2 DEF Row
<1>3. [i \in DOMAIN rows' |-> i] \in [DOMAIN rows' -> DOMAIN rows]
  BY <1>1
<1> QED BY <1>1, <1>2, <1>3 DEF Fewer

LEMMA FewerTail ==
  ASSUME TypeInv, rows # <<>>, rows' = Tail(rows)
  PROVE  Fewer
<1>1. rows \in Seq(Row) /\ DOMAIN rows = 1 .. Len(rows) /\ Len(rows) \in Nat
  BY DEF TypeInv, TypeOK
<1>2. DOMAIN rows' = 1 .. Len(rows) - 1 /\ \A i \in DOMAIN rows' : rows'[i] = rows[i + 1]
  BY <1>1
<1>3. PICK f : f = [i \in DOMAIN rows' |-> i + 1]
  OBVIOUS
<1>4. f \in [DOMAIN rows' -> DOMAIN rows]
  BY <1>1, <1>2, <1>3
<1>5. /\ \A i \in DOMAIN rows' : rows'[i].song = rows[f[i]].song
      /\ \A i, j \in DOMAIN rows' : f[i] = f[j] => i = j
  BY <1>1, <1>2, <1>3
<1> QED BY <1>4, <1>5 DEF Fewer

\* Two sequences put together.
LEMMA ConcatLemma ==
  ASSUME NEW S, NEW s \in Seq(S), NEW t \in Seq(S)
  PROVE  /\ s \o t \in Seq(S) /\ Len(s \o t) = Len(s) + Len(t)
         /\ \A i \in 1 .. Len(s) + Len(t) :
               (s \o t)[i] = IF i <= Len(s) THEN s[i] ELSE t[i - Len(s)]
OBVIOUS

LEMMA FewerRemoved ==
  ASSUME TypeInv, NEW k \in DOMAIN rows, rows' = RemoveAt(rows, k)
  PROVE  Fewer
<1>1. rows \in Seq(Row) /\ DOMAIN rows = 1 .. Len(rows) /\ Len(rows) \in Nat /\ k \in 1 .. Len(rows)
  BY DEF TypeInv, TypeOK
<1>2. PICK s : s = SubSeq(rows, 1, k - 1)
  OBVIOUS
<1>3. PICK t : t = SubSeq(rows, k + 1, Len(rows))
  OBVIOUS
<1>4. /\ s \in Seq(Row) /\ Len(s) = k - 1 /\ \A i \in 1 .. k - 1 : s[i] = rows[i]
  BY <1>1, <1>2
<1>5. /\ t \in Seq(Row) /\ Len(t) = Len(rows) - k
      /\ \A i \in 1 .. Len(rows) - k : t[i] = rows[k + i]
  BY <1>1, <1>3
<1>6. rows' = s \o t
  BY <1>2, <1>3 DEF RemoveAt
<1>7. /\ DOMAIN rows' = 1 .. Len(rows) - 1
      /\ \A i \in DOMAIN rows' : rows'[i] = IF i < k THEN rows[i] ELSE rows[i + 1]
  <2>1. /\ rows' \in Seq(Row) /\ Len(rows') = Len(s) + Len(t)
        /\ \A i \in 1 .. Len(s) + Len(t) :
              rows'[i] = IF i <= Len(s) THEN s[i] ELSE t[i - Len(s)]
    BY <1>4, <1>5, <1>6, ConcatLemma
  <2>2. PICK n \in Nat : n = Len(rows)
    BY <1>1
  <2>3. Len(s) + Len(t) = n - 1 /\ Len(s) = k - 1 /\ k \in 1 .. n
    BY <1>1, <1>4, <1>5, <2>2
  <2>4. DOMAIN rows' = 1 .. n - 1
    BY <2>1, <2>3
  <2>5. ASSUME NEW i \in 1 .. n - 1, i < k PROVE rows'[i] = rows[i]
    BY <1>4, <2>1, <2>3, <2>5
  <2>6. ASSUME NEW i \in 1 .. n - 1, ~ (i < k) PROVE rows'[i] = rows[i + 1]
    <3>1. rows'[i] = t[i - (k - 1)]
      BY <2>1, <2>3, <2>6
    <3>2. i - (k - 1) \in 1 .. n - k /\ k + (i - (k - 1)) = i + 1
      BY <2>3, <2>6
    <3>3. PICK j \in 1 .. n - k : j = i - (k - 1)
      BY <3>2
    <3> QED BY <1>5, <2>2, <3>1, <3>2, <3>3
  <2> QED BY <2>2, <2>4, <2>5, <2>6
<1>8. PICK f : f = [i \in DOMAIN rows' |-> IF i < k THEN i ELSE i + 1]
  OBVIOUS
<1>9. f \in [DOMAIN rows' -> DOMAIN rows]
  BY <1>1, <1>7, <1>8
<1>10. /\ \A i \in DOMAIN rows' : rows'[i].song = rows[f[i]].song
       /\ \A i, j \in DOMAIN rows' : f[i] = f[j] => i = j
  BY <1>1, <1>7, <1>8
<1> QED BY <1>9, <1>10 DEF Fewer

\* A row that is put at the end.
LEMMA OneMore ==
  ASSUME TypeInv, NEW row \in Row, rows' = rows \o <<row>>
  PROVE  /\ DOMAIN rows' = DOMAIN rows \cup {Len(rows) + 1}
         /\ Len(rows) + 1 \notin DOMAIN rows
         /\ rows'[Len(rows) + 1] = row
         /\ \A i \in DOMAIN rows : rows'[i] = rows[i]
<1>1. rows \in Seq(Row)
  BY DEF TypeInv, TypeOK
<1> QED BY <1>1

\* The flush of a run in which nothing was refused.
LEMMA PlainFlush ==
  ASSUME TypeInv, run.refused = <<>>, NEW new \in Seq(Row), Flush(new)
  PROVE  /\ rows' = rows \o new
         /\ \A m \in mode.songs : queued'[m] = (queued[m] /\ m \notin run.dirty)
         /\ run.dirty = {} => queued' = queued
         /\ playedAt' = run.playedAt
<1>1. rows \in Seq(Row) /\ queued \in [mode.songs -> BOOLEAN]
  BY DEF TypeInv, TypeOK
<1>2. BeforeWaiting(<<>>) = {rows}
  <2>1. <<>> \o rows = rows
    BY <1>1
  <2>2. ASSUME rows # <<>> PROVE <<Head(rows)>> \o <<>> \o Tail(rows) = rows
    BY <1>1, <2>2
  <2> QED BY <2>1, <2>2 DEF BeforeWaiting
<1>3. rows' = rows \o new
  BY <1>2 DEF Flush
<1>4. queued' = [m \in mode.songs |-> queued[m] /\ m \notin run.dirty]
  BY DEF Flush
<1>5. run.dirty = {} => queued' = queued
  BY <1>1, <1>4
<1> QED BY <1>3, <1>4, <1>5 DEF Flush

-----------------------------------------------------------------------------
\* Times are numbers.
LEMMA TimesType ==
  ASSUME TypeInv
  PROVE  /\ WinStart \in Nat /\ WinEnd \in Nat /\ 1 < WinStart /\ WinStart <= WinEnd
         /\ now \in Nat /\ until \in Nat /\ playedAt \in Nat /\ resetAt \in Nat
         /\ rows \in Seq(Row) /\ Len(rows) \in Nat
<1>1. /\ WinStart \in Nat /\ WinEnd \in Nat /\ MaxTime \in Nat
  BY TimeAssumption
<1>2. now \in 1 .. MaxTime /\ until \in 1 .. MaxTime + 1 /\ rows \in Seq(Row)
  BY DEF TypeInv, TypeOK
<1>3. playedAt \in Nat /\ resetAt \in Nat
  BY DEF TypeInv, TypeOK
<1>4. now \in Nat /\ until \in Nat /\ Len(rows) \in Nat
  BY <1>1, <1>2
<1> QED BY <1>1, <1>2, <1>3, <1>4, TimeAssumption

\* What has not come later had not come before.
LEMMA Before ==
  ASSUME NEW s \in Nat, NEW t \in Nat, NEW w \in Nat, s <= t
  PROVE  t < w => s < w
OBVIOUS

LEMMA NoLater ==
  ASSUME NEW s \in Nat, NEW t, t = s
  PROVE  t \in Nat /\ s <= t
OBVIOUS

\* What is stored keeps its part of the invariant when rows go and time passes.
LEMMA FewerData ==
  ASSUME OnceData, TypeInv, Fewer, aired' = aired, playedAt' = playedAt,
         resetAt' = resetAt, mode' = mode, now' \in Nat, now <= now',
         Looping /\ run'.pc # "flush to loop" => run.pc # "flush to loop" /\ queued' = queued
  PROVE  OnceData'
<1>1. /\ \A m : Waiting(m)' => Waiting(m)
      /\ HasCued' => HasCued
      /\ Unique => Unique'
      /\ Sole => Sole'
  BY FewerRows
<1>2. Fresh => Fresh'
  BY <1>1 DEF Fresh
<1>0. now \in Nat /\ WinStart \in Nat
  BY TimesType
<1>3. now' < WinStart => now < WinStart
  BY <1>0, Before
<1>4. TimeData'
  <2>1. TimeData
    BY DEF OnceData
  <2>2. InWindow(playedAt)' = InWindow(playedAt)
    BY DEF InWindow
  <2> QED BY <1>2, <1>3, <2>1, <2>2 DEF TimeData
<1>5. Looping => LoopData'
  BY <1>1 DEF OnceData, LoopData, InWindow
<1>6. Single => SingleData'
  BY <1>1 DEF OnceData, SingleData
<1> QED BY <1>4, <1>5, <1>6 DEF OnceData, Looping, Single

\* So does a run that is not going on.
LEMMA SameRun ==
  ASSUME OnceRun, Fewer, run' = run, aired' = aired \/ HasCued, playedAt' = playedAt,
         resetAt' = resetAt, queued' = queued, mode' = mode,
         run.pc # "idle" => now' <= WinEnd \/ WinEnd < run.exp
  PROVE  OnceRun'
<1>1. /\ HasCued' => HasCued
  BY FewerRows
<1>2. ~ HasCued /\ Fresh => Fresh'
  BY <1>1 DEF Fresh
<1>3. Decided' = Decided
  BY DEF Decided
<1>4. MemoryInv' /\ TimeRun'
  BY <1>3 DEF OnceRun, MemoryInv, TimeRun, InWindow
<1>5. Looping => LoopRun'
  BY <1>1, <1>2, <1>3 DEF OnceRun, LoopRun, InWindow
<1>6. Single => SingleRun'
  BY <1>3 DEF OnceRun, SingleRun
<1> QED BY <1>4, <1>5, <1>6 DEF OnceRun, Looping, Single

\* Neither mends a disturbance nor changes the playlist.
LEMMA UndisturbedStep ==
  ASSUME [Next]_vars, Undisturbed'
  PROVE  Undisturbed /\ mode' = mode
<1>1. mode' = mode /\ disturbed \subseteq disturbed'
  <2>1. CASE Start \/ Consider \/ Reset \/ ResetFlush \/ PickAfterReset \/ Store
    BY <2>1 DEF Start, Consider, Reset, ResetFlush, PickAfterReset, Store
  <2>2. CASE Choose
    BY <2>2 DEF Choose
  <2>3. CASE Crash \/ Tick \/ OpReset
    BY <2>3 DEF Crash, Tick, OpReset
  <2>4. CASE RowStarts
    BY <2>4 DEF RowStarts
  <2>5. CASE OpSkip \/ OpDelete
    BY <2>5 DEF OpSkip, OpDelete
  <2>6. CASE UNCHANGED vars
    BY <2>6 DEF vars
  <2> QED BY <2>1, <2>2, <2>3, <2>4, <2>5, <2>6 DEF Next
<1> QED BY <1>1 DEF Undisturbed, Looping, Single

-----------------------------------------------------------------------------
\* Time passes, and rows go.
LEMMA TickOnce ==
  ASSUME TypeInv, TypeInv', OnceRun, OnceData, disturbed = {}, disturbed' = {}, Tick
  PROVE  OnceRun' /\ OnceData'
<1>1. /\ now \in Nat /\ now' = now + 1 /\ WinEnd \in Nat
  BY TimesType DEF Tick
<1>2. Fewer
  BY FewerSame DEF Tick
<1>3. run.pc # "idle" => now' <= WinEnd \/ WinEnd < run.exp
  <2>1. run.pc # "idle" => now <= WinEnd \/ WinEnd < run.exp
    BY DEF OnceRun, TimeRun
  <2>2. run.pc # "idle" => now # WinEnd
    BY DEF Tick
  <2> QED BY <1>1, <2>1, <2>2
<1>4. OnceRun'
  BY <1>2, <1>3, SameRun DEF Tick, listVars
<1>5. OnceData'
  <2>1. now' \in Nat /\ now <= now'
    BY <1>1
  <2> QED BY <1>2, <2>1, FewerData DEF Tick, listVars
<1> QED BY <1>4, <1>5

LEMMA OperatorOnce ==
  ASSUME TypeInv, OnceRun, OnceData, OpSkip \/ OpDelete
  PROVE  OnceRun' /\ OnceData'
<1>1. Fewer
  BY FewerSame, FewerRemoved DEF OpSkip, OpDelete
<1>2. /\ now' = now /\ now \in Nat /\ run' = run /\ aired' = aired /\ playedAt' = playedAt
      /\ resetAt' = resetAt /\ queued' = queued /\ mode' = mode
  BY DEF OpSkip, OpDelete, listVars, TypeInv, TypeOK
<1>3. OnceRun'
  BY <1>1, <1>2, SameRun DEF OnceRun, TimeRun
<1>4. OnceData'
  <2>1. now' \in Nat /\ now <= now'
    BY <1>2
  <2> QED BY <1>1, <1>2, <2>1, FewerData
<1> QED BY <1>3, <1>4

\* The row that starts is the only one of its song, and its song has not been
\* played before.
LEMMA RowStartsOnce ==
  ASSUME TypeInv, OnceRun, OnceData, Looping \/ Single, aired \in [Media -> Nat],
         disturbed' = {}, RowStarts
  PROVE  OnceRun' /\ OnceData'
<1>1. rows # <<>> /\ rows' = Tail(rows)
  BY DEF RowStarts
<1>2. Fewer
  BY <1>1, FewerTail
<1>3. /\ now' = now /\ now \in Nat /\ run' = run /\ playedAt' = playedAt
      /\ resetAt' = resetAt /\ queued' = queued /\ mode' = mode
  BY TimesType DEF RowStarts, listVars
<1>4. PICK m : m = Head(rows).song
  OBVIOUS
<1>5. CASE m \notin Media
  <2>1. aired' = aired
    BY <1>4, <1>5 DEF RowStarts
  <2>2. OnceRun'
    BY <1>2, <1>3, <2>1, SameRun DEF OnceRun, TimeRun
  <2>3. now' \in Nat /\ now <= now'
    BY <1>3
  <2>4. OnceData'
    BY <1>2, <1>3, <2>1, <2>3, FewerData
  <2> QED BY <2>2, <2>4
<1>6. CASE m \in Media
  <2>1. aired' = [aired EXCEPT ![m] = @ + 1] /\ ~ (now < WinStart)
    BY <1>4, <1>6 DEF RowStarts
  <2>2. 1 \in DOMAIN rows /\ rows[1].song = m
    BY <1>1, <1>4, TimesType
  <2>3. HasCued /\ Waiting(m) /\ ~ Fresh
    BY <1>6, <2>2 DEF HasCued, Waiting, Fresh
  <2>4. OnceRun'
    BY <1>2, <1>3, <2>3, SameRun DEF OnceRun, TimeRun
  <2>5. TimeData'
    BY <1>3, <2>1, <2>3 DEF OnceData, TimeData, InWindow
  <2>6. /\ \A i \in DOMAIN rows' : i + 1 \in DOMAIN rows /\ rows'[i] = rows[i + 1] /\ i + 1 # 1
    <3>1. rows \in Seq(Row)
      BY TimesType
    <3> QED BY <1>1, <3>1
  <2>7. \A k \in Media : aired'[k] = IF k = m THEN aired[k] + 1 ELSE aired[k]
    BY <2>1
  <2>8. ASSUME Looping PROVE LoopData'
    <3>1. Unique /\ Unique'
      BY <1>2, <2>8, FewerRows DEF OnceData, LoopData
    <3>2. ~ Waiting(m)'
      BY <1>6, <2>2, <2>6, <3>1 DEF Waiting, Unique
    <3>3. \A k : Waiting(k)' => Waiting(k)
      BY <1>2, FewerRows
    <3>4. LoopData
      BY <2>8 DEF OnceData
    <3>5. aired[m] = 0
      BY <1>6, <2>3, <3>4 DEF LoopData
    <3>6. \A k \in Media : aired'[k] <= 1 /\ (Waiting(k)' => aired'[k] = 0)
      <4> TAKE k \in Media
      <4>1. aired[k] <= 1 /\ (Waiting(k) => aired[k] = 0)
        BY <3>4 DEF LoopData
      <4>2. CASE k = m
        BY <2>7, <3>2, <3>5, <4>2
      <4>3. CASE k # m
        <5>1. aired'[k] = aired[k]
          BY <2>7, <4>3
        <5> QED BY <3>3, <4>1, <5>1
      <4> QED BY <4>2, <4>3
    <3>7. ASSUME ~ InWindow(resetAt)', run'.pc # "flush to loop",
                 NEW k \in mode.songs, queued'[k]
          PROVE  ~ Waiting(k)' /\ aired'[k] = 0
      <4>1. ~ Waiting(k) /\ aired[k] = 0
        BY <1>3, <3>4, <3>7 DEF LoopData, InWindow
      <4>2. k # m /\ k \in Media
        BY <2>3, <4>1, ModeType DEF TypeInv, TypeOK
      <4> QED BY <2>7, <3>3, <4>1, <4>2
    <3> QED BY <1>3, <3>1, <3>6, <3>7 DEF LoopData
  <2>9. ASSUME Single PROVE SingleData'
    <3>1. Sole /\ Sole' /\ \A k \in Media : aired[k] = 0
      BY <1>2, <2>3, <2>9, FewerRows DEF OnceData, SingleData
    <3>2. ~ HasCued'
      BY <1>6, <2>2, <2>6, <3>1 DEF HasCued, Sole
    <3> QED BY <2>7, <3>1, <3>2 DEF SingleData
  <2> QED BY <1>3, <2>4, <2>5, <2>8, <2>9 DEF OnceData, Looping, Single
<1> QED BY <1>5, <1>6

-----------------------------------------------------------------------------
\* The steps of a run that store nothing.
LEMMA RunOnce ==
  ASSUME TypeInv, OnceData, Fewer, OnceRun', now' = now, aired' = aired,
         playedAt' = playedAt, resetAt' = resetAt, queued' = queued, mode' = mode,
         run.pc # "flush to loop" \/ Single
  PROVE  OnceRun' /\ OnceData'
<1>1. now' \in Nat /\ now <= now'
  <2>1. now \in Nat
    BY TimesType
  <2> QED BY <2>1, NoLater
<1>2. Looping => run.pc # "flush to loop"
  BY DEF Looping, Single
<1> QED BY <1>1, <1>2, FewerData

\* A run that is over, or has just begun.
LEMMA BeginOnce ==
  ASSUME run'.pc \in {"idle", "consider"}, run'.dirty = {}, run'.refused = <<>>,
         run'.pc # "idle" => /\ run'.playedAt = playedAt' /\ run'.resetAt = resetAt'
                             /\ now' <= WinEnd \/ WinEnd < run'.exp
  PROVE  OnceRun'
<1>1. ~ Decided'
  BY DEF Decided
<1> QED BY <1>1 DEF OnceRun, MemoryInv, TimeRun, LoopRun, SingleRun

LEMMA StartOnce ==
  ASSUME TypeInv, OnceData, Start
  PROVE  OnceRun' /\ OnceData'
<1>1. Fewer
  BY FewerRetimed DEF Start
<1>2. /\ now' = now /\ aired' = aired /\ playedAt' = playedAt /\ resetAt' = resetAt
      /\ queued' = queued /\ mode' = mode /\ run.pc = "idle"
  BY DEF Start, listVars
<1>3. CASE Len(rows) >= QueueLength
  <2>1. run' = Idle
    BY <1>3 DEF Start
  <2>2. OnceRun'
    BY <2>1, BeginOnce DEF Idle
  <2> QED BY <1>1, <1>2, <2>2, RunOnce
<1>4. CASE ~ (Len(rows) >= QueueLength)
  <2>1. /\ run'.pc = "consider" /\ run'.dirty = {} /\ run'.refused = <<>>
        /\ run'.playedAt = playedAt /\ run'.resetAt = resetAt
        /\ run'.exp = Later(now, until) + Len(rows)
    BY <1>4 DEF Start, Idle
  <2>2. now <= WinEnd \/ WinEnd < run'.exp
    BY <2>1, TimesType DEF Later
  <2>3. OnceRun'
    BY <1>2, <2>1, <2>2, BeginOnce
  <2> QED BY <1>1, <1>2, <2>3, RunOnce
<1> QED BY <1>3, <1>4

\* A run that is killed leaves nothing half done, unless it was in a reset.
LEMMA CrashOnce ==
  ASSUME TypeInv, OnceRun, OnceData, disturbed' = {}, Crash
  PROVE  OnceRun' /\ OnceData'
<1>1. Fewer
  BY FewerSame DEF Crash
<1>2. /\ now' = now /\ aired' = aired /\ playedAt' = playedAt /\ resetAt' = resetAt
      /\ queued' = queued /\ mode' = mode /\ run' = Idle /\ run.pc # "flush to loop"
  BY DEF Crash, listVars
<1>3. OnceRun'
  BY <1>2, BeginOnce DEF Idle
<1> QED BY <1>1, <1>2, <1>3, RunOnce

-----------------------------------------------------------------------------
\* What a run holds of the playlist, its changes and its time, in r as in q.
Alike(r, q) == /\ r.dirty = q.dirty /\ r.refused = q.refused /\ r.exp = q.exp
               /\ r.playedAt = q.playedAt /\ r.resetAt = q.resetAt

LEMMA PassOnAlike ==
  ASSUME NEW r \in RunType
  PROVE  PassOn(r).pc = "store" /\ PassOn(r).song = Other /\ Alike(PassOn(r), r)
BY DEF PassOn, RunType, Alike

LEMMA LoopOrPassAlike ==
  ASSUME NEW r \in RunType, NEW b
  PROVE  /\ \/ LoopOrPass(r, b).pc = "pick" /\ ~ b /\ ~ InWindow(r.resetAt)
            \/ LoopOrPass(r, b).pc = "store" /\ LoopOrPass(r, b).song = Other
         /\ Alike(LoopOrPass(r, b), r)
<1>1. CASE ~ b /\ ~ InWindow(r.resetAt)
  <2>1. LoopOrPass(r, b) = [r EXCEPT !.pc = "pick"]
    BY <1>1 DEF LoopOrPass
  <2> QED BY <1>1, <2>1 DEF RunType, Alike
<1>2. CASE ~ (~ b /\ ~ InWindow(r.resetAt))
  <2>1. LoopOrPass(r, b) = PassOn(r)
    BY <1>2 DEF LoopOrPass
  <2> QED BY <2>1, PassOnAlike
<1> QED BY <1>1, <1>2

LEMMA TryAgainAlike ==
  ASSUME NEW r \in RunType
  PROVE  /\ \/ TryAgain(r).pc = "pick"
            \/ TryAgain(r).pc = "store" /\ TryAgain(r).song = Other
         /\ Alike(TryAgain(r), r)
<1>1. CASE r.again
  <2>1. TryAgain(r) = PassOn(r)
    BY <1>1 DEF TryAgain
  <2> QED BY <2>1, PassOnAlike
<1>2. CASE ~ r.again
  <2>1. TryAgain(r) = [r EXCEPT !.pc = "pick", !.again = TRUE]
    BY <1>2 DEF TryAgain
  <2> QED BY <2>1 DEF RunType, Alike
<1> QED BY <1>1, <1>2

\* Run r has decided on no song, and what it remembers is what is stored.
Settled(r) == /\ r.dirty = {} /\ r.refused = <<>>
              /\ r.playedAt = playedAt /\ r.resetAt = resetAt
              /\ now <= WinEnd \/ WinEnd < r.exp

\* A step of a run that has decided on no song.
LEMMA PassOnce ==
  ASSUME Settled(run)', run'.pc = "store", run'.song = Other
  PROVE  OnceRun'
<1>1. ~ Decided'
  BY OtherAssumption DEF Decided
<1>2. MemoryInv'
  BY <1>1 DEF MemoryInv, Settled
<1>3. TimeRun'
  BY <1>1 DEF TimeRun, InWindow, Settled
<1> QED BY <1>1, <1>2, <1>3 DEF OnceRun, LoopRun, SingleRun

LEMMA ResumeOnce ==
  ASSUME Settled(run)', run'.pc \notin {"idle", "consider", "store"}, InWindow(run.exp)',
         Looping' => LoopRun', Single' => SingleRun'
  PROVE  OnceRun'
<1>1. ~ Decided'
  BY DEF Decided
<1>2. MemoryInv'
  BY <1>1 DEF MemoryInv, Settled
<1>3. TimeRun'
  BY <1>1 DEF TimeRun, Settled
<1> QED BY <1>2, <1>3 DEF OnceRun

LEMMA SettledStep ==
  ASSUME NEW r, Settled(r), Alike(run', r), now' = now, playedAt' = playedAt,
         resetAt' = resetAt
  PROVE  Settled(run)' /\ (InWindow(r.exp) => InWindow(run.exp)')
BY DEF Settled, Alike, InWindow

\* What a run that considers the playlist, or picks from it, holds.
LEMMA AtWork ==
  ASSUME OnceRun, run.pc # "idle", run.pc # "store"
  PROVE  /\ Settled(run)
         /\ run.pc # "consider" => InWindow(run.exp)
         /\ ~ Decided
BY DEF Settled, OnceRun, MemoryInv, TimeRun, Decided

\* The playlist is reset when no row waits; it is picked from when a song is queued
\* and the last reset was before the window, or it has no date in the window yet.
LEMMA ConsiderOnce ==
  ASSUME TypeInv, OnceRun, OnceData, Looping \/ Single, Consider
  PROVE  OnceRun' /\ OnceData'
<1>1. Fewer
  BY FewerSame DEF Consider
<1>2. /\ now' = now /\ aired' = aired /\ playedAt' = playedAt /\ resetAt' = resetAt
      /\ queued' = queued /\ mode' = mode /\ rows' = rows /\ run.pc = "consider"
  BY DEF Consider, listVars
<1>3. PICK r : r = [run EXCEPT !.history = History(run.exp), !.again = FALSE]
  OBVIOUS
<1>4. r \in RunType /\ r.pc = "consider" /\ Alike(r, run)
  BY <1>2, <1>3, HistoryType DEF TypeInv, RunType, Alike
<1>5. Settled(r)
  BY <1>2, <1>4, AtWork DEF Alike, Settled
<1>6. \/ run' = PassOn(r)
      \/ /\ mode.kind # "loop once" /\ run' = [r EXCEPT !.pc = "pick"] /\ MayPlay(r)
      \/ /\ mode.kind = "loop once" /\ MustReset(r) /\ MayPlay(r)
         /\ run' = [r EXCEPT !.pc = "reset to loop", !.at = ResetTime(r)]
      \/ /\ mode.kind = "loop once" /\ MayPlay(r)
         /\ run' = LoopOrPass(r, IsQueueEmpty(queued))
  BY <1>3 DEF Consider
<1>7. MayPlay(r) => InWindow(r.exp) /\ (Single => r.playedAt < WinStart)
  BY DEF MayPlay, Looping, Single
<1>8. ASSUME Alike(run', r) PROVE Settled(run)' /\ (MayPlay(r) => InWindow(run.exp)')
  BY <1>2, <1>5, <1>7, <1>8, SettledStep
<1>9. OnceRun'
  <2>1. CASE run' = PassOn(r)
    <3>1. run'.pc = "store" /\ run'.song = Other /\ Alike(run', r)
      BY <1>4, <2>1, PassOnAlike
    <3> QED BY <1>8, <3>1, PassOnce
  <2>2. CASE mode.kind # "loop once" /\ run' = [r EXCEPT !.pc = "pick"] /\ MayPlay(r)
    <3>1. run'.pc = "pick" /\ Alike(run', r) /\ Single
      BY <1>4, <2>2 DEF RunType, Alike, Looping, Single
    <3>2. playedAt < WinStart
      BY <1>5, <1>7, <2>2, <3>1 DEF Settled
    <3>3. SingleRun'
      BY <1>2, <3>1, <3>2 DEF SingleRun
    <3>4. ~ Looping'
      BY <1>2, <2>2 DEF Looping
    <3> QED BY <1>8, <2>2, <3>1, <3>3, <3>4, ResumeOnce
  <2>3. CASE /\ mode.kind = "loop once" /\ MustReset(r) /\ MayPlay(r)
             /\ run' = [r EXCEPT !.pc = "reset to loop", !.at = ResetTime(r)]
    <3>1. run'.pc = "reset to loop" /\ Alike(run', r) /\ run'.at = ResetTime(r)
      BY <1>4, <2>3 DEF RunType, Alike
    <3>2. ~ HasCued
      BY <2>3 DEF MustReset
    <3>3. run'.at = Present \/ (run'.at = WinStart - 1 /\ Fresh)
      BY <1>5, <3>1 DEF ResetTime, OnceData, TimeData, InWindow, Settled
    <3>4. LoopRun'
      BY <1>2, <3>1, <3>2, <3>3 DEF LoopRun, HasCued, Fresh, Decided
    <3>5. ~ Single'
      BY <1>2, <2>3 DEF Single
    <3> QED BY <1>8, <2>3, <3>1, <3>4, <3>5, ResumeOnce
  <2>4. CASE /\ mode.kind = "loop once" /\ MayPlay(r)
             /\ run' = LoopOrPass(r, IsQueueEmpty(queued))
    <3>1. /\ \/ run'.pc = "pick" /\ ~ IsQueueEmpty(queued) /\ ~ InWindow(r.resetAt)
             \/ run'.pc = "store" /\ run'.song = Other
          /\ Alike(run', r)
      BY <1>4, <2>4, LoopOrPassAlike
    <3>2. CASE run'.pc = "pick" /\ ~ IsQueueEmpty(queued) /\ ~ InWindow(r.resetAt)
      <4>1. ~ InWindow(resetAt)
        BY <1>5, <3>2 DEF Settled
      <4>2. ~ InWindow(resetAt)'
        BY <1>2, <4>1 DEF InWindow
      <4>3. ~ IsQueueEmpty(queued)'
        BY <1>2, <3>2
      <4>4. LoopRun'
        BY <3>2, <4>2, <4>3 DEF LoopRun, Decided
      <4>5. ~ Single'
        BY <1>2, <2>4 DEF Single
      <4> QED BY <1>8, <2>4, <3>1, <3>2, <4>4, <4>5, ResumeOnce
    <3>3. CASE run'.pc = "store" /\ run'.song = Other
      BY <1>8, <3>1, <3>3, PassOnce
    <3> QED BY <3>1, <3>2, <3>3
  <2> QED BY <1>6, <2>1, <2>2, <2>3, <2>4
<1> QED BY <1>1, <1>2, <1>9, RunOnce

\* A playlist that loops once is picked from with a song queued, and is not reset
\* then.
LEMMA PickAfterResetOnce ==
  ASSUME TypeInv, OnceRun, OnceData, Looping \/ Single, PickAfterReset
  PROVE  OnceRun' /\ OnceData'
<1>1. Fewer
  BY FewerSame DEF PickAfterReset
<1>2. /\ now' = now /\ aired' = aired /\ playedAt' = playedAt /\ resetAt' = resetAt
      /\ queued' = queued /\ mode' = mode /\ run.pc = "pick" /\ ResetToPick
      /\ run' = [run EXCEPT !.pc = "reset to pick", !.at = Present]
  BY DEF PickAfterReset, listVars
<1>3. ~ Looping
  BY <1>2 DEF OnceRun, LoopRun, ResetToPick, Looping
<1>4. run'.pc = "reset to pick" /\ Alike(run', run)
  BY <1>2 DEF TypeInv, RunType, Alike
<1>5. SingleRun' /\ ~ Looping'
  BY <1>2, <1>3, <1>4 DEF OnceRun, SingleRun, Looping
<1>6. Settled(run) /\ InWindow(run.exp)
  BY <1>2, AtWork
<1>7. Settled(run)' /\ InWindow(run.exp)'
  BY <1>2, <1>4, <1>6, SettledStep
<1>8. OnceRun'
  BY <1>4, <1>5, <1>7, ResumeOnce
<1> QED BY <1>1, <1>2, <1>8, RunOnce

\* A song is chosen that is queued and that no run has a record of.
LEMMA ChooseOnce ==
  ASSUME TypeInv, OnceRun, OnceData, Looping \/ Single, disturbed' = {}, Choose
  PROVE  OnceRun' /\ OnceData'
<1>1. Fewer
  BY FewerSame DEF Choose
<1>2. /\ now' = now /\ aired' = aired /\ playedAt' = playedAt /\ resetAt' = resetAt
      /\ queued' = queued /\ mode' = mode /\ run.pc \in {"choose", "pick"}
  BY DEF Choose, listVars
<1>3. Settled(run) /\ InWindow(run.exp) /\ run \in RunType
  BY <1>2, AtWork DEF TypeInv
<1>4. Looping => run.pc = "pick" /\ ~ InWindow(resetAt) /\ ~ IsQueueEmpty(queued)
  BY <1>2 DEF OnceRun, LoopRun
<1>5. Single => playedAt < WinStart
  BY <1>2 DEF OnceRun, SingleRun
<1>6. CASE run' = TryAgain(run)
  <2>1. /\ \/ run'.pc = "pick"
           \/ run'.pc = "store" /\ run'.song = Other
        /\ Alike(run', run)
    BY <1>3, <1>6, TryAgainAlike
  <2>2. Settled(run)' /\ InWindow(run.exp)'
    BY <1>2, <1>3, <2>1, SettledStep
  <2>3. ASSUME run'.pc = "pick" PROVE OnceRun'
    <3>1. Looping' => LoopRun'
      BY <1>2, <1>4, <2>3 DEF LoopRun, Decided, InWindow, Looping
    <3>2. Single' => SingleRun'
      BY <1>2, <1>5, <2>3 DEF SingleRun, Single
    <3> QED BY <2>2, <2>3, <3>1, <3>2, ResumeOnce
  <2>4. OnceRun'
    BY <2>1, <2>2, <2>3, PassOnce
  <2> QED BY <1>1, <1>2, <2>4, RunOnce
<1>7. ASSUME run' # TryAgain(run) PROVE OnceRun'
  <2>1. PICK m \in NextTracks :
          /\ run' = Chosen(m)
          /\ disturbed' = disturbed
               \cup (IF m = run.last THEN {"refused song"} ELSE {})
               \cup (IF m \in run.known THEN {"stale record"} ELSE {})
    BY <1>7 DEF Choose
  <2>2. m # run.last /\ m \notin run.known
    BY <2>1
  <2>3. m \in mode.songs /\ queued[m] /\ m \in Media
    BY NextTracksType, ModeType DEF TypeInv, TypeOK
  <2>4. run' = [[run EXCEPT !.playedAt = run.exp,
                            !.dirty = IF queued[m] /\ m \notin run.known THEN @ \cup {m} ELSE @]
                  EXCEPT !.pc = "store", !.song = m]
    BY <2>1, <2>2 DEF Chosen
  <2>5. /\ run'.pc = "store" /\ run'.song = m /\ run'.dirty = {m} /\ run'.refused = <<>>
        /\ run'.playedAt = run.exp /\ run'.exp = run.exp /\ run'.resetAt = resetAt
    BY <1>3, <2>2, <2>3, <2>4 DEF RunType, Settled
  <2>6. Decided'
    BY <2>3, <2>5 DEF Decided
  <2>7. MemoryInv'
    BY <1>2, <2>3, <2>5, <2>6 DEF MemoryInv
  <2>8. TimeRun'
    BY <1>2, <1>3, <2>5, <2>6 DEF TimeRun, Settled, InWindow
  <2>9. Looping' => LoopRun'
    BY <1>2, <1>4, <2>5 DEF LoopRun, InWindow, Looping
  <2>10. Single' => SingleRun'
    BY <1>2, <1>5, <2>5 DEF SingleRun, Single
  <2> QED BY <2>7, <2>8, <2>9, <2>10 DEF OnceRun
<1> QED BY <1>1, <1>2, <1>6, <1>7, RunOnce

\* A reset queues every song, before it is dated.
LEMMA ResetOnce ==
  ASSUME TypeInv, OnceRun, OnceData, Looping \/ Single, Reset
  PROVE  OnceRun' /\ OnceData'
<1>1. Fewer
  BY FewerSame DEF Reset
<1>2. /\ now' = now /\ aired' = aired /\ playedAt' = playedAt /\ resetAt' = resetAt
      /\ mode' = mode /\ rows' = rows /\ run.pc \in {"reset to loop", "reset to pick"}
      /\ queued' = [m \in mode.songs |-> TRUE]
      /\ run' = [run EXCEPT !.pc = IF run.pc = "reset to loop" THEN "flush to loop"
                                                              ELSE "flush to pick"]
  BY DEF Reset, ResetSongs
<1>3. /\ Alike(run', run) /\ run'.at = run.at
      /\ run'.pc = IF run.pc = "reset to loop" THEN "flush to loop" ELSE "flush to pick"
  BY <1>2 DEF TypeInv, RunType, Alike
<1>4. Settled(run) /\ InWindow(run.exp)
  BY <1>2, AtWork
<1>5. Settled(run)' /\ InWindow(run.exp)'
  BY <1>2, <1>3, <1>4, SettledStep
<1>6. Looping => LoopRun' /\ run.pc = "reset to loop"
  <2>1. ASSUME Looping
        PROVE  /\ run.pc = "reset to loop" /\ ~ HasCued
               /\ run.at = Present \/ (run.at = WinStart - 1 /\ Fresh)
    BY <1>2, <2>1 DEF OnceRun, LoopRun
  <2>2. HasCued' = HasCued /\ Fresh' = Fresh
    BY <1>2 DEF HasCued, Fresh
  <2>3. ASSUME Looping PROVE LoopRun'
    <3>1. run'.pc = "flush to loop" /\ ~ HasCued'
      BY <1>3, <2>1, <2>2, <2>3
    <3>2. run'.at = Present \/ (run'.at = WinStart - 1 /\ Fresh')
      BY <1>3, <2>1, <2>2, <2>3
    <3>3. \A m \in mode'.songs : queued'[m]
      BY <1>2
    <3> QED BY <3>1, <3>2, <3>3 DEF LoopRun, Decided
  <2> QED BY <2>1, <2>3
<1>7. Single => SingleRun' /\ run.pc = "reset to pick"
  <2>1. ASSUME Single PROVE run.pc = "reset to pick" /\ playedAt < WinStart
    BY <1>2, <2>1 DEF OnceRun, SingleRun
  <2>2. ASSUME Single PROVE SingleRun'
    <3>1. run'.pc = "flush to pick" /\ playedAt' < WinStart
      BY <1>2, <1>3, <2>1, <2>2
    <3> QED BY <3>1 DEF SingleRun
  <2> QED BY <2>1, <2>2
<1>8. OnceRun'
  <2>1. (Looping' => LoopRun') /\ (Single' => SingleRun')
    BY <1>2, <1>6, <1>7 DEF Looping, Single
  <2>2. run'.pc \in {"flush to loop", "flush to pick"}
    BY <1>3
  <2> QED BY <1>5, <2>1, <2>2, ResumeOnce
<1>9. Looping => run'.pc = "flush to loop"
  BY <1>3, <1>6
<1>10. now' \in Nat /\ now <= now'
  BY <1>2, TimesType, NoLater
<1>11. OnceData'
  BY <1>1, <1>2, <1>9, <1>10, FewerData
<1> QED BY <1>8, <1>11

\* The date of a reset is in the window, or nothing has been used in it.
LEMMA ResetFlushOnce ==
  ASSUME TypeInv, OnceRun, OnceData, Looping \/ Single, ResetFlush
  PROVE  OnceRun' /\ OnceData'
<1>0. run.pc \in {"flush to loop", "flush to pick"} /\ run \in RunType
  BY DEF ResetFlush, TypeInv
<1>1. Settled(run) /\ InWindow(run.exp)
  BY <1>0, AtWork
<1>2. /\ rows' = rows /\ queued' = queued /\ playedAt' = playedAt
  <2>0. <<>> \in Seq(Row)
    OBVIOUS
  <2>1. Flush(<<>>)
    BY DEF ResetFlush
  <2>2. rows' = rows \o <<>> /\ queued' = queued /\ playedAt' = run.playedAt
    BY <1>1, <2>0, <2>1, PlainFlush DEF Settled
  <2>3. rows \o <<>> = rows
    BY TimesType
  <2> QED BY <1>1, <2>2, <2>3 DEF Settled
<1>3. /\ now' = now /\ aired' = aired /\ mode' = mode
      /\ resetAt' = IF run.at = Present THEN now ELSE run.at
  BY DEF ResetFlush
<1>4. resetAt' \in Nat
  BY ResetFlushType DEF TypeInv, TypeOK
<1>5. PICK f : f = Flushed
  OBVIOUS
<1>6. f \in RunType /\ Alike(f, run)
  BY <1>0, <1>1, <1>5, FlushedType DEF Flushed, RunType, Alike, Settled
<1>7. PICK r : r = [f EXCEPT !.resetAt = resetAt']
  OBVIOUS
<1>8. /\ r \in RunType /\ r.dirty = run.dirty /\ r.refused = run.refused /\ r.exp = run.exp
      /\ r.playedAt = run.playedAt /\ r.resetAt = resetAt'
  BY <1>4, <1>6, <1>7 DEF RunType, Alike
<1>9. run' = IF run.pc = "flush to loop" THEN LoopOrPass(r, FALSE) ELSE [r EXCEPT !.pc = "choose"]
  BY <1>5, <1>7 DEF ResetFlush
<1>10. ASSUME Alike(run', r) PROVE Settled(run)' /\ InWindow(run.exp)'
  BY <1>1, <1>2, <1>3, <1>8, <1>10 DEF Settled, Alike, InWindow
<1>11. HasCued' = HasCued /\ Fresh' = Fresh /\ \A m : Waiting(m)' = Waiting(m)
  BY <1>2, <1>3 DEF HasCued, Fresh, Waiting
<1>12. TimeData'
  BY <1>2, <1>3, <1>11 DEF OnceData, TimeData, InWindow
<1>13. CASE Looping
  <2>1. /\ run.pc = "flush to loop" /\ ~ HasCued /\ \A m \in mode.songs : queued[m]
        /\ run.at = Present \/ (run.at = WinStart - 1 /\ Fresh)
    BY <1>0, <1>13 DEF OnceRun, LoopRun
  <2>2. /\ \/ run'.pc = "pick" /\ ~ InWindow(resetAt')
           \/ run'.pc = "store" /\ run'.song = Other
        /\ Alike(run', r)
    BY <1>8, <1>9, <2>1, LoopOrPassAlike
  <2>3. ~ Single' /\ ~ Single
    BY <1>3, <1>13 DEF Single, Looping
  <2>4. OnceRun'
    <3>1. CASE run'.pc = "pick" /\ ~ InWindow(resetAt')
      <4>1. ~ IsQueueEmpty(queued)'
        <5>1. DOMAIN queued' = mode.songs /\ mode.songs # {}
          BY <1>2, ModesAssumption DEF TypeInv, TypeOK
        <5> QED BY <1>2, <2>1, <5>1 DEF IsQueueEmpty
      <4>2. LoopRun'
        BY <3>1, <4>1 DEF LoopRun, Decided, InWindow
      <4> QED BY <1>10, <2>2, <2>3, <3>1, <4>2, ResumeOnce
    <3>2. CASE run'.pc = "store" /\ run'.song = Other
      BY <1>10, <2>2, <3>2, PassOnce
    <3> QED BY <2>2, <3>1, <3>2
  <2>5. InWindow(resetAt') \/ \A m \in Media : aired[m] = 0
    <3>1. CASE run.at = Present
      <4>1. resetAt' = now /\ now <= WinEnd
        BY <1>1, <1>3, <3>1, TimesType DEF Settled, InWindow, TypeInv, RunType
      <4>2. now < WinStart => \A m \in Media : aired[m] = 0
        BY DEF OnceData, TimeData
      <4> QED BY <4>1, <4>2, TimesType DEF InWindow
    <3>2. CASE run.at # Present
      BY <2>1, <3>2 DEF Fresh
    <3> QED BY <3>1, <3>2
  <2>6. LoopData'
    <3>1. \A m \in mode.songs : ~ Waiting(m) /\ m \in Media
      BY <2>1, ModeType DEF HasCued, Waiting, TypeInv, TypeOK
    <3>2. LoopData
      BY <1>13 DEF OnceData
    <3>3. Unique'
      BY <1>2, <3>2 DEF LoopData, Unique
    <3>4. \A m \in mode.songs : InWindow(resetAt') \/ (~ Waiting(m)' /\ aired'[m] = 0)
      BY <1>3, <1>11, <2>5, <3>1
    <3>5. \A m \in Media : aired'[m] <= 1 /\ (Waiting(m)' => aired'[m] = 0)
      BY <1>3, <1>11, <3>2 DEF LoopData
    <3> QED BY <1>3, <3>3, <3>4, <3>5 DEF LoopData, InWindow
  <2> QED BY <1>12, <2>3, <2>4, <2>6 DEF OnceData
<1>14. CASE Single
  <2>1. run.pc = "flush to pick" /\ playedAt < WinStart
    BY <1>0, <1>14 DEF OnceRun, SingleRun
  <2>2. run'.pc = "choose" /\ Alike(run', r)
    BY <1>8, <1>9, <2>1 DEF RunType, Alike
  <2>3. ~ Looping' /\ SingleRun'
    BY <1>2, <1>3, <1>14, <2>1, <2>2 DEF Looping, Single, SingleRun
  <2>4. OnceRun'
    BY <1>10, <2>2, <2>3, ResumeOnce
  <2>5. SingleData'
    BY <1>2, <1>3, <1>11, <1>14 DEF OnceData, SingleData, Sole
  <2> QED BY <1>12, <2>3, <2>4, <2>5 DEF OnceData
<1> QED BY <1>13, <1>14

-----------------------------------------------------------------------------
\* The row of the song that was decided on is the first of its song since the
\* last reset; another row is none of the playlist's.
LEMMA StoreOnce ==
  ASSUME TypeInv, OnceRun, OnceData, Looping \/ Single, Store
  PROVE  OnceRun' /\ OnceData'
<1>0. run.pc = "store" /\ run \in RunType /\ run.song \in Media \cup {Other}
  BY DEF Store, TypeInv
<1>1. /\ run.refused = <<>> /\ run.resetAt = resetAt
      /\ now <= WinEnd \/ WinEnd < run.exp
      /\ ~ Decided => run.dirty = {} /\ run.playedAt = playedAt
      /\ Decided => /\ run.dirty = {run.song} /\ run.playedAt = run.exp
                    /\ run.song \in mode.songs /\ queued[run.song]
                    /\ InWindow(run.exp)
  BY <1>0 DEF OnceRun, MemoryInv, TimeRun
<1>2. PICK row : row = [song |-> run.song, exp |-> run.exp]
  OBVIOUS
<1>3. row \in Row /\ row.song = run.song /\ Flush(<<row>>) /\ <<row>> \in Seq(Row)
  BY <1>0, <1>2 DEF Store, RunType, Row
<1>4. /\ rows' = rows \o <<row>>
      /\ \A m \in mode.songs : queued'[m] = (queued[m] /\ m \notin run.dirty)
      /\ run.dirty = {} => queued' = queued
      /\ playedAt' = run.playedAt
  BY <1>1, <1>3, PlainFlush
<1>5. /\ now' = now /\ aired' = aired /\ resetAt' = resetAt /\ mode' = mode
  BY DEF Store
<1>6. PICK l : l = Len(rows) + 1
  OBVIOUS
<1>7. /\ DOMAIN rows' = DOMAIN rows \cup {l} /\ l \notin DOMAIN rows
      /\ rows'[l].song = run.song
      /\ \A i \in DOMAIN rows : rows'[i] = rows[i]
  BY <1>3, <1>4, <1>6, OneMore
<1>8. PICK f : f = Flushed
  OBVIOUS
<1>9. f \in RunType /\ f.dirty = {} /\ f.refused = <<>> /\ f.exp = run.exp
      /\ f.playedAt = run.playedAt /\ f.resetAt = run.resetAt
  BY <1>0, <1>8, FlushedType DEF Flushed, RunType
<1>10. OnceRun'
  <2>1. CASE run.len + 1 >= QueueLength
    <3>1. run' = Idle
      BY <2>1 DEF Store
    <3> QED BY <3>1, BeginOnce DEF Idle
  <2>2. CASE ~ (run.len + 1 >= QueueLength)
    <3>1. run' = [f EXCEPT !.pc = "consider", !.exp = f.exp + 1, !.len = f.len + 1,
                           !.last = run.song]
      BY <1>8, <2>2 DEF Store, Flushed
    <3>2. /\ run'.pc = "consider" /\ run'.dirty = {} /\ run'.refused = <<>>
          /\ run'.playedAt = playedAt' /\ run'.resetAt = resetAt'
          /\ run'.exp = run.exp + 1
      BY <1>1, <1>4, <1>5, <1>9, <3>1 DEF RunType
    <3>3. run.exp \in Nat
      BY <1>0 DEF RunType
    <3>4. WinEnd < run.exp => WinEnd < run'.exp
      BY <3>2, <3>3, TimesType
    <3>5. now' <= WinEnd \/ WinEnd < run'.exp
      BY <1>1, <1>5, <3>4
    <3> QED BY <3>2, <3>5, BeginOnce
  <2> QED BY <2>1, <2>2
<1>11. CASE ~ Decided
  <2>1. run.song \notin Media
    BY <1>0, <1>11 DEF Decided
  <2>2. /\ HasCued' = HasCued
        /\ \A m \in Media : Waiting(m)' = Waiting(m)
        /\ Unique => Unique'
        /\ Sole => Sole'
    BY <1>7, <2>1 DEF HasCued, Waiting, Unique, Sole
  <2>3. queued' = queued /\ playedAt' = playedAt
    BY <1>1, <1>4, <1>11
  <2>4. Fresh' = Fresh
    BY <1>5, <2>2 DEF Fresh
  <2>5. TimeData'
    BY <1>5, <2>3, <2>4 DEF OnceData, TimeData, InWindow
  <2>6. ASSUME Looping PROVE LoopData'
    <3>1. LoopData
      BY <2>6 DEF OnceData
    <3>2. \A m \in mode.songs : m \in Media
      BY ModeType DEF TypeInv, TypeOK
    <3> QED BY <1>0, <1>5, <2>2, <2>3, <3>1, <3>2 DEF LoopData, InWindow
  <2>7. ASSUME Single PROVE SingleData'
    BY <1>5, <2>2, <2>7 DEF OnceData, SingleData
  <2> QED BY <1>5, <1>10, <2>5, <2>6, <2>7 DEF OnceData, Looping, Single
<1>12. CASE Decided
  <2>1. run.song \in Media
    BY <1>12 DEF Decided
  <2>2. HasCued' /\ ~ Fresh'
    BY <1>7, <2>1 DEF HasCued, Fresh
  <2>3. InWindow(playedAt')
    BY <1>1, <1>4, <1>12
  <2>4. TimeData'
    BY <1>5, <2>3 DEF OnceData, TimeData, InWindow
  <2>5. ASSUME Looping PROVE LoopData'
    <3>1. LoopData /\ ~ InWindow(resetAt)
      BY <1>12, <2>5 DEF OnceRun, OnceData, LoopRun
    <3>2. ~ Waiting(run.song) /\ aired[run.song] = 0
      BY <1>0, <1>1, <1>12, <3>1 DEF LoopData
    <3>3. Unique'
      BY <1>7, <3>1, <3>2 DEF LoopData, Unique, Waiting
    <3>4. \A m : Waiting(m)' => Waiting(m) \/ m = run.song
      BY <1>7 DEF Waiting
    <3>5. \A m \in Media : aired'[m] <= 1 /\ (Waiting(m)' => aired'[m] = 0)
      BY <1>5, <3>1, <3>2, <3>4 DEF LoopData
    <3>6. ASSUME NEW m \in mode.songs, queued'[m] PROVE ~ Waiting(m)' /\ aired'[m] = 0
      <4>1. queued[m] /\ m # run.song
        BY <1>1, <1>4, <1>12, <3>6
      <4>2. ~ Waiting(m) /\ aired[m] = 0
        BY <1>0, <3>1, <4>1 DEF LoopData
      <4> QED BY <1>5, <3>4, <4>1, <4>2
    <3> QED BY <1>5, <3>3, <3>5, <3>6 DEF LoopData
  <2>6. ASSUME Single PROVE SingleData'
    <3>1. playedAt < WinStart
      BY <1>12, <2>6 DEF OnceRun, SingleRun
    <3>2. Fresh
      BY <3>1, TimesType DEF OnceData, TimeData, InWindow
    <3>3. \A i \in DOMAIN rows : rows[i].song \notin Media
      BY <3>2 DEF Fresh, HasCued
    <3>4. Sole'
      BY <1>7, <3>3 DEF Sole
    <3>5. \A m \in Media : aired'[m] = 0
      BY <1>5, <3>2 DEF Fresh
    <3> QED BY <3>4, <3>5 DEF SingleData
  <2> QED BY <1>5, <1>10, <2>4, <2>5, <2>6 DEF OnceData, Looping, Single
<1> QED BY <1>11, <1>12

\* Every step keeps the invariant.
LEMMA OnceStep == TypeInv /\ TypeInv' /\ OnceInv /\ [Next]_vars => OnceInv'
<1> SUFFICES ASSUME TypeInv, TypeInv', OnceInv, [Next]_vars PROVE OnceInv'
  OBVIOUS
<1>1. aired' \in [Media -> Nat]
  <2>1. CASE RowStarts
    BY <2>1 DEF RowStarts, OnceInv
  <2>2. CASE ~ RowStarts
    BY <2>2 DEF OnceInv, Next, Start, Consider, Reset, ResetFlush, PickAfterReset, Choose,
                Store, Crash, Tick, OpSkip, OpDelete, OpReset, vars
  <2> QED BY <2>1, <2>2
<1> SUFFICES ASSUME Undisturbed' PROVE OnceRun' /\ OnceData'
  BY <1>1 DEF OnceInv
<1>2. Undisturbed /\ mode' = mode
  BY UndisturbedStep
<1>3. /\ OnceRun /\ OnceData /\ (Looping \/ Single)
      /\ disturbed = {} /\ disturbed' = {} /\ aired \in [Media -> Nat]
  BY <1>2 DEF OnceInv, Undisturbed
<1>4. CASE Start
  BY <1>3, <1>4, StartOnce
<1>5. CASE Consider
  BY <1>3, <1>5, ConsiderOnce
<1>6. CASE Reset
  BY <1>3, <1>6, ResetOnce
<1>7. CASE ResetFlush
  BY <1>3, <1>7, ResetFlushOnce
<1>8. CASE PickAfterReset
  BY <1>3, <1>8, PickAfterResetOnce
<1>9. CASE Choose
  BY <1>3, <1>9, ChooseOnce
<1>10. CASE Store
  BY <1>3, <1>10, StoreOnce
<1>11. CASE Crash
  BY <1>3, <1>11, CrashOnce
<1>12. CASE Tick
  BY <1>3, <1>12, TickOnce
<1>13. CASE RowStarts
  BY <1>3, <1>13, RowStartsOnce
<1>14. CASE OpSkip \/ OpDelete
  BY <1>3, <1>14, OperatorOnce
<1>15. CASE OpReset
  BY <1>3, <1>15 DEF OpReset
<1>16. CASE UNCHANGED vars
  <2>1. Fewer
    BY <1>16, FewerSame DEF vars
  <2>2. /\ now' = now /\ run' = run /\ aired' = aired /\ playedAt' = playedAt
        /\ resetAt' = resetAt /\ queued' = queued /\ mode' = mode
    BY <1>16 DEF vars
  <2>3. OnceRun'
    BY <1>3, <2>1, <2>2, SameRun DEF OnceRun, TimeRun
  <2>4. now' \in Nat /\ now <= now'
    BY <2>2, TimesType, NoLater
  <2>5. OnceData'
    BY <1>3, <2>1, <2>2, <2>4, FewerData
  <2> QED BY <2>3, <2>5
<1> QED BY <1>4, <1>5, <1>6, <1>7, <1>8, <1>9, <1>10, <1>11, <1>12, <1>13, <1>14, <1>15, <1>16
        DEF Next

LEMMA InitOnce == Init => OnceInv
<1> SUFFICES ASSUME Init PROVE OnceInv
  OBVIOUS
<1>1. rows = <<>> /\ run = Idle /\ aired = [m \in Media |-> 0]
  BY DEF Init
<1>2. ~ HasCued /\ Unique /\ Sole /\ \A m : ~ Waiting(m)
  BY <1>1 DEF HasCued, Unique, Sole, Waiting
<1>3. run.pc = "idle" /\ run.dirty = {} /\ run.refused = <<>> /\ ~ Decided
  BY <1>1 DEF Idle, Decided
<1>4. OnceRun
  BY <1>3 DEF OnceRun, MemoryInv, TimeRun, LoopRun, SingleRun
<1>5. \A m \in mode.songs : m \in Media
  BY ModeType DEF Init
<1>6. \A m \in Media : aired[m] = 0
  BY <1>1
<1>7. OnceData
  <2>1. TimeData
    BY <1>2, <1>6 DEF TimeData, Fresh
  <2>2. LoopData
    <3>1. \A m \in mode.songs : ~ Waiting(m) /\ aired[m] = 0
      BY <1>2, <1>5, <1>6
    <3>2. \A m \in Media : aired[m] <= 1 /\ (Waiting(m) => aired[m] = 0)
      <4> TAKE m \in Media
      <4>1. aired[m] = 0
        BY <1>6
      <4> QED BY <4>1
    <3> QED BY <1>2, <3>1, <3>2 DEF LoopData
  <2>3. SingleData
    <3>1. \A m \in Media : aired[m] <= 1
      <4> TAKE m \in Media
      <4>1. aired[m] = 0
        BY <1>6
      <4> QED BY <4>1
    <3> QED BY <1>2, <1>6, <3>1 DEF SingleData
  <2> QED BY <2>1, <2>2, <2>3 DEF OnceData
<1> QED BY <1>1, <1>4, <1>7 DEF OnceInv

\* As long as nothing disturbs it, in its window a playlist that loops once plays
\* each of its songs at most once, and a single-track playlist plays one song: for
\* every playlist, window and length of the queue, whatever runs are killed, songs
\* skipped and rows deleted.
THEOREM LoopsOnceCorrect == Spec => []LoopsOnce
<1>1. OnceInv => LoopsOnce
  <2> SUFFICES ASSUME OnceInv, disturbed = {}
               PROVE  /\ Looping => \A m \in Media : aired[m] <= 1
                      /\ Single => \A m, k \in Media :
                                     aired[m] + (IF k = m THEN 0 ELSE aired[k]) <= 1
    BY DEF LoopsOnce, Looping, Single
  <2>1. Looping => LoopData
    BY DEF OnceInv, OnceData, Undisturbed
  <2>2. Single => SingleData
    BY DEF OnceInv, OnceData, Undisturbed
  <2>3. ASSUME Single, NEW m \in Media, NEW k \in Media
        PROVE  aired[m] + (IF k = m THEN 0 ELSE aired[k]) <= 1
    <3>1. /\ aired[m] \in Nat /\ aired[k] \in Nat /\ aired[m] <= 1 /\ aired[k] <= 1
          /\ aired[m] # 0 /\ aired[k] # 0 => m = k
      BY <2>2, <2>3 DEF OnceInv, SingleData
    <3> QED BY <3>1
  <2> QED BY <2>1, <2>3 DEF LoopData
<1> QED BY <1>1, InitType, StepType, InitOnce, OnceStep, PTL DEF Spec
=============================================================================
