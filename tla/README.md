# AmbientCast: a TLA+ development

AmbientCast is a web radio suite: a PHP application (`src/src/`) that writes the
configuration of Liquidsoap and Icecast, picks the songs a station plays,
answers Liquidsoap's calls and keeps the history, and a Vue front end
(`src/frontend/`) with which stations are run and DJs go live. This directory
models the parts in which several actors work on shared state: processes on the
database, a page and the server behind it, Liquidsoap and its callbacks. TLC
checks small instances; TLAPS proves the main safety properties for all values
of the constants. `PROJECT.json` lists, for every definition, the source lines
it stands for, for every property a mutant of the code it catches, and the
hazards the properties are for.

## Inventory of the system

| Component | State | Operations | Hard part | Model |
|---|---|---|---|---|
| Station queue (`Entity/StationQueue`, its repository) | rows: song, `timestamp_cued`, `sent_to_autodj`, `is_played` | next to send, track played, clear, cleanup | no lock or transaction around a read and the write that follows | `StationQueue`, `AutoDjQueue` |
| Queue builder (`Radio/AutoDJ/Queue`) | rows read, next cue time, count | re-time, flush, fill | acts on a stale read; killed midway | `AutoDjQueue` |
| Song selection (`Radio/AutoDJ/QueueBuilder`) | - | choose the next song | persists before it is refused; identity map | `AutoDjQueue`, `Rotation` |
| Playlist rotation (`StationPlaylistMediaRepository`), duplicate prevention, scheduler | `is_queued`, weights, reset times | reset, queue, play | built ahead of the schedule; reset torn from its flush | `PlaylistQueue`, `Rotation` |
| Next-song and feedback endpoints (`Annotations`, `FeedbackCommand`) | row read by a worker, current song | mark sent, match, save history | time limit and retry; lost, late, repeated reports | `AutoDjQueue` |
| Liquidsoap script (`Radio/Backend/Liquidsoap/ConfigWriter`) | prefetched track, track on air, live DJ | fetch, play, interrupt, authenticate, report | threads, fallbacks, calls given up | `AutoDjQueue`, `LiveSession` |
| Queue and media pages' actions | - | delete, clear, rebuild, queue next, play now | run at any time, without the builder's lock | `AutoDjQueue` |
| Song requests (`StationRequestRepository`, `CheckRequestsTask`) | pending requests | submit, pick, push, mark | check then insert; push then mark | `SongRequests` |
| Sync runner and locks (`Console/Command/Sync`) | lock with a life time | acquire, release, expire | outlived by its owner | `SyncLock` |
| Live DJ sessions (`StationStreamerRepository`, streamer tasks) | live flag, streamer, broadcasts | connect, disconnect, reactivate | a late call of an earlier session | `StationStreamer`, `LiveSession` |
| WebDJ page (`Public/WebDJ`, `webcaster/webcast.js`) | socket, encoder, streaming flag | start, stop | events of an earlier socket | `WebDj`, `LiveSession` |
| Chunked upload (`Service/Flow.php`, `FlowUpload.vue`) | chunk directory, widget's chunks | send, retry, assemble | parallel chunks, shared directory, lost answers | `ChunkStore`, `ChunkUpload` |
| List pages (`Common/DataTable.vue`), list endpoint (`Files/ListAction.php`) | table, cache of lists | load, relist, navigate, filter | overlapping loads, late cache writes | `DataTable`, `MediaList`, `MediaPage` |
| Media edit modal and toolbar (`Stations/Media`) | form, selection | open, save, delete | answers of an earlier opening | `MediaPage` |
| Message queue, webhooks, now playing | last sent time, unique messages | dispatch | message dropped while one is handled | - |
| Station configuration (`Radio/Configuration.php`) | has_started, needs_restart | write, reload, stop | flags against the real process | - |
| Media library, accounts, backup, certificates, analytics, forms | request-local, files | - | mostly I/O | - |

How they interact: the sync runner starts the builder and the request task under
a lock each; the builder asks the song selection through the `BuildQueue` event
and writes queue rows; Liquidsoap fetches rows from the next-song endpoint and
reports what it plays to the feedback endpoint, DJs' sessions to `djon` and
`djoff`; operators change the same tables from their pages; pages talk to the
server by requests answered late, in any order, or not at all.

What makes each correct: the **queue** must not play a row twice, bring a
consumed row back, or grow without limit; the **endpoints** hand a row out once
and credit it once; a **rotation** keeps its order, loses no song and loops once
where it is told so; a **request** is handed over once or stays pending; the
**station** names the DJ on the air; a **page** shows and changes what its user
sees; an **upload** reported as successful is a file that is stored.

## Modules

Modules without variables (`StationQueue`, `PlaylistQueue`, `DataTable`) hold
queries, statements and pure functions; modules with the state of one component
(`SyncLock`, `ChunkStore`, `MediaList`, `StationStreamer`, `WebDj`) are
EXTENDed by the one that adds its clients. `MC...` modules give constants values;
`...Proofs` modules hold theorems. A definition with a name like `X_Something`
and a comment `BUG variant` before an `X` is a plausible mistake in `X`; nothing
uses it, and the property it would break is named in `PROJECT.json`.

### Queue: `StationQueue`, `AutoDjQueue`, `RowLifecycle`

A step is one database statement or flush.

| Actor | Variables | Actions | Code |
|---|---|---|---|
| builders | `builder` | `BuildRead` `BuildFlush` `BuildAdd` `BuildAddNext` `BuildGiveUp` `BuildDone` `BuildCrash` | `Queue::buildQueue` |
| next-song workers | `fetcher`, `waiting` | `FetchRead` `FetchSend` `FetchTimeout` `FetchFail` | `Annotations`, `ambientcast_api_call` |
| Liquidsoap | `ready`, `onAir`, `over`, `reports` | `StartTrack` `OverEnds` `LiveBegins` | `ConfigWriter` |
| feedback workers | `feedback`, `current` | `FeedbackRead` `FeedbackTrack` `FeedbackSave` `FeedbackFail` | `FeedbackCommand` |
| operators, cleanup | `manual`, `ops` | `OpDelete` `OpClearUpcoming` `OpClearUnplayed` `OpUnassign` `OpRebuild` `OpQueueRead` `OpQueueWrite` `OpPlayNow` `Cleanup` | pages, tasks |

`delivered`, `entries`, the row field `picked` and the builder's field `read`
(the cue times it has read) are history.
`RowLifecycle` is the abstract specification (a row moves only forward through
none, upcoming, sent, played, removed) that `AutoDjQueue` implements.

Abstractions: which song is picked is any song `BuildQueue::setNextSongs`
accepts, a merged playlist (`Merged`) whole; refused songs (`Rejected`) are
stored by the next flush, as they are persisted before they are refused. Time is
in whole seconds. `FetchSend` writes the cue time even when it equals the one
read. An answer Liquidsoap cannot resolve looks like a lost answer followed by
`FetchSend`. `OpQueueWrite` flushes all songs at once (the code: groups of 25).
`OpPlayNow` also stands for `QueueInterruptingTracks` with one row. A station
with the AutoDJ queue enabled is assumed. Deletions that cascade to queue rows
are `OpDelete` steps.

### Rotation: `PlaylistQueue`, `Rotation`

The part `AutoDjQueue` leaves open: which song of a playlist is queued. One
playlist, possibly scheduled for a window, beside a general rotation (`Other`).

- `Start`: `buildQueue` reads and re-times. `Consider`: the scheduler's checks
  (`shouldPlaylistLoopNow`, play single track) for the expected play time.
  `Reset` and `ResetFlush`: `resetQueue`'s UPDATE and the flush after it.
  `PickAfterReset`, `Choose`: the queue by weight and `preventDuplicates`, with
  its reset and second attempt. `Store`: the flush of the row and the song's
  mark. `Crash`, `Tick`, `RowStarts`, `OpSkip`, `OpDelete`, `OpReset`: the rest.
- The run's memory includes Doctrine's identity map: a record it changed is
  not read again, and changing it back is nothing to write.
- Abstractions: one builder, under the lock; every song lasts one unit; a
  run's re-timing is one step; the songs of the playlist are not edited; the general
  rotation is looked at after the playlist and never refused; random order,
  which keeps no rotation, is left out; titles and artists are the relation
  `Similar`; of the played rows the latest time per song is kept; refused rows
  are placed before the waiting rows, or after the first one when it may have
  been sent. `disturbed` (history) says what the schedule makes no provision
  for: rows that play early, a slow run, a torn reset, a reset by hand, a refused
  song, a song chosen again by the run that holds its record.
- A run may begin with any part of the rotation used up (`Init`).

### Requests: `SyncLock`, `SongRequests`

`Submit`, `SubmitChecks`, `SubmitInsert`: the checks and the insertion of a
listener's request, interleaving with others'. `RunnerStarts`, `DebugStarts`:
a run of the task with or without its lock. `PickRequest`, `FindRow`,
`CreateRow`, `isQueueEmpty`, `enqueue`, `MarkPlayed`,
`StoreAndMark`: `CheckRequestsTask` for manual
AutoDJ, `QueueBuilder::getNextSongFromRequests` for the others. `RunDies`,
`RunnerDies`, `LockLapses`, `LockOutlived`: failures. `CommandLost`: a command
to Liquidsoap whose connection breaks. The code checks neither the write nor the
answer, so that a push may be lost and its request marked nevertheless (history:
`dropped`), and an occupied queue may be taken for empty. `PlayRequest` and
`PlayOther` (the rotation, a DJ) store history entries; each blocks its track and
any tracks that share its title or artist (`heard`). Ages count ticks up to
`MaxAge`. Checks that read no shared state (settings, crawlers, blocklist) come
first in the code and are left out.

### Live: `StationStreamer`, `WebDj`, `LiveSession`

`StationStreamer`: the station's fields and the handlers of `djon` and `djoff`,
which read when they begin and flush what differs from what they read. `WebDj`:
the page's socket and encoder. `LiveSession` joins them through the harbor:
`SocketOpens`, `dj_auth`, `live_connected`, `live_disconnected`, `CallReturns`,
and the failures `CallGivenUp` (after 5 s; its handler goes on), `CallLost`,
`ConnectionDrops`, `LiquidsoapRestarts`. `disconnectStreamer` is three steps, as in
the code: `DisconnectReads` the station, `DisconnectFlushes` the deactivation of
the streamer read, `DisconnectStops` Liquidsoap's input; or `DisconnectFails`
before it is through. External, from how the code uses them:
WebSocket's open event precedes the hello and the authentication; the harbor's
mount is free again after `on_disconnect` returns; the harbor drops a silent
source. The disconnect timeout is taken as greater than zero. The broadcast
source password, unknown streamers and recordings are left out.

### Upload: `Transfer`, `ChunkStore`, `ChunkUpload`

`ChunkStore`: one chunk directory and the file operations of a chunk's request;
workers interleave between them. `ChunkUpload`: the widgets, with Flow.js as
`FlowUpload.vue` configures it (external: chunks in parallel, a chunk whose
answer is lost or not a success is repeated, at most `MaxChunkRetries` times).
`ChunkSuccess` includes what the success handler does with the answer: only the
last chunk's is JSON, so that a file whose last processed answer is another
chunk's is shown as uploaded and its page never lists again (`unheard`).
`HandlerFails` is every failure of a handler: a full storage before or after the
assembly, a part PHP takes for empty ("0" or nothing), a failing file or database
operation, a killed worker.
Two uploads of one name and size share the directory. `Transfer` is the
abstract promise: success is reported only for a file that is stored.

### Media page: `DataTable`, `MediaList`, `MediaPage`

`DataTable`: the table as functions on its record; BootstrapVue (external) never
has two loads of a table under way and remembers one that was asked for
meanwhile. `MediaList`: the server's list, cached per directory and search phrase,
read and stored in two steps. `MediaPage`: table, edit modal, delete question,
another page's lists, changes by others; answers late, in any order, failing,
or missing. A file's data is the version of its record.

## Runs

Bounds are guards, named in each module's CONSTANTS. Deadlock is checked except
in `ChunkUpload`, `MediaPage` and `LiveSession` (and the finding about uploads),
where everything may be finished and the users' steps used up.

| Run | Question | Bounds |
|---|---|---|
| `QueueCore` | builder, two overlapping next-song workers, feedback, crashes and timeouts: types, delivery, entries, lifecycle | 3 rows, clock 1..2 |
| `QueueOperators` | operators and cleanup between the statements of a builder and a worker, refused songs: the queue's bound | 3 rows, clock 1..2, 1 operator step |
| `QueueInterruptions` | DJs and interrupting songs, repeated and reordered reports, a merged playlist: entries | 2 rows, 2 interruptions, 2 reports |
| `QueueRebuild` | a second builder without the lock, operators who queue and delete: the queue's bound, the order of the rows a builder has read | 5 rows, 2 operator steps |
| `Rotation` | the order and the loops of a playlist in every schedule and order the model has | playlists of 2 and 3 songs, queue of 2, window of 3 in a clock of 5, 1 operator step |
| `SongRequests` | submissions and overlapping, failing or killed runs | 1 track, a member, a guest and the operator, 2 requests, 2 runs, 1 failure |
| `LiveSession` | sessions of two DJs from page to database and back | 2 DJs, 2 connections, 1 failure |
| `ChunkUpload` | two uploads of one identifier | 2 chunks, 3 retries, 1 lost message, failing handler or overlap |
| `MediaPage` | the media page, whatever comes late | 2 files, 2 directories, 1 filter, 3 user steps, 2 troubles |
| `FindingSent`, `FindingUpload`, `FindingLoopOnce` | see Findings | as small as the counterexample allows |

Why these bounds are enough for the cases that matter. Queue: songs of 2 and 3
seconds with a crossfade of 1, so that a re-timing moves a row either way; three
rows are a sent, an upcoming and a new one; two seconds let a statement fall
before or after a tick; two workers are a late one beside a retry; five rows let
both builders fill the queue in turn. Rotation: three songs, two of them similar,
are needed for a rotation to be used up, reset and blocked by duplicate
prevention; a queue of two is built ahead across both ends of the window.
Requests: two requests of one track and two runs are a retry beside the first
attempt; every kind of failure is one step, and one is allowed so that what
follows from it can be told; that failures and requests end is what `RequestSettles`
presumes, as an operator who queues without end would put every other request off.
Sessions: two connections are a session and the
one whose calls it disturbs. Uploads: with two chunks the last may overtake the
first, and one lost answer makes either be repeated. Media page: three user
steps open, close and reopen the modal, or relist during a load.

### Properties

Each is stated in a comment above its definition.

- Queue: `DeliveredOnce`, `OneEntryPerRow` (for feedback handlers that do not
  overlap), `RowsMoveForward` (refinement of `RowLifecycle`), `PickedBound` (the
  builders' own unsent rows stay within the configured length per builder, up to
  the length of a merged playlist), `RetimingKeepsOrder` (a flush keeps the order
  of the rows that are still cued as its builder read them, whatever was sent,
  deleted, queued or added meanwhile; it says nothing of rows queued or re-timed in
  between; its run has no next-song worker, and adding it to the other queue runs,
  which have them, gives no violation either).
- Rotation: `LoopsOnce` (a schedule that loops once plays no song twice in one
  window, a single-track one plays one song, as long as nothing is `disturbed`;
  see the finding for shuffled playlists that avoid duplicates), `NoneIsLost` (a
  song leaves the rotation only with a row in the queue), `OrderIsFollowed` (each
  song stored follows the one stored before it in the order, for queues no longer
  than the playlist).
- Requests: `PlayedWasPlaced` (unless Liquidsoap did not take the push),
  `PlacedOnce`, `OneRowPerRequest`, `LockedRunsAlone`, `OnePendingPerTrack`, and
  liveness `RequestSettles` (unless plays of its song, title or artist keep
  blocking a request).
- Sessions: `StationIsRight`, `SessionOfItsDj`, `ShownIsConnected`, `OpenIsShown`,
  `DeactivatesTheLive` (of the DJ who was live when the station was read), and
  liveness `PageLearns`.
- Uploads: `NoForeignParts`, `StoredOnce` and `FailsFirstByOvertaking` (while
  nothing is lost, no handler fails and uploads do not overlap), `SuccessIsListed`
  (unless an empty answer came last), `ImplementsTransfer` (refinement), and
  liveness `UploadEnds`.
- Media page: `IdleShowsView`, `RelistShowsChanges`, `DeletesWhatWasAsked`,
  `RecordsKeepTheirData`, and liveness `TableSettles`, `ModalSettles`.

Several of these carry an exception ("unless runs crossed", "except after trouble
until the next undisturbed session"). An exception is a history variable set by
the one step that does the harm, so the property says what the code keeps
without that step, and the exception is a weakness listed below. A hazard that
consists of such an exception names no property in `PROJECT.json`: the property
does not catch it, the models show that it happens.

### Fairness

Weak fairness only, and only of machines: nobody has to act, and nothing has to
be lost. `ChunkUpload`: PHP workers finish their requests, answers that are not
lost arrive, queued handlers of the browser run. `MediaPage`: requests are
served and answered. `SongRequests`: cron starts the runner each minute, a run
that began goes on (or its lock lapses), Liquidsoap plays what it was given, time
passes. `LiveSession`: sockets open and close, the harbor authenticates and
drops silent sources, calls return or are given up, handlers end. The queue and
`Rotation` have safety properties only: that the queue is refilled before
Liquidsoap runs dry is a matter of durations.

### Findings

- `FindingSent`: `trackPlayed` marks as sent and played every unplayed row cued
  before the row that started, including rows no call has fetched; a row sent
  late is cued anew, after such a row. The API documents the flag as "whether the
  song has been sent to the AutoDJ".
- `FindingUpload`: only the last chunk's request assembles the file. When it
  overtakes another chunk its attempts are used up: all parts are on the server,
  none was lost, and no file is made, where `Flow.php` says one is.
- `FindingLoopOnce`: with the settings a new playlist has, duplicate prevention
  resets the rotation with a time before the window the queue is being built for,
  and a schedule that plays "only once" loops again.

### Known weaknesses of the code

Met while modelling; behind an exception of a property, or outside the models,
with nothing in the repository that says otherwise.

- Queue: rows queued by hand "to play next", or added or re-timed by another
  builder, may be overtaken by a re-timing whose read was earlier; a song refused as a repetition is stored by the next
  flush all the same; overlapping feedback handlers of one song store two history entries; until
  the second flush the rows of a merged playlist have no order.
- Rotation: a run that has used up the rotation and reset it does not write the
  marks of songs it has marked before (stale identity map): a song may be queued
  several times, and a sequential playlist shorter than the queue loses its
  order. Loop once loops again when rows start before the window, a reset is torn
  or a song is refused (its rows are stored nevertheless); it stops early with
  duplicate prevention, and is ignored for random order.
- Requests: overlapping submissions make two pending requests of one track; a
  run killed between push and mark pushes again; a request whose push Liquidsoap
  did not take is marked as played, and a cut-off answer reads as an empty queue,
  as neither the write nor the answer of a command is checked; plays of a song,
  its title or its artist, by the rotation too, may block a request for ever.
- Sessions: a `djon` or `djoff` given up or lost leaves the station wrong until the
  next undisturbed session; two DJs who log in at once may be taken for
  each other; disconnecting deactivates the DJ the station named when it was read
  and stops whoever is on the input later; the close event of an earlier socket
  hides a stream that is live; an encoder that closes late closes a newer socket.
- Uploads: parts of a failed upload complete a later one of the same name and
  size; the directory an upload goes to is evaluated per chunk; a file whose last
  processed answer is an empty one is shown as uploaded and its list not loaded
  again; a part that is empty or "0" fails the assembly; a storage found full after
  the assembly has lost the parts.
- Media page: a relist that meets a load loses its flush flag; a list read before
  a change is cached after it; answers for an earlier opening fill the modal; a
  load with no response at all leaves the table busy.
- WebDJ's decks, microphone and the public player (not modelled): a late
  "canplay" starts a track after stop or beside another; file index 0 counts as
  none; a microphone switched while stopping cannot be started again; a
  reconnect timer restarts a player that was stopped.

## Proofs

All theorems hold for every value of the constants that meets the named
assumptions. Each module follows one pattern: a typing invariant, lemmas that say
once what groups of actions do to the state, then the invariant of each property.

`AutoDjQueueProofs` (any library, merged playlists, workers and builders):

- `TypeCorrect`: `TypeOK` is inductive, one lemma per group of actions.
- `StatementLemma`: every step runs at most one of five kinds of statement on
  the table, each of which only moves rows forward and keeps "played implies
  sent". `RowsMoveForwardCorrect`, the refinement, follows.
- `DeliveredOnceCorrect`: `DeliveryInv` adds that a delivered row is sent or gone
  and that the row of the call being waited for has not been delivered: a call
  that was given up on is not delivered any more.
- `OneEntryPerRowCorrect` (assuming `SingleFeedback`): `EntryInv` adds that a row
  with an entry is played or gone and that the row in a handler's hands has none.

`QueueLengthProofs` (any finite number of builders, any configured length):

- `PickedBoundCorrect`. `PickedBound` is not inductive, as it says nothing of what
  a builder may still add. `LengthInv` gives each builder under way a place for
  every row it has not counted yet: picked rows and places together stay within
  the bound. A row that is added takes a place of its builder; a builder that
  begins counts at least the picked rows that wait (the rows it reads are all the
  unplayed ones, each once), so it gets no more places than they leave.

`SongRequestsProofs` (any tracks, clients, runs and windows):

- `TypesHold`, from `TypeInv`; `LockHolds`, from `LockInv`: a run under the lock
  that is not late is its holder.
- `OnePending`, from `SubmissionInv`: what a submission under way has seen, and
  which requests were stored since.
- `PlayedOnlyWhenPlaced`, `PlacedAtMostOnce`, `RowsAtMostOne`, from `HeldInv`:
  what each stage of a run says of the request it holds (between push and mark:
  it was handed over, or is among the `dropped`).

`RotationProofs` (any library, playlist, window, queue length):

- `TypeCorrect`, from `TypeInv`, which types the run's memory whole.
- `NoneIsLostCorrect`, from `DirtyInv`: a change still to be written belongs to a
  song whose row is among those still to be stored, so that mark and row reach
  the database together or not at all.
- `OrderIsFollowedCorrect`, an action property, from `OrderInv`. Its heart is
  `SegmentInv`: the songs still queued are the ones after the latest one stored.
  A refused choice and a second attempt keep choosing the same song (`PendingOf`),
  and a run holds the records of the latest songs only, fewer than its rows
  (`KnownOf`). Hence the queue may be no longer than the playlist: otherwise a
  run meets a song it has a record of, whose mark is not written again.
- `DuplicatesPrevented`, on the operators alone: the first song in the order that
  shares neither title nor artist with the history, else (if allowed) one played
  least recently. That such songs exist needs the minimum of a finite set
  (`LeastOfSome`, by the least counterexample's size).
- `AlwaysFindsCorrect`: while a song is queued, a second attempt gives exactly one
  song, from `TypeInv` and the finiteness of the history read (`FiniteInv`).

`PlaylistLoopProofs` (the same, and any number of operators' steps):

- `LoopsOnceCorrect`, from `OnceInv`; `LoopsOnce` counts what was played and says
  nothing of what waits. What a run remembers is what is stored, but for the song
  it has decided on (`MemoryInv`); whatever of the playlist waits or was played
  dates it in the window (`TimeData`). A playlist that loops once: unless the last
  reset is dated in the window, a song still queued neither waits nor was played
  (`LoopData`); a reset comes with no row waiting, and its date is in the window
  unless nothing was played in it before (`LoopRun`). A single-track playlist is
  picked from only without a date in the window (`SingleRun`). `OnceInv` was
  an invariant of a TLC run before it was proved. With two operators' steps and a
  queue of three TLC had refuted `LoopsOnce` without its exceptions for refused
  songs and stale records.

`LiveSessionProofs` (any DJs and pages, any number of connections and failures):

- `StationRight`, from `StationInv`: as long as nothing went wrong at most one
  call is under way, the one of the harbor's phase, what its handler has loaded is
  still what the database says, and the station is right or clear for that phase.
  `StationIsRight` speaks only of the moments without a call and is not inductive.
- `TheLiveDeactivated`, an action property, from `DisconnectInv`: while a call
  waits to flush, the streamer it has read is the one who was live then, if the
  station was sure. That it is so when the station is read is `StationInv`'s part;
  that calls may begin and end before the flush is what the theorem adds.
- `SessionAttributed`, from `NameInv`: the DJ of an accepted connection is the one
  `dj_auth` noted last, or another was accepted since. `ShownConnected` and
  `OpenShown`, from `SocketInv`: a page's socket is one that page made.
- Every step but three keeps the connections in an order (`Progress`); the steps of
  the socket, the harbor and the handlers are each proved once for what they do.

`ChunkUploadProofs` (any uploads of one identifier, any number of chunks,
retries, simultaneous requests, lost messages and failing handlers):

- `UploadsImplementTransfer`: each step is a step of `Transfer` or leaves its
  state alone. It needs `BaseInv`: an answer is a success only when its file is
  stored, a widget waits for at most one answer per chunk, and the success of the
  last chunk is a stored file. `SuccessListed` follows from it too.
- `OnceStored`, from `AloneInv` and `OnceInv`: without overlap, loss and failing
  handlers (`Calm`) all requests are of one upload, one per chunk, only the last
  chunk is to be repeated, and once its file is stored its last request is answered.
- `NoneForeign` and `FirstFails`, from `SoundInv`: while nothing failed besides,
  the parts are those of the upload under way; a request that found all of them finds
  them until it removes them; and once the file was put together no part is left
  and none is to come.

`MediaPageProofs` (any files, directories, search phrases, user steps, troubles):

- `ViewShown`, from `TableInv`: a load under way is the one wanted, or another
  follows it.
- `ChangesShown`, from `ListInv`: what was due at the last relist is in the
  cache, or the load that will put it there has not been served yet, and a list in
  flight or on the screen for that view is at least as new. `AsFresh` compares
  versions, so the library's own versions have to be bounded (`BoundInv`).
- `DeletesAsked`, from `QuestionInv`: while the question is open the selection can
  only be dropped.
- `DataKept`, from `ModalInv` and `RecordInv`: without an overtaken answer every
  form in the modal, in an answer or in a request is the one of its record.

A theorem about `Spec` covers the runs of `FairSpec`, which only adds fairness.

Stays with TLC: liveness (`RequestSettles`, `PageLearns`, `UploadEnds`,
`TableSettles`, `ModalSettles`), which the prover does not reach;
`RetimingKeepsOrder`, about the sum a fold computes (an induction over data); the
findings, among them `PlaysOnce`, which is false.

## Not modelled

The reasons are with each component in `PROJECT.json`. In short: the scheduler's
arithmetic of overnight windows, days and dates; the types and weights of
several playlists; the message queue and webhooks; start and stop of the
external processes; what is local to a request or a matter of files. Most of
the front end is forms, templates, charts and players that keep no state shared
with anybody, and its longest file (`webcaster/libsamplerate.js`) is generated
code; the models cover the parts of it that have a protocol: upload, tables,
the media page, WebDJ.

## Plan

1. Whether `RetimingKeepsOrder` can be proved from facts about the fold.
2. `Scheduler`: windows as functions on minutes of the week, against a reference.
3. Message queue with unique messages; webhooks and their rate limit.
4. Station start, stop and restart with the `needs_restart` flag.
5. The supply of the AutoDJ with the songs' durations, for liveness.
