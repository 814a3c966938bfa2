---------------------------- MODULE SongRequests ----------------------------
(* Song requests, from their submission by a listener (or an operator) until *)
(* a run of the sync task hands them over: to Liquidsoap's requests queue    *)
(* (CheckRequestsTask, for stations with "manual AutoDJ") or to the station  *)
(* queue (QueueBuilder, for the others).  A submission checks and inserts in *)
(* separate statements; runs are started under the task's lock by the        *)
(* minute's runner, or without it from the debug page.                       *)
EXTENDS SyncLock, Naturals, FiniteSets, Sequences

CONSTANTS Tracks, Clients,
          Members,        \* the clients that are logged in
          Operator,
          Delay,          \* request delay of the station
          PendingWindow,  \* how long a request blocks others of its track
          RecentWindow,   \* request threshold: how long a play blocks its track
          FloodWindow,    \* how long a request blocks others of its client
          MaxAge,         \* bound: ages from here on are not told apart
          MaxRequests,    \* bound: requests ever stored
          MaxTrouble      \* bound: failed, killed, late and debug runs

ASSUME SongRequestsAssumption ==
    /\ Tracks # {}
    /\ IsFiniteSet(Clients)
    /\ Members \subseteq Clients
    /\ Operator \notin Clients
    /\ \A bound \in {Delay, PendingWindow, RecentWindow, FloodWindow,
                     MaxAge, MaxRequests, MaxTrouble} : bound \in Nat
    /\ \A window \in {2 * Delay, PendingWindow, RecentWindow, FloodWindow} :
           window < MaxAge

VARIABLES manual,    \* the station uses manual AutoDJ
          stored,    \* number of requests stored so far
          request,   \* the table of requests, by id
          rows,      \* how many queue rows each request has
          submission,\* each client's submission under way
          run,       \* the runs of the task
          queue,     \* tracks handed over and not yet played
          heard,     \* age of the last history entry that blocks each track: one
                     \* of its song, its title or its artist
          placed,    \* history: how often each request was handed over
          crossed,   \* history: requests a run took while another had them, or
                     \* was killed with
          dropped,   \* history: requests whose push Liquidsoap did not take
          faults

tables == <<stored, request, rows>>
player == <<queue, heard>>
history == <<placed, crossed, dropped>>
vars == <<manual, tables, submission, run, holder, player, history, faults>>

Ids == 1 .. MaxRequests
Ages == 0 .. MaxAge
Checks == {"idle", "checks", "insert"}
Steps == {"idle", "pick", "row", "create", "queue", "push", "mark", "store"}

Request == [status : {"none", "pending", "played", "deleted"},
            track : Tracks, by : Clients \cup {Operator}, age : Ages,
            skip_delay : BOOLEAN, seen : 0 .. MaxRequests]
Submission == [at : Checks, track : Tracks, seen : 0 .. MaxRequests]
Run == [at : Steps, locked : BOOLEAN, late : BOOLEAN,
        req : 0 .. MaxRequests, track : Tracks]

TypeOK == /\ LockTypeOK
          /\ manual \in BOOLEAN
          /\ stored \in 0 .. MaxRequests
          /\ request \in [Ids -> Request]
          /\ rows \in [Ids -> Nat]
          /\ submission \in [Clients -> Submission]
          /\ run \in [Runs -> Run]
          /\ queue \in Seq(Tracks)
          /\ heard \in [Tracks -> Ages]
          /\ placed \in [Ids -> Nat]
          /\ crossed \subseteq Ids
          /\ dropped \subseteq Ids
          /\ faults \in 0 .. MaxTrouble

AnyTrack == CHOOSE t \in Tracks : TRUE
NoRequest == [status |-> "none", track |-> AnyTrack, by |-> Operator,
              age |-> 0, skip_delay |-> FALSE, seen |-> 0]
NoSubmission == [at |-> "idle", track |-> AnyTrack, seen |-> 0]
NoRun == [at |-> "idle", locked |-> FALSE, late |-> FALSE, req |-> 0, track |-> AnyTrack]

Init == /\ LockInit
        /\ manual \in BOOLEAN
        /\ stored = 0
        /\ request = [i \in Ids |-> NoRequest]
        /\ rows = [i \in Ids |-> 0]
        /\ submission = [c \in Clients |-> NoSubmission]
        /\ run = [r \in Runs |-> NoRun]
        /\ queue = <<>>
        /\ heard \in [Tracks -> {0, MaxAge}]
        /\ placed = [i \in Ids |-> 0]
        /\ crossed = {}
        /\ dropped = {}
        /\ faults = 0

Pending == {i \in Ids : request[i].status = "pending"}
Kept == {i \in Ids : request[i].status \in {"pending", "played"}}

-----------------------------------------------------------------------------
(* Submissions                                                               *)

checkRecentPlay(t) == RecentWindow = 0 \/ heard[t] > RecentWindow

\* BUG variant: only requests of the last minutes count, played or not.
checkPendingRequest_WindowOnly(t) ==
    \A i \in Kept : request[i].track = t => request[i].age > PendingWindow

checkPendingRequest(t) ==
    \A i \in Kept : request[i].track = t =>
        /\ request[i].age > PendingWindow
        /\ request[i].status # "pending"

(* The bound, with room for the submissions under way.                       *)
Room == stored + Cardinality({c \in Clients : submission[c].at # "idle"}) < MaxRequests

(* submit, its first check; `seen` is how many requests the check saw.       *)
Submit(c, t) ==
    /\ submission[c].at = "idle"
    /\ Room
    /\ checkPendingRequest(t)
    /\ submission' = [submission EXCEPT ![c] =
                          [at |-> "checks", track |-> t, seen |-> stored]]
    /\ UNCHANGED <<manual, tables, run, holder, player, history, faults>>

(* The history and, unless the client is logged in, its own requests.        *)
Admitted(c) == /\ checkRecentPlay(submission[c].track)
               /\ c \in Members \/ \A i \in Kept : request[i].by = c =>
                                        request[i].age > FloodWindow

SubmitChecks(c) ==
    /\ submission[c].at = "checks"
    /\ submission' = [submission EXCEPT ![c] =
                          IF Admitted(c) THEN [@ EXCEPT !.at = "insert"] ELSE NoSubmission]
    /\ UNCHANGED <<manual, tables, run, holder, player, history, faults>>

Insert(new) == /\ stored' = stored + 1
               /\ request' = [request EXCEPT ![stored + 1] = new]
               /\ UNCHANGED rows

SubmitInsert(c) ==
    /\ submission[c].at = "insert"
    /\ Insert([status |-> "pending", track |-> submission[c].track, by |-> c,
               age |-> 0, skip_delay |-> FALSE, seen |-> submission[c].seen])
    /\ submission' = [submission EXCEPT ![c] = NoSubmission]
    /\ UNCHANGED <<manual, run, holder, player, history, faults>>

(* The media page queues a track: nothing is checked.                        *)
doQueue(t) ==
    /\ manual
    /\ Room
    /\ Insert([status |-> "pending", track |-> t, by |-> Operator,
               age |-> 0, skip_delay |-> TRUE, seen |-> stored])
    /\ UNCHANGED <<manual, submission, run, holder, player, history, faults>>

(* A deleted request, of which nothing else is left.                         *)
Deleted == [NoRequest EXCEPT !.status = "deleted"]

(* Deleting a request takes its queue rows with it.                          *)
Remove(gone) ==
    /\ request' = [i \in Ids |-> IF i \in gone THEN Deleted ELSE request[i]]
    /\ rows' = [i \in Ids |-> IF i \in gone THEN 0 ELSE rows[i]]
    /\ UNCHANGED stored

(* deleteAction finds only pending requests; until its DELETE is executed a  *)
(* run may have marked the one it found.                                     *)
deleteAction(i) ==
    /\ i \in Kept
    /\ Remove({i})
    /\ UNCHANGED <<manual, submission, run, holder, player, history, faults>>

clearPendingRequests ==
    /\ Pending # {}
    /\ Remove(Pending)
    /\ UNCHANGED <<manual, submission, run, holder, player, history, faults>>

-----------------------------------------------------------------------------
(* Runs of the task                                                          *)

Begin(r, locked) ==
    run' = [run EXCEPT ![r] = [NoRun EXCEPT !.at = "pick", !.locked = locked]]

(* The minute's runner starts the task under its lock.                       *)
RunnerStarts(r) ==
    /\ run[r].at = "idle"
    /\ Acquire(r)
    /\ Begin(r, TRUE)
    /\ UNCHANGED <<manual, tables, submission, player, history, faults>>

(* The debug page runs it without the lock; the queue builder is also run by *)
(* the interrupting-tracks task, under a lock of its own.                    *)
DebugStarts(r) ==
    /\ run[r].at = "idle"
    /\ faults < MaxTrouble
    /\ faults' = faults + 1
    /\ Begin(r, FALSE)
    /\ UNCHANGED <<manual, tables, submission, holder, player, history>>

Ends(r) == /\ run' = [run EXCEPT ![r] = NoRun]
           /\ IF run[r].locked THEN Release(r) ELSE UNCHANGED holder

At(r, step) == run[r].at = step
GoTo(r, step) == run' = [run EXCEPT ![r].at = step]

(* Where the query's order puts one pending request before another.          *)
Before(i, j) ==
    \/ request[i].skip_delay /\ ~request[j].skip_delay
    \/ request[i].skip_delay = request[j].skip_delay /\ i < j

(* shouldPlayNow draws a delay between Delay and twice as much; the queue     *)
(* builder counts it to the expected play time, however far ahead that is.   *)
MayPlayNow(i) == request[i].skip_delay \/ ~manual \/ request[i].age > Delay
MustPlayNow(i) == request[i].skip_delay \/ request[i].age > 2 * Delay

Passed(i) == ~MustPlayNow(i) \/ ~checkRecentPlay(request[i].track)

(* The requests getNextPlayableRequest may return.                           *)
Playable == {i \in Pending : /\ MayPlayNow(i)
                             /\ checkRecentPlay(request[i].track)
                             /\ \A j \in Pending : Before(j, i) => Passed(j)}

PickRequest(r) ==
    \E i \in Playable :
        /\ At(r, "pick")
        /\ run' = [run EXCEPT ![r].at = IF manual THEN "row" ELSE "store",
                              ![r].req = i, ![r].track = request[i].track]
        /\ crossed' = IF \E s \in Runs : run[s].req = i THEN crossed \cup {i} ELSE crossed
        /\ UNCHANGED <<manual, tables, submission, holder, player, placed, dropped, faults>>

PicksNothing(r) ==
    /\ At(r, "pick")
    /\ \A i \in Pending : Passed(i)
    /\ Ends(r)
    /\ UNCHANGED <<manual, tables, submission, player, history, faults>>

\* BUG variant: an earlier run's row is not looked for.
NextOfRow_Creates(found) == "create"
\* BUG variant: a request that already has a row is skipped.
NextOfRow_Skips(found) == IF found THEN "idle" ELSE "create"

(* submitRequest: the row of an earlier run is used again.                   *)
NextOfRow(found) == IF found THEN "queue" ELSE "create"

FindRow(r) ==
    /\ At(r, "row")
    /\ GoTo(r, NextOfRow(rows[run[r].req] > 0))
    /\ UNCHANGED <<manual, tables, submission, holder, player, history, faults>>

\* BUG variant: the request is marked with its row, as the queue builder does.
RowStored_Marks(i) ==
    /\ rows' = [rows EXCEPT ![i] = @ + 1]
    /\ request' = [request EXCEPT ![i].status = "played"]
    /\ UNCHANGED stored

RowStored(i) == /\ rows' = [rows EXCEPT ![i] = @ + 1]
                /\ UNCHANGED <<stored, request>>

(* The row of a request that was deleted meanwhile cannot be stored: the     *)
(* statement fails and the run with it.                                      *)
CreateRow(r) ==
    /\ At(r, "create")
    /\ IF run[r].req \in Kept
       THEN RowStored(run[r].req) /\ GoTo(r, "queue") /\ UNCHANGED holder
       ELSE Ends(r) /\ UNCHANGED tables
    /\ UNCHANGED <<manual, submission, player, history, faults>>

(* A command whose connection breaks: it may not be executed, and reads as   *)
(* an empty answer, which nobody tells from a real one.                      *)
CommandLost == faults < MaxTrouble /\ faults' = faults + 1

(* The row is annotated and marked as sent, which nothing here depends on;   *)
(* while the queue is occupied nothing is pushed.                            *)
isQueueEmpty(r) ==
    /\ At(r, "queue")
    /\ \/ queue = <<>> /\ GoTo(r, "push") /\ UNCHANGED <<holder, faults>>
       \/ queue # <<>> /\ Ends(r) /\ UNCHANGED faults
       \/ queue # <<>> /\ CommandLost /\ GoTo(r, "push") /\ UNCHANGED holder
    /\ UNCHANGED <<manual, tables, submission, player, history>>

HandOver(i, t) == /\ queue' = Append(queue, t)
                  /\ placed' = [placed EXCEPT ![i] = @ + 1]
                  /\ UNCHANGED <<heard, crossed, dropped>>

(* The answer is logged, and the run goes on whatever it is.                 *)
enqueue(r) ==
    /\ At(r, "push")
    /\ \/ HandOver(run[r].req, run[r].track) /\ UNCHANGED faults
       \/ /\ CommandLost
          /\ dropped' = dropped \cup {run[r].req}
          /\ UNCHANGED <<player, placed, crossed>>
    /\ GoTo(r, "mark")
    /\ UNCHANGED <<manual, tables, submission, holder>>

\* BUG variant: the request is not flushed.
SetPlayedAt_Lost(i) == UNCHANGED request

(* A request deleted meanwhile is not there to be updated.                   *)
SetPlayedAt(i) ==
    request' = IF i \in Kept THEN [request EXCEPT ![i].status = "played"] ELSE request

MarkPlayed(r) ==
    /\ At(r, "mark")
    /\ SetPlayedAt(run[r].req)
    /\ Ends(r)
    /\ UNCHANGED <<manual, stored, rows, submission, player, history, faults>>

(* QueueBuilder: one flush stores the row and marks the request; it fails    *)
(* for a request that was deleted.                                           *)
StoreAndMark(r) ==
    LET i == run[r].req IN
    /\ At(r, "store")
    /\ IF i \in Kept
       THEN /\ rows' = [rows EXCEPT ![i] = @ + 1]
            /\ SetPlayedAt(i)
            /\ HandOver(i, run[r].track)
       ELSE UNCHANGED <<rows, request, player, history>>
    /\ Ends(r)
    /\ UNCHANGED <<manual, stored, submission, faults>>

(* Liquidsoap's socket does not open, a statement fails, or the process is   *)
(* killed at its time limit: the run ends where it is.                       *)
RunDies(r) ==
    /\ run[r].at \notin {"idle", "pick"}
    /\ faults < MaxTrouble
    /\ faults' = faults + 1
    /\ Ends(r)
    /\ crossed' = IF At(r, "mark") THEN crossed \cup {run[r].req} ELSE crossed
    /\ UNCHANGED <<manual, tables, submission, player, placed, dropped>>

(* The runner is killed with its task, which leaves the lock behind ...      *)
RunnerDies(r) ==
    /\ run[r].at # "idle"
    /\ run[r].locked
    /\ faults < MaxTrouble
    /\ faults' = faults + 1
    /\ run' = [run EXCEPT ![r] = NoRun]
    /\ crossed' = IF At(r, "mark") THEN crossed \cup {run[r].req} ELSE crossed
    /\ UNCHANGED <<manual, tables, submission, holder, player, placed, dropped>>

(* ... until it expires.                                                     *)
LockLapses(r) ==
    /\ run[r].at = "idle"
    /\ Expire(r)
    /\ UNCHANGED <<manual, tables, submission, run, player, history, faults>>

(* The lock expires under a run that takes longer than it lives.             *)
LockOutlived(r) ==
    /\ run[r].at # "idle"
    /\ faults < MaxTrouble
    /\ faults' = faults + 1
    /\ Expire(r)
    /\ run' = [run EXCEPT ![r].late = TRUE]
    /\ UNCHANGED <<manual, tables, submission, player, history>>

RunStep(r) == \/ PickRequest(r) \/ PicksNothing(r)
              \/ FindRow(r) \/ CreateRow(r) \/ isQueueEmpty(r)
              \/ enqueue(r) \/ MarkPlayed(r) \/ StoreAndMark(r)

-----------------------------------------------------------------------------
(* The player and the clock                                                  *)

(* A history entry blocks the tracks that share its song, title or artist.   *)
Entry(blocked) == heard' = [t \in Tracks |-> IF t \in blocked THEN 0 ELSE heard[t]]

(* The next request handed over is played; its feedback stores a history     *)
(* entry, unless it is lost (external).                                      *)
PlayRequest ==
    /\ queue # <<>>
    /\ queue' = Tail(queue)
    /\ \/ \E blocked \in SUBSET Tracks : Head(queue) \in blocked /\ Entry(blocked)
       \/ UNCHANGED heard
    /\ UNCHANGED <<manual, tables, submission, run, holder, history, faults>>

(* Anything else the station plays, from its playlists or a DJ (external).   *)
PlayOther ==
    /\ \E blocked \in SUBSET Tracks \ {{}} : Entry(blocked)
    /\ UNCHANGED <<manual, tables, submission, run, holder, queue, history, faults>>

\* BUG variant: a time difference that nothing bounds.
Older_Unbounded(age, bound) == age + 1

Older(age, bound) == IF age < bound THEN age + 1 ELSE bound

Tick ==
    /\ request' = [i \in Ids |-> IF i \notin Kept THEN request[i]
                                 ELSE [request[i] EXCEPT !.age = Older(@, MaxAge)]]
    /\ heard' = [t \in Tracks |-> Older(heard[t], MaxAge)]
    /\ UNCHANGED <<manual, stored, rows, submission, run, holder, queue,
                   history, faults>>

Next == \/ \E c \in Clients : \/ \E t \in Tracks : Submit(c, t)
                              \/ SubmitChecks(c)
                              \/ SubmitInsert(c)
        \/ \E t \in Tracks : doQueue(t)
        \/ \E i \in Ids : deleteAction(i)
        \/ clearPendingRequests
        \/ \E r \in Runs : \/ RunnerStarts(r) \/ DebugStarts(r)
                           \/ RunStep(r)
                           \/ RunDies(r) \/ RunnerDies(r)
                           \/ LockLapses(r) \/ LockOutlived(r)
        \/ PlayRequest
        \/ PlayOther
        \/ Tick

Spec == Init /\ [][Next]_vars

(* Cron starts the runner every minute; while runs are under way or a lock   *)
(* is left behind, one of them goes on; Liquidsoap plays what it was given;  *)
(* time passes.                                                              *)
Fairness == /\ WF_vars(\E r \in Runs : RunnerStarts(r))
            /\ WF_vars(\E r \in Runs : RunStep(r) \/ LockLapses(r))
            /\ WF_vars(PlayRequest)
            /\ WF_vars(Tick)

FairSpec == Spec /\ Fairness

-----------------------------------------------------------------------------
(* Properties                                                                *)

(* A request marked as played was handed over, whatever run fails, is killed *)
(* or crosses another; the one exception is a push that Liquidsoap did not   *)
(* take, whose answer CheckRequestsTask logs and does not check.             *)
PlayedWasPlaced ==
    \A i \in Ids : request[i].status = "played" => (placed[i] > 0 \/ i \in dropped)

(* A request is handed over twice only when two runs had it at once, or a    *)
(* run was killed between pushing and marking it.                            *)
PlacedOnce == \A i \in Ids : placed[i] > 1 => i \in crossed

(* However often the requests queue was occupied or a run failed, a request  *)
(* has one queue row unless two runs had it at once.                         *)
OneRowPerRequest == \A i \in Ids : rows[i] > 1 => i \in crossed

(* Two runs started under the lock are under way at once only when one of    *)
(* them has outlived the lock: the runner never refreshes it meanwhile.      *)
LockedRunsAlone ==
    \A r, s \in Runs : (r # s /\ run[r].locked /\ run[s].locked)
                           => (run[r].late \/ run[s].late)

(* A track has two pending listeners' requests only when the earlier one was *)
(* stored after the later one's first check (StationRequestRepository).      *)
OnePendingPerTrack ==
    \A i, j \in Pending :
        (i < j /\ request[i].track = request[j].track /\ ~request[j].skip_delay)
            => i > request[j].seen

(* A request stays pending for ever only while plays of its song, title or   *)
(* artist, whoever asked for them, block it again and again: an occupied     *)
(* queue, failing runs or a lock left behind only delay it, as long as       *)
(* failures and requests that come before it end (MaxTrouble, MaxRequests).  *)
RequestSettles ==
    \A i \in Ids : \/ []<>(i \notin Pending)
                   \/ []<>(~checkRecentPlay(request[i].track))
=============================================================================
