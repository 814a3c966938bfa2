------------------------- MODULE SongRequestsProofs -------------------------
(* Proofs about SongRequests, for every set of tracks, clients and runs, every *)
(* window and every bound: its type invariant, the lock, the submissions, and  *)
(* what runs do to the requests they hold.                                     *)
EXTENDS SongRequests, FiniteSetTheorems, TLAPS

USE SyncLockAssumption

-----------------------------------------------------------------------------
(* Types                                                                     *)

\* Clients whose submission is under way, for each of which there is room.
Submitting == {c \in Clients : submission[c].at # "idle"}
RoomKept == stored + Cardinality(Submitting) <= MaxRequests

\* A run holds a request from when it has picked it until it ends.
Holding(r) == run[r].at \notin {"idle", "pick"}
RunsHold == \A r \in Runs : IF Holding(r) THEN run[r].req \in Ids ELSE run[r].req = 0

TypeInv == TypeOK /\ RoomKept /\ RunsHold

\* The constants' assumptions, as the provers need them.
LEMMA ConstantsLemma ==
    /\ Delay \in Nat /\ PendingWindow \in Nat /\ RecentWindow \in Nat
    /\ FloodWindow \in Nat /\ MaxAge \in Nat /\ MaxRequests \in Nat /\ MaxTrouble \in Nat
    /\ AnyTrack \in Tracks
    /\ IsFiniteSet(Clients)
BY SongRequestsAssumption DEF AnyTrack

\* The records of nothing under way are well typed.
LEMMA DefaultsLemma ==
    NoRequest \in Request /\ NoSubmission \in Submission /\ NoRun \in Run
BY ConstantsLemma DEF NoRequest, NoSubmission, NoRun, Request, Submission, Run,
    Checks, Steps, Ages

\* An age stays an age.
LEMMA OlderLemma == \A age \in Ages : Older(age, MaxAge) \in Ages
BY ConstantsLemma DEF Older, Ages

\* A history entry leaves ages of tracks.
LEMMA EntryLemma ==
  ASSUME heard \in [Tracks -> Ages], NEW blocked, Entry(blocked)
  PROVE  heard' \in [Tracks -> Ages]
BY ConstantsLemma DEF Entry, Ages

\* Sequences of tracks grow by tracks and shrink from the front.
LEMMA SequencesLemma ==
    \A s \in Seq(Tracks) : /\ \A t \in Tracks : Append(s, t) \in Seq(Tracks)
                           /\ s # <<>> => Head(s) \in Tracks /\ Tail(s) \in Seq(Tracks)
OBVIOUS

\* A run that goes on keeps its request.
LEMMA GoToLemma ==
  ASSUME run \in [Runs -> Run], RunsHold, NEW r \in Runs, Holding(r),
         NEW step \in Steps \ {"idle", "pick"}, GoTo(r, step)
  PROVE  run' \in [Runs -> Run] /\ RunsHold'
BY DEF GoTo, Run, RunsHold, Holding

\* A run that ends leaves nothing, and the lock to its holder.
LEMMA EndsLemma ==
  ASSUME run \in [Runs -> Run], LockTypeOK, RunsHold, NEW r \in Runs, Ends(r)
  PROVE  run' \in [Runs -> Run] /\ LockTypeOK' /\ RunsHold'
<1>1. run' \in [Runs -> Run] /\ LockTypeOK'
  BY DefaultsLemma DEF Ends, Release, LockTypeOK
<1>2. RunsHold'
  BY DEF Ends, NoRun, RunsHold, Holding
<1> QED
  BY <1>1, <1>2

\* Marking a request as played keeps the table well typed.
LEMMA SetPlayedAtLemma ==
  ASSUME request \in [Ids -> Request], NEW i \in Ids, SetPlayedAt(i)
  PROVE  request' \in [Ids -> Request]
BY DEF SetPlayedAt, Request

\* Removing requests keeps both tables well typed.
LEMMA RemoveLemma ==
  ASSUME request \in [Ids -> Request], rows \in [Ids -> Nat], NEW gone, Remove(gone)
  PROVE  request' \in [Ids -> Request] /\ rows' \in [Ids -> Nat]
BY DefaultsLemma DEF Remove, Deleted, Request

\* A submission that begins takes room, one that ends gives it back.
LEMMA SubmittingLemma ==
  ASSUME submission \in [Clients -> Submission], NEW c \in Clients,
         NEW s \in Submission, submission' = [submission EXCEPT ![c] = s]
  PROVE  /\ Cardinality(Submitting) \in Nat
         /\ Cardinality(Submitting') \in Nat
         /\ (s.at = "idle" /\ submission[c].at # "idle")
                => Cardinality(Submitting') = Cardinality(Submitting) - 1
         /\ (s.at # "idle" /\ submission[c].at = "idle")
                => Cardinality(Submitting') = Cardinality(Submitting) + 1
         /\ (s.at # "idle" /\ submission[c].at # "idle")
                => Cardinality(Submitting') = Cardinality(Submitting)
<1>1. IsFiniteSet(Submitting)
  BY ConstantsLemma, FS_Subset DEF Submitting
<1>2. Submitting' = IF s.at = "idle" THEN Submitting \ {c} ELSE Submitting \cup {c}
  BY DEF Submitting
<1>3. c \in Submitting <=> submission[c].at # "idle"
  BY DEF Submitting
<1>4. /\ Cardinality(Submitting) \in Nat
      /\ IsFiniteSet(Submitting \ {c})
      /\ Cardinality(Submitting \ {c}) \in Nat
      /\ Cardinality(Submitting \cup {c}) \in Nat
  BY <1>1, FS_CardinalityType, FS_RemoveElement, FS_AddElement
<1>5. /\ Cardinality(Submitting \ {c}) =
             IF c \in Submitting THEN Cardinality(Submitting) - 1 ELSE Cardinality(Submitting)
      /\ Cardinality(Submitting \cup {c}) =
             IF c \in Submitting THEN Cardinality(Submitting) ELSE Cardinality(Submitting) + 1
  BY <1>1, FS_RemoveElement, FS_AddElement
<1> QED
  BY <1>2, <1>3, <1>4, <1>5

\* The initial states are well typed.
LEMMA InitTypes == Init => TypeInv
<1> SUFFICES ASSUME Init PROVE TypeInv
  OBVIOUS
<1>1. TypeOK
  BY ConstantsLemma, DefaultsLemma DEF Init, TypeOK, LockInit, LockTypeOK, Ages, Ids
<1>2. RoomKept
  <2>1. Submitting = {}
    BY DEF Init, Submitting, NoSubmission
  <2> QED
    BY <2>1, FS_EmptySet, ConstantsLemma DEF Init, RoomKept
<1>3. RunsHold
  BY DEF Init, NoRun, RunsHold, Holding
<1> QED
  BY <1>1, <1>2, <1>3 DEF TypeInv

\* Every step keeps the types, the room and what runs hold.
LEMMA StepTypes == TypeInv /\ [Next]_vars => TypeInv'
<1> SUFFICES ASSUME TypeInv, [Next]_vars PROVE TypeInv'
  OBVIOUS
<1>0. TypeOK /\ RoomKept /\ RunsHold
  BY DEF TypeInv
<1> USE ConstantsLemma, DefaultsLemma, <1>0 DEF TypeInv
\* The actions on submissions leave the runs alone, the others submissions and the
\* number of requests.
<1>5. /\ UNCHANGED <<stored, submission>> => RoomKept'
      /\ UNCHANGED run => RunsHold'
  BY DEF RoomKept, Submitting, RunsHold, Holding
<1>1. ASSUME NEW c \in Clients, NEW t \in Tracks, Submit(c, t) PROVE TypeInv'
  <2> DEFINE s == [at |-> "checks", track |-> t, seen |-> stored]
  <2>1. /\ s \in Submission
        /\ submission' = [submission EXCEPT ![c] = s]
    BY <1>1 DEF Submit, TypeOK, Submission, Checks
  <2>2. TypeOK'
    BY <1>1, <2>1 DEF Submit, TypeOK, tables, player, history, LockTypeOK, vars
  <2>3. stored + Cardinality(Submitting) < MaxRequests
    BY <1>1 DEF Submit, Room, Submitting
  <2>4. RoomKept'
    <3>1. s.at # "idle" /\ submission[c].at = "idle" /\ submission \in [Clients -> Submission]
      BY <1>1 DEF Submit, TypeOK
    <3>2. /\ Cardinality(Submitting) \in Nat
          /\ Cardinality(Submitting') = Cardinality(Submitting) + 1
      BY <2>1, <3>1, SubmittingLemma
    <3> QED
      BY <1>1, <2>3, <3>2 DEF Submit, tables, RoomKept, TypeOK
  <2> QED
    BY <1>5, <1>1, <2>2, <2>4 DEF Submit
<1>2. ASSUME NEW c \in Clients, SubmitChecks(c) PROVE TypeInv'
  <2> DEFINE s == IF Admitted(c) THEN [submission[c] EXCEPT !.at = "insert"] ELSE NoSubmission
  <2>1. /\ s \in Submission
        /\ submission' = [submission EXCEPT ![c] = s]
        /\ submission[c].at # "idle"
        /\ submission \in [Clients -> Submission]
        /\ s.at = "idle" \/ s.at # "idle"
    BY <1>2 DEF SubmitChecks, TypeOK, Submission, Checks
  <2>2. TypeOK'
    BY <1>2, <2>1 DEF SubmitChecks, TypeOK, tables, player, history, LockTypeOK
  <2>3. /\ Cardinality(Submitting) \in Nat
        /\ Cardinality(Submitting') \in Nat
        /\ Cardinality(Submitting') <= Cardinality(Submitting)
    <3> HIDE DEF s
    <3>1. /\ Cardinality(Submitting) \in Nat
          /\ Cardinality(Submitting') \in Nat
          /\ s.at = "idle" => Cardinality(Submitting') = Cardinality(Submitting) - 1
          /\ s.at # "idle" => Cardinality(Submitting') = Cardinality(Submitting)
      BY <2>1, SubmittingLemma
    <3> QED
      BY <3>1
  <2>4. RoomKept'
    BY <1>2, <2>3 DEF SubmitChecks, tables, RoomKept, TypeOK
  <2> QED
    BY <1>5, <1>2, <2>2, <2>4 DEF SubmitChecks
<1>3. ASSUME NEW c \in Clients, SubmitInsert(c) PROVE TypeInv'
  <2>1. /\ submission' = [submission EXCEPT ![c] = NoSubmission]
        /\ submission[c].at # "idle" /\ NoSubmission.at = "idle"
        /\ submission \in [Clients -> Submission]
    BY <1>3 DEF SubmitInsert, TypeOK, NoSubmission
  <2>2. /\ Cardinality(Submitting) \in Nat
        /\ Cardinality(Submitting') \in Nat
        /\ Cardinality(Submitting') = Cardinality(Submitting) - 1
    BY <2>1, SubmittingLemma
  <2>3. stored' = stored + 1 /\ RoomKept' /\ stored' \in 0 .. MaxRequests
    BY <1>3, <2>2 DEF SubmitInsert, Insert, RoomKept, TypeOK
  <2> DEFINE new == [status |-> "pending", track |-> submission[c].track, by |-> c,
                     age |-> 0, skip_delay |-> FALSE, seen |-> submission[c].seen]
  <2>6. new \in Request
    BY <2>1 DEF Request, Submission, Ages
  <2>4. request' \in [Ids -> Request]
    BY <1>3, <2>6 DEF SubmitInsert, Insert, TypeOK
  <2>5. TypeOK'
    BY <1>3, <2>1, <2>3, <2>4 DEF SubmitInsert, Insert, TypeOK, player, history, LockTypeOK
  <2> QED
    BY <1>5, <1>3, <2>3, <2>5 DEF SubmitInsert
<1>4. ASSUME NEW t \in Tracks, doQueue(t) PROVE TypeInv'
  <2>1. IsFiniteSet(Submitting) /\ Cardinality(Submitting) \in Nat
    BY FS_Subset, FS_CardinalityType DEF Submitting
  <2>2. stored' = stored + 1 /\ RoomKept' /\ stored' \in 0 .. MaxRequests
    BY <1>4, <2>1 DEF doQueue, Room, Insert, RoomKept, TypeOK, Submitting
  <2> DEFINE new == [status |-> "pending", track |-> t, by |-> Operator,
                     age |-> 0, skip_delay |-> TRUE, seen |-> stored]
  <2>5. new \in Request
    BY DEF TypeOK, Request, Ages
  <2>3. request' \in [Ids -> Request]
    BY <1>4, <2>5 DEF doQueue, Insert, TypeOK
  <2>4. TypeOK'
    BY <1>4, <2>2, <2>3 DEF doQueue, Insert, TypeOK, player, history, LockTypeOK
  <2> QED
    BY <1>5, <1>4, <2>2, <2>4 DEF doQueue
<1>6. ASSUME NEW gone, Remove(gone),
             UNCHANGED <<manual, submission, run, holder, player, history, faults>>
      PROVE  TypeInv'
  BY <1>5, <1>6, RemoveLemma DEF Remove, TypeOK, player, history, LockTypeOK
<1>7. ASSUME NEW r \in Runs, RunnerStarts(r) PROVE TypeInv'
  <2>2. RunsHold'
    BY <1>7 DEF RunnerStarts, Begin, NoRun, RunsHold, Holding, TypeOK
  <2>1. run' \in [Runs -> Run]
    BY <1>7 DEF RunnerStarts, Begin, TypeOK, Run, Steps
  <2> QED
    BY <1>5, <1>7, <2>1, <2>2 DEF RunnerStarts, Acquire, TypeOK, tables, player, history, LockTypeOK
<1>8. ASSUME NEW r \in Runs, DebugStarts(r) PROVE TypeInv'
  <2>2. RunsHold'
    BY <1>8 DEF DebugStarts, Begin, NoRun, RunsHold, Holding, TypeOK
  <2>1. run' \in [Runs -> Run]
    BY <1>8 DEF DebugStarts, Begin, TypeOK, Run, Steps
  <2> QED
    BY <1>5, <1>8, <2>1, <2>2 DEF DebugStarts, TypeOK, tables, player, history, LockTypeOK
<1>9. ASSUME NEW r \in Runs, RunStep(r) PROVE TypeInv'
  <2>1. CASE PickRequest(r)
    <3>1. PICK i \in Playable :
             /\ run' = [run EXCEPT ![r].at = IF manual THEN "row" ELSE "store",
                                   ![r].req = i, ![r].track = request[i].track]
             /\ crossed' = IF \E s \in Runs : run[s].req = i THEN crossed \cup {i} ELSE crossed
      BY <2>1 DEF PickRequest
    <3>2. i \in Ids
      BY <3>1 DEF Playable, Pending
    <3> DEFINE step == IF manual THEN "row" ELSE "store"
               picked == [run[r] EXCEPT !.at = step, !.req = i, !.track = request[i].track]
    <3>4. run' = [run EXCEPT ![r] = picked]
      BY <3>1
    <3>5. step \in Steps \ {"idle", "pick"}
      BY DEF Steps
    <3>7. i \in 0 .. MaxRequests /\ request[i].track \in Tracks /\ run[r] \in Run
      BY <3>2 DEF TypeOK, Request, Ids
    <3>3. picked \in Run /\ picked.at = step /\ picked.req = i
      <4> HIDE DEF step
      <4> QED
        BY <3>5, <3>7 DEF Run
    <3>6. run' \in [Runs -> Run] /\ RunsHold'
      <4> HIDE DEF picked, step
      <4> QED
        BY <3>2, <3>3, <3>4, <3>5 DEF TypeOK, RunsHold, Holding
    <3> QED
      BY <1>5, <2>1, <3>1, <3>2, <3>6 DEF PickRequest, TypeOK, tables, player, LockTypeOK
  <2>2. CASE PicksNothing(r)
    BY <1>5, <2>2, EndsLemma DEF PicksNothing, TypeOK, tables, player, history
  <2>3. CASE FindRow(r)
    <3>1. NextOfRow(rows[run[r].req] > 0) \in Steps \ {"idle", "pick"}
      BY DEF NextOfRow, Steps
    <3> QED
      BY <1>5, <2>3, <3>1, GoToLemma DEF FindRow, At, Holding, TypeOK, tables, player, history, LockTypeOK
  <2>4. CASE CreateRow(r)
    <3>1. CASE run[r].req \in Kept
      <4>1. "queue" \in Steps \ {"idle", "pick"} /\ run[r].req \in Ids
        BY <3>1 DEF Steps, Kept
      <4>2. run' \in [Runs -> Run] /\ RunsHold'
        BY <2>4, <3>1, <4>1, GoToLemma DEF CreateRow, At, Holding, TypeOK
      <4>3. rows' = [rows EXCEPT ![run[r].req] = @ + 1] /\ rows \in [Ids -> Nat]
        BY <2>4, <3>1 DEF CreateRow, RowStored, TypeOK
      <4>4. rows' \in [Ids -> Nat]
        BY <4>1, <4>3
      <4> QED
        BY <1>5, <2>4, <3>1, <4>2, <4>4
           DEF CreateRow, RowStored, TypeOK, player, history, LockTypeOK
    <3>2. CASE run[r].req \notin Kept
      BY <1>5, <2>4, <3>2, EndsLemma DEF CreateRow, At, Holding, TypeOK, tables, player, history
    <3> QED
      BY <3>1, <3>2
  <2>5. CASE isQueueEmpty(r)
    <3>1. run' \in [Runs -> Run] /\ LockTypeOK' /\ RunsHold'
      <4>1. "push" \in Steps \ {"idle", "pick"}
        BY DEF Steps
      <4>2. CASE GoTo(r, "push") /\ UNCHANGED holder
        BY <2>5, <4>1, <4>2, GoToLemma DEF isQueueEmpty, At, Holding, TypeOK, LockTypeOK
      <4>3. CASE Ends(r)
        BY <4>3, EndsLemma DEF TypeOK
      <4> QED
        BY <2>5, <4>2, <4>3 DEF isQueueEmpty
    <3>2. faults' \in 0 .. MaxTrouble
      BY <2>5 DEF isQueueEmpty, CommandLost, TypeOK
    <3> QED
      BY <1>5, <2>5, <3>1, <3>2 DEF isQueueEmpty, TypeOK, tables, player, history
  <2>6. CASE enqueue(r)
    <3>1. "mark" \in Steps \ {"idle", "pick"}
      BY DEF Steps
    <3>2. run' \in [Runs -> Run] /\ RunsHold'
      BY <2>6, <3>1, GoToLemma DEF enqueue, TypeOK, At, Holding
    <3>4. run[r].req \in Ids /\ run[r].track \in Tracks
      BY <2>6 DEF enqueue, At, RunsHold, Holding, TypeOK, Run
    <3>5. /\ queue \in Seq(Tracks)
          /\ queue' = queue \/ queue' = Append(queue, run[r].track)
      BY <2>6 DEF enqueue, HandOver, TypeOK, player
    <3>6. queue' \in Seq(Tracks)
      BY <3>4, <3>5, SequencesLemma
    <3>7. placed' \in [Ids -> Nat]
      BY <2>6, <3>4 DEF enqueue, HandOver, TypeOK
    <3>8. dropped' \subseteq Ids /\ faults' \in 0 .. MaxTrouble
      BY <2>6, <3>4 DEF enqueue, HandOver, CommandLost, TypeOK
    <3> QED
      BY <1>5, <2>6, <3>2, <3>6, <3>7, <3>8 DEF enqueue, HandOver, TypeOK, tables, player, LockTypeOK
  <2>7. CASE MarkPlayed(r)
    <3>1. request' \in [Ids -> Request]
      BY <2>7 DEF MarkPlayed, SetPlayedAt, TypeOK, Request, Kept
    <3> QED
      BY <1>5, <2>7, <3>1, EndsLemma DEF MarkPlayed, TypeOK, player, history
  <2>8. CASE StoreAndMark(r)
    <3>0. run[r].req \in Ids /\ run[r].track \in Tracks
      BY <2>8 DEF StoreAndMark, At, RunsHold, Holding, TypeOK, Run
    <3>1. request' \in [Ids -> Request]
      BY <2>8, <3>0, SetPlayedAtLemma DEF StoreAndMark, TypeOK
    <3>4. /\ queue \in Seq(Tracks)
          /\ queue' = queue \/ queue' = Append(queue, run[r].track)
      BY <2>8 DEF StoreAndMark, HandOver, TypeOK, player
    <3>5. queue' \in Seq(Tracks)
      BY <3>0, <3>4, SequencesLemma
    <3>6. placed' \in [Ids -> Nat] /\ rows' \in [Ids -> Nat]
      <4>1. /\ placed' = placed \/ placed' = [placed EXCEPT ![run[r].req] = @ + 1]
            /\ rows' = rows \/ rows' = [rows EXCEPT ![run[r].req] = @ + 1]
        BY <2>8 DEF StoreAndMark, HandOver, history
      <4>2. placed \in [Ids -> Nat] /\ rows \in [Ids -> Nat]
        BY DEF TypeOK
      <4>3. placed' \in [Ids -> Nat]
        BY <3>0, <4>1, <4>2
      <4>4. rows' \in [Ids -> Nat]
        BY <3>0, <4>1, <4>2
      <4> QED
        BY <4>3, <4>4
    <3>2. queue' \in Seq(Tracks) /\ placed' \in [Ids -> Nat] /\ rows' \in [Ids -> Nat]
      BY <3>5, <3>6
    <3>3. run' \in [Runs -> Run] /\ LockTypeOK' /\ RunsHold'
      BY <2>8, EndsLemma DEF StoreAndMark, TypeOK
    <3> QED
      BY <1>5, <2>8, <3>1, <3>2, <3>3 DEF StoreAndMark, HandOver, TypeOK, player, history
  <2> QED
    BY <1>9, <2>1, <2>2, <2>3, <2>4, <2>5, <2>6, <2>7, <2>8 DEF RunStep
<1>10. ASSUME NEW r \in Runs, RunDies(r) PROVE TypeInv'
  <2>1. crossed' \subseteq Ids
    BY <1>10 DEF RunDies, At, TypeOK, RunsHold, Holding
  <2> QED
    BY <1>5, <1>10, <2>1, EndsLemma DEF RunDies, TypeOK, tables, player
<1>11. ASSUME NEW r \in Runs, RunnerDies(r) PROVE TypeInv'
  <2>1. crossed' \subseteq Ids
    BY <1>11 DEF RunnerDies, At, TypeOK, RunsHold, Holding
  <2>2. RunsHold'
    BY <1>11 DEF RunnerDies, NoRun, RunsHold, Holding
  <2> QED
    BY <1>5, <1>11, <2>1, <2>2 DEF RunnerDies, TypeOK, tables, player, LockTypeOK
<1>12. ASSUME NEW r \in Runs, LockLapses(r) PROVE TypeInv'
  BY <1>5, <1>12 DEF LockLapses, Expire, TypeOK, tables, player, history, LockTypeOK
<1>13. ASSUME NEW r \in Runs, LockOutlived(r) PROVE TypeInv'
  <2>2. RunsHold'
    BY <1>13 DEF LockOutlived, NoRun, RunsHold, Holding, TypeOK
  <2>1. run' \in [Runs -> Run]
    BY <1>13 DEF LockOutlived, TypeOK, Run
  <2> QED
    BY <1>5, <1>13, <2>1, <2>2 DEF LockOutlived, Expire, TypeOK, tables, player, history, LockTypeOK
<1>14. CASE PlayRequest
  <2>2. queue \in Seq(Tracks) /\ queue # <<>> /\ queue' = Tail(queue)
    BY <1>14 DEF PlayRequest, TypeOK
  <2>3. Head(queue) \in Tracks /\ queue' \in Seq(Tracks)
    BY <2>2, SequencesLemma
  <2>4. heard' \in [Tracks -> Ages]
    BY <1>14, EntryLemma DEF PlayRequest, TypeOK
  <2>1. queue' \in Seq(Tracks) /\ heard' \in [Tracks -> Ages]
    BY <2>3, <2>4
  <2> QED
    BY <1>5, <1>14, <2>1 DEF PlayRequest, TypeOK, tables, history, LockTypeOK
<1>17. CASE PlayOther
  <2>1. heard' \in [Tracks -> Ages]
    BY <1>17, EntryLemma DEF PlayOther, TypeOK
  <2> QED
    BY <1>5, <1>17, <2>1 DEF PlayOther, TypeOK, tables, history, LockTypeOK
<1>15. CASE Tick
  <2>1. request' \in [Ids -> Request]
    BY <1>15, OlderLemma DEF Tick, TypeOK, Request
  <2>2. heard' \in [Tracks -> Ages]
    BY <1>15, OlderLemma DEF Tick, TypeOK
  <2> QED
    BY <1>5, <1>15, <2>1, <2>2 DEF Tick, TypeOK, history, LockTypeOK
<1>16. CASE UNCHANGED vars
  BY <1>5, <1>16 DEF TypeOK, LockTypeOK, vars, tables, player, history
<1> QED
  BY <1>1, <1>2, <1>3, <1>4, <1>6, <1>7, <1>8, <1>9, <1>10, <1>11, <1>12, <1>13,
     <1>14, <1>15, <1>16, <1>17 DEF Next, deleteAction, clearPendingRequests

\* Every reachable state is well typed, and there is room for the submissions
\* under way (StationRequestRepository, CheckRequestsTask).
THEOREM TypeCorrect == Spec => []TypeInv
BY InitTypes, StepTypes, PTL DEF Spec

\* The type invariant of the runs.
THEOREM TypesHold == Spec => []TypeOK
BY TypeCorrect, PTL DEF TypeInv

-----------------------------------------------------------------------------
(* The lock                                                                  *)

\* A lock is held by the run under it that has not outlived it.
LockInv == \A r \in Runs : /\ run[r].locked => run[r].at # "idle"
                           /\ (run[r].locked /\ ~run[r].late) => holder = r

\* Every step keeps the lock with its run.
LEMMA StepLock == TypeInv /\ LockInv /\ [Next]_vars => LockInv'
<1> SUFFICES ASSUME TypeInv, LockInv, [Next]_vars PROVE LockInv'
  OBVIOUS
<1>0. run \in [Runs -> Run] /\ holder \in Runs \cup {Nobody}
  BY DEF TypeInv, TypeOK, LockTypeOK
<1> USE <1>0
<1>1. UNCHANGED <<run, holder>> => LockInv'
  BY DEF LockInv
<1>2. ASSUME NEW r \in Runs, Ends(r) PROVE LockInv'
  <2>1. /\ run' = [run EXCEPT ![r] = NoRun] /\ NoRun.locked = FALSE
        /\ holder' = holder \/ holder = r
    BY <1>2 DEF Ends, Release, NoRun
  <2> QED
    BY <2>1 DEF LockInv
<1>3. ASSUME NEW r \in Runs, Holding(r), NEW step \in Steps \ {"idle", "pick"},
             GoTo(r, step), UNCHANGED holder
      PROVE  LockInv'
  BY <1>3 DEF GoTo, LockInv, Holding, Run
<1>4. ASSUME NEW r \in Runs, RunnerStarts(r) PROVE LockInv'
  BY <1>4 DEF RunnerStarts, Acquire, Begin, NoRun, LockInv
<1>5. ASSUME NEW r \in Runs, DebugStarts(r) PROVE LockInv'
  BY <1>5 DEF DebugStarts, Begin, NoRun, LockInv
<1>6. ASSUME NEW r \in Runs, RunStep(r) PROVE LockInv'
  <2>1. CASE PickRequest(r)
    <3>1. PICK step \in {"row", "store"}, i \in Playable :
             run' = [run EXCEPT ![r].at = step, ![r].req = i, ![r].track = request[i].track]
      BY <2>1 DEF PickRequest
    <3>2. /\ \A s \in Runs : /\ run'[s].locked = run[s].locked
                             /\ run'[s].late = run[s].late
                             /\ run[s].at # "idle" => run'[s].at # "idle"
          /\ UNCHANGED holder
      BY <2>1, <3>1 DEF PickRequest, Run
    <3> QED
      BY <3>2 DEF LockInv
  <2>2. CASE PicksNothing(r) \/ MarkPlayed(r) \/ StoreAndMark(r)
    BY <1>2, <2>2 DEF PicksNothing, MarkPlayed, StoreAndMark
  <2>3. CASE FindRow(r)
    BY <1>3, <2>3 DEF FindRow, NextOfRow, At, Holding, Steps
  <2>4. CASE CreateRow(r)
    BY <1>2, <1>3, <2>4 DEF CreateRow, At, Holding, Steps
  <2>5. CASE isQueueEmpty(r)
    BY <1>2, <1>3, <2>5 DEF isQueueEmpty, At, Holding, Steps
  <2>6. CASE enqueue(r)
    BY <1>3, <2>6 DEF enqueue, At, Holding, Steps
  <2> QED
    BY <1>6, <2>1, <2>2, <2>3, <2>4, <2>5, <2>6 DEF RunStep
<1>7. ASSUME NEW r \in Runs, RunDies(r) PROVE LockInv'
  BY <1>2, <1>7 DEF RunDies
<1>8. ASSUME NEW r \in Runs, RunnerDies(r) PROVE LockInv'
  BY <1>8 DEF RunnerDies, NoRun, LockInv
<1>9. ASSUME NEW r \in Runs, LockLapses(r) PROVE LockInv'
  BY <1>9 DEF LockLapses, Expire, LockInv
<1>10. ASSUME NEW r \in Runs, LockOutlived(r) PROVE LockInv'
  BY <1>10 DEF LockOutlived, Expire, LockInv, Run
<1>11. CASE \/ \E c \in Clients : \/ \E t \in Tracks : Submit(c, t)
                                  \/ SubmitChecks(c) \/ SubmitInsert(c)
            \/ \E t \in Tracks : doQueue(t)
            \/ \E i \in Ids : deleteAction(i)
            \/ clearPendingRequests \/ PlayRequest \/ PlayOther \/ Tick \/ UNCHANGED vars
  BY <1>1, <1>11 DEF Submit, SubmitChecks, SubmitInsert, doQueue, deleteAction,
      clearPendingRequests, PlayRequest, PlayOther, Tick, vars
<1> QED
  BY <1>4, <1>5, <1>6, <1>7, <1>8, <1>9, <1>10, <1>11 DEF Next

\* Two runs started under the lock are under way at once only when one of them has
\* outlived it (AbstractSyncCommand).
THEOREM LockHolds == Spec => []LockedRunsAlone
<1>1. Init => LockInv
  <2>1. NoRun.locked = FALSE
    BY DEF NoRun
  <2>2. Init => \A r \in Runs : run[r] = NoRun
    BY DEF Init
  <2> QED
    BY <2>1, <2>2 DEF LockInv
<1>2. TypeInv /\ LockInv => LockedRunsAlone
  BY DEF LockInv, LockedRunsAlone
<1> QED
  BY <1>1, <1>2, StepLock, TypeCorrect, PTL DEF Spec

-----------------------------------------------------------------------------
(* The submissions                                                           *)

\* A submission under way has seen no later request than there are, and none
\* pending of its track.
SubmittedInv ==
    \A c \in Clients : submission[c].at # "idle" =>
        /\ submission[c].seen <= stored
        /\ \A i \in Pending :
               request[i].track = submission[c].track => i > submission[c].seen

SubmissionInv ==
    /\ \A i \in Ids : i > stored => request[i].status = "none"
    /\ SubmittedInv
    /\ OnePendingPerTrack

\* What the other actions do to the requests: some are not pending any more.
Fades(i) == /\ request'[i].status = "pending" =>
                   /\ request[i].status = "pending"
                   /\ request'[i].track = request[i].track
                   /\ request'[i].skip_delay = request[i].skip_delay
                   /\ request'[i].seen = request[i].seen
            /\ request[i].status = "none" => request'[i].status = "none"

\* Requests that fade leave the submissions as they are.
LEMMA FadesLemma ==
  ASSUME SubmissionInv, \A i \in Ids : Fades(i), UNCHANGED <<stored, submission>>
  PROVE  SubmissionInv'
BY DEF SubmissionInv, SubmittedInv, OnePendingPerTrack, Pending, Fades

\* Marking a request as played fades it.
LEMMA MarkFades ==
  ASSUME request \in [Ids -> Request], NEW k \in Ids, SetPlayedAt(k)
  PROVE  \A i \in Ids : Fades(i)
BY DEF SetPlayedAt, Fades, Kept, Request

\* Removing requests fades them.
LEMMA RemoveFades ==
  ASSUME request \in [Ids -> Request], NEW gone \in SUBSET Kept, Remove(gone)
  PROVE  \A i \in Ids : Fades(i)
BY DEF Remove, Deleted, NoRequest, Fades, Kept

\* A new request is later than all that submissions have seen.
LEMMA InsertLemma ==
  ASSUME TypeInv, SubmissionInv, NEW new \in Request, Insert(new), stored + 1 \in Ids,
         new.status = "pending",
         \/ new.skip_delay /\ UNCHANGED submission
         \/ \E c \in Clients : /\ submission[c].at # "idle"
                               /\ new.track = submission[c].track
                               /\ new.seen = submission[c].seen
                               /\ submission' = [submission EXCEPT ![c] = NoSubmission]
  PROVE  SubmissionInv'
<1> DEFINE k == stored + 1
<1>1. /\ stored \in Nat /\ stored' = k
      /\ request \in [Ids -> Request]
      /\ submission \in [Clients -> Submission]
      /\ request'[k] = new
      /\ \A i \in Ids : i # k => request'[i] = request[i]
      /\ Pending' = Pending \cup {k}
      /\ \A i \in Ids : i \in Pending => i < k
  <2>1. stored \in Nat /\ stored' = k /\ request \in [Ids -> Request]
        /\ submission \in [Clients -> Submission]
    BY DEF TypeInv, TypeOK, Insert
  <2>2. request'[k] = new /\ \A i \in Ids : i # k => request'[i] = request[i]
    BY <2>1 DEF Insert
  <2>3. \A i \in Ids : i \in Pending => i < k
    BY <2>1 DEF SubmissionInv, Pending, Ids
  <2> QED
    BY <2>1, <2>2, <2>3 DEF Pending
<1>2. \A c \in Clients : submission'[c].at # "idle" =>
          submission'[c] = submission[c]
  BY <1>1 DEF NoSubmission
<1>3. \A i \in Ids : i > stored' => request'[i].status = "none"
  BY <1>1 DEF SubmissionInv, Ids
<1>4. SubmittedInv'
  <2> SUFFICES ASSUME NEW c \in Clients, submission'[c].at # "idle"
               PROVE  /\ submission'[c].seen <= stored'
                      /\ \A i \in Pending' :
                             request'[i].track = submission'[c].track => i > submission'[c].seen
    BY DEF SubmittedInv
  <2>1. submission'[c] = submission[c] /\ submission[c].seen <= stored
        /\ submission[c].seen \in Nat
    BY <1>1, <1>2 DEF SubmissionInv, SubmittedInv, Submission
  <2>2. \A i \in Pending : request[i].track = submission[c].track => i > submission[c].seen
    BY <2>1 DEF SubmissionInv, SubmittedInv
  <2> QED
    BY <1>1, <2>1, <2>2 DEF Pending, Ids
<1>5. OnePendingPerTrack'
  <2> SUFFICES ASSUME NEW i \in Pending', NEW j \in Pending', i < j,
                      request'[i].track = request'[j].track, ~request'[j].skip_delay
               PROVE  i > request'[j].seen
    BY DEF OnePendingPerTrack
  <2>1. i \in Pending /\ request'[i] = request[i]
    BY <1>1 DEF Pending, Ids
  <2>2. CASE j = k
    <3>1. PICK c \in Clients : /\ submission[c].at # "idle"
                               /\ new.track = submission[c].track
                               /\ new.seen = submission[c].seen
      BY <1>1, <2>2
    <3> QED
      BY <1>1, <2>1, <2>2, <3>1 DEF SubmissionInv, SubmittedInv
  <2>3. CASE j # k
    BY <1>1, <2>1, <2>3 DEF SubmissionInv, OnePendingPerTrack, Pending
  <2> QED
    BY <2>2, <2>3
<1> QED
  BY <1>3, <1>4, <1>5 DEF SubmissionInv

\* Every step keeps what submissions have seen true.
LEMMA StepSubmission == TypeInv /\ SubmissionInv /\ [Next]_vars => SubmissionInv'
<1> SUFFICES ASSUME TypeInv, SubmissionInv, [Next]_vars PROVE SubmissionInv'
  OBVIOUS
<1>0. /\ request \in [Ids -> Request]
      /\ submission \in [Clients -> Submission]
      /\ stored \in Nat /\ stored' \in 0 .. MaxRequests /\ MaxRequests \in Nat
      /\ RunsHold
  BY StepTypes, ConstantsLemma DEF TypeInv, TypeOK
<1> USE <1>0
<1>1. UNCHANGED <<request, stored, submission>> => SubmissionInv'
  BY DEF SubmissionInv, SubmittedInv, OnePendingPerTrack, Pending
<1>2. ASSUME NEW c \in Clients, NEW t \in Tracks, Submit(c, t) PROVE SubmissionInv'
  <2>1. \A i \in Pending : request[i].track # t
    BY <1>2 DEF Submit, checkPendingRequest, Kept, Pending
  <2>2. /\ submission'[c].seen = stored /\ submission'[c].track = t
        /\ \A d \in Clients : d # c => submission'[d] = submission[d]
        /\ UNCHANGED <<request, stored>>
    BY <1>2 DEF Submit, tables
  <2>3. SubmittedInv'
    BY <2>1, <2>2 DEF SubmissionInv, SubmittedInv, Pending
  <2> QED
    BY <2>2, <2>3 DEF SubmissionInv, OnePendingPerTrack, Pending
<1>3. ASSUME NEW c \in Clients, SubmitChecks(c) PROVE SubmissionInv'
  <2>1. /\ submission[c].at # "idle"
        /\ \/ submission'[c] = NoSubmission
           \/ submission'[c] = [submission[c] EXCEPT !.at = "insert"]
        /\ \A d \in Clients : d # c => submission'[d] = submission[d]
        /\ UNCHANGED <<request, stored>>
    BY <1>3 DEF SubmitChecks, tables
  <2>2. \A d \in Clients : submission'[d].at # "idle" =>
            /\ submission[d].at # "idle"
            /\ submission'[d].seen = submission[d].seen
            /\ submission'[d].track = submission[d].track
    BY <2>1 DEF NoSubmission, Submission
  <2>3. SubmittedInv'
    BY <2>1, <2>2 DEF SubmissionInv, SubmittedInv, Pending
  <2> QED
    BY <2>1, <2>3 DEF SubmissionInv, OnePendingPerTrack, Pending
<1>4. ASSUME NEW c \in Clients, SubmitInsert(c) PROVE SubmissionInv'
  <2> DEFINE new == [status |-> "pending", track |-> submission[c].track, by |-> c,
                     age |-> 0, skip_delay |-> FALSE, seen |-> submission[c].seen]
  <2>1. Insert(new) /\ submission[c].at # "idle"
        /\ submission' = [submission EXCEPT ![c] = NoSubmission]
    BY <1>4 DEF SubmitInsert
  <2>2. new \in Request
    BY ConstantsLemma DEF Request, Submission, Ages
  <2>3. stored + 1 \in Ids
    BY <2>1 DEF Insert, Ids
  <2> QED
    BY <2>1, <2>2, <2>3, InsertLemma
<1>5. ASSUME NEW t \in Tracks, doQueue(t) PROVE SubmissionInv'
  <2> DEFINE new == [status |-> "pending", track |-> t, by |-> Operator,
                     age |-> 0, skip_delay |-> TRUE, seen |-> stored]
  <2>1. Insert(new) /\ UNCHANGED submission
    BY <1>5 DEF doQueue
  <2>2. new \in Request
    BY ConstantsLemma DEF TypeInv, TypeOK, Request, Ages
  <2>3. stored + 1 \in Ids
    BY <2>1 DEF Insert, Ids
  <2> QED
    BY <2>1, <2>2, <2>3, InsertLemma
<1>6. ASSUME NEW i \in Ids, deleteAction(i) PROVE SubmissionInv'
  BY <1>6, RemoveFades, FadesLemma DEF deleteAction, Remove
<1>7. CASE clearPendingRequests
  BY <1>7, RemoveFades, FadesLemma DEF clearPendingRequests, Remove, Pending, Kept
<1>8. ASSUME NEW r \in Runs, RunStep(r) PROVE SubmissionInv'
  <2>1. CASE PickRequest(r) \/ PicksNothing(r) \/ FindRow(r) \/ isQueueEmpty(r) \/ enqueue(r)
    BY <1>1, <2>1 DEF PickRequest, PicksNothing, FindRow, isQueueEmpty, enqueue, tables
  <2>2. CASE CreateRow(r)
    BY <1>1, <2>2 DEF CreateRow, RowStored, tables
  <2>3. CASE MarkPlayed(r)
    <3>1. run[r].req \in Ids
      BY <2>3 DEF MarkPlayed, At, RunsHold, Holding
    <3> QED
      BY <2>3, <3>1, MarkFades, FadesLemma DEF MarkPlayed
  <2>4. CASE StoreAndMark(r)
    <3>1. run[r].req \in Ids
      BY <2>4 DEF StoreAndMark, At, RunsHold, Holding
    <3>2. SetPlayedAt(run[r].req) \/ UNCHANGED request
      BY <2>4 DEF StoreAndMark
    <3>3. UNCHANGED <<stored, submission>>
      BY <2>4 DEF StoreAndMark
    <3> QED
      BY <1>1, <3>1, <3>2, <3>3, MarkFades, FadesLemma
  <2> QED
    BY <1>8, <2>1, <2>2, <2>3, <2>4 DEF RunStep
<1>9. ASSUME NEW r \in Runs,
             \/ RunnerStarts(r) \/ DebugStarts(r) \/ RunDies(r) \/ RunnerDies(r)
             \/ LockLapses(r) \/ LockOutlived(r)
      PROVE  SubmissionInv'
  BY <1>1, <1>9 DEF RunnerStarts, DebugStarts, RunDies, RunnerDies, LockLapses,
      LockOutlived, tables
<1>10. CASE PlayRequest \/ PlayOther \/ UNCHANGED vars
  BY <1>1, <1>10 DEF PlayRequest, PlayOther, vars, tables
<1>11. CASE Tick
  <2>1. \A i \in Ids : Fades(i)
    BY <1>11 DEF Tick, Fades, Request
  <2> QED
    BY <1>11, <2>1, FadesLemma DEF Tick
<1> QED
  BY <1>2, <1>3, <1>4, <1>5, <1>6, <1>7, <1>8, <1>9, <1>10, <1>11 DEF Next

\* Two listeners' requests of a track are pending at once only when they were
\* submitted at once (StationRequestRepository::submit).
THEOREM OnePending == Spec => []OnePendingPerTrack
<1>1. Init => SubmissionInv
  BY ConstantsLemma DEF Init, NoRequest, NoSubmission, SubmissionInv, SubmittedInv,
      OnePendingPerTrack, Pending
<1>2. SubmissionInv => OnePendingPerTrack
  BY DEF SubmissionInv
<1> QED
  BY <1>1, <1>2, StepSubmission, TypeCorrect, PTL DEF Spec

-----------------------------------------------------------------------------
(* What the runs of the task hold                                            *)

\* Ids that are not used yet have no trace, and no run has one.
UnusedInv ==
    /\ \A i \in Ids : i > stored => /\ request[i].status = "none"
                                    /\ placed[i] = 0 /\ rows[i] = 0
    /\ \A r \in Runs : run[r].req <= stored

\* A station's runs go the way of its kind of AutoDJ.
WayInv == \A r \in Runs : /\ run[r].at = "store" => ~manual
                          /\ run[r].at \in {"row", "create", "queue", "push", "mark"} => manual

\* Two runs that hold a request have crossed.
AloneInv == \A r, s \in Runs :
                (r # s /\ Holding(r) /\ run[r].req = run[s].req) => run[r].req \in crossed

\* How often requests were handed over, by where they are.
PlacedInv ==
    /\ \A r \in Runs : Holding(r) =>
           /\ run[r].req \notin crossed =>
                  placed[run[r].req] \in IF run[r].at = "mark" THEN {0, 1} ELSE {0}
           /\ run[r].at = "mark" => placed[run[r].req] > 0 \/ run[r].req \in dropped
    /\ \A i \in Pending :
           (i \notin crossed /\ \A r \in Runs : run[r].req # i) => placed[i] = 0
    /\ PlacedOnce
    /\ PlayedWasPlaced

\* How many rows they have.
RowsInv ==
    /\ \A r \in Runs :
           (run[r].at \in {"create", "store"} /\ run[r].req \notin crossed)
               => rows[run[r].req] = 0
    /\ \A i \in Pending : (~manual /\ i \notin crossed) => rows[i] = 0
    /\ OneRowPerRequest

HeldInv == UnusedInv /\ WayInv /\ AloneInv /\ PlacedInv /\ RowsInv

\* Runs that hold the same requests at the same steps, or still none.
SameHeld(s) == \/ run'[s].at = run[s].at /\ run'[s].req = run[s].req
               \/ /\ ~Holding(s) /\ run'[s].at \in {"idle", "pick"}
                  /\ run'[s].req = 0

\* Requests that lose at most their rows and their being pending.
Loses(i) == /\ Fades(i)
            /\ request'[i].status = "played" => request[i].status = "played"
            /\ rows'[i] = rows[i] \/ rows'[i] = 0

\* Steps that hand nothing over and let no run go on with a request.
LEMMA QuietLemma ==
  ASSUME TypeInv, HeldInv, UNCHANGED <<manual, stored, crossed, placed, dropped>>,
         \A s \in Runs : SameHeld(s), \A i \in Ids : Loses(i)
  PROVE  HeldInv'
<1> USE DEF HeldInv, TypeInv, RunsHold
<1>1. \A i \in Ids : i \in Pending' => i \in Pending
  BY DEF Loses, Fades, Pending
<1>2. \A s \in Runs : Holding(s)' => /\ Holding(s) /\ run'[s].at = run[s].at
                                     /\ run'[s].req = run[s].req
  BY DEF SameHeld, Holding
<1>3. UnusedInv'
  BY DEF UnusedInv, SameHeld, Loses, Fades, TypeOK
<1>4. WayInv'
  BY <1>2 DEF WayInv, Holding
<1>5. AloneInv'
  BY <1>2 DEF AloneInv, SameHeld, Holding, Ids
<1>6. PlacedInv'
  <2>1. \A i \in Ids : (\A s \in Runs : run'[s].req # i) => \A s \in Runs : run[s].req # i
    BY DEF SameHeld, Holding, Ids
  <2>2. \A i \in Pending' : i \in Ids
    BY DEF Pending
  <2>3. PlayedWasPlaced'
    BY DEF PlacedInv, PlayedWasPlaced, Loses
  <2> QED
    BY <1>1, <1>2, <2>1, <2>2, <2>3 DEF PlacedInv, PlacedOnce
<1>7. RowsInv'
  <2>1. \A s \in Runs : run'[s].at \in {"create", "store"} => Holding(s)' /\ run[s].req \in Ids
    BY <1>2 DEF Holding
  <2>2. \A i \in Pending' : i \in Ids
    BY DEF Pending
  <2> QED
    BY <1>1, <1>2, <2>1, <2>2 DEF RowsInv, OneRowPerRequest, Loses
<1> QED
  BY <1>3, <1>4, <1>5, <1>6, <1>7

\* A new request has no trace yet.
LEMMA InsertHeld ==
  ASSUME TypeInv, HeldInv, NEW new, Insert(new), stored + 1 \in Ids,
         new.status = "pending", UNCHANGED <<manual, run, crossed, placed, dropped>>
  PROVE  HeldInv'
<1> DEFINE k == stored + 1
<1> USE DEF HeldInv, TypeInv, RunsHold
<1>1. /\ stored \in Nat /\ stored' = k /\ rows' = rows
      /\ request'[k] = new
      /\ \A i \in Ids : i # k => request'[i] = request[i]
      /\ Pending' \subseteq Pending \cup {k} /\ Pending \subseteq Ids
  BY DEF TypeOK, Insert, Pending
<1>2. \A s \in Runs : Holding(s)' = Holding(s)
  BY DEF Holding
<1>3. placed[k] = 0 /\ rows[k] = 0
  BY <1>1 DEF UnusedInv
<1>4. UnusedInv'
  <2>1. \A r \in Runs : run[r].req \in Nat /\ run[r].req <= stored
    BY DEF UnusedInv, TypeOK, Run
  <2>2. \A i \in Ids : i > k => i # k /\ i > stored
    BY <1>1 DEF Ids
  <2>3. \A r \in Runs : run'[r].req <= stored'
    BY <1>1, <2>1
  <2>4. \A i \in Ids : i > stored' => /\ request'[i].status = "none"
                                      /\ placed'[i] = 0 /\ rows'[i] = 0
    BY <1>1, <2>2 DEF UnusedInv
  <2> QED
    BY <2>3, <2>4 DEF UnusedInv
<1>5. WayInv' /\ AloneInv'
  BY <1>2 DEF WayInv, AloneInv
<1>6. PlacedInv'
  BY <1>1, <1>2, <1>3 DEF PlacedInv, PlacedOnce, PlayedWasPlaced
<1>7. RowsInv'
  BY <1>1, <1>3 DEF RowsInv, OneRowPerRequest
<1> QED
  BY <1>4, <1>5, <1>6, <1>7

\* A run picks a request.
LEMMA PickHeld ==
  ASSUME TypeInv, HeldInv, NEW r \in Runs, PickRequest(r)
  PROVE  HeldInv'
<1> USE DEF HeldInv, TypeInv, RunsHold
<1>1. PICK i \in Playable :
         /\ run' = [run EXCEPT ![r].at = IF manual THEN "row" ELSE "store",
                               ![r].req = i, ![r].track = request[i].track]
         /\ crossed' = IF \E s \in Runs : run[s].req = i THEN crossed \cup {i} ELSE crossed
  BY DEF PickRequest
<1>2. /\ i \in Pending /\ i \in Ids /\ i \in Nat /\ i # 0
      /\ run[r].at = "pick" /\ ~Holding(r) /\ run[r].req = 0
      /\ UNCHANGED <<manual, stored, request, rows, placed, dropped>>
  BY <1>1 DEF Playable, Pending, Ids, PickRequest, At, Holding, tables
<1>3. /\ run'[r].at \in {"row", "store"} /\ run'[r].req = i
      /\ run'[r].at = "store" => ~manual
      /\ run'[r].at = "row" => manual
      /\ \A s \in Runs : s # r => run'[s] = run[s]
  BY <1>1 DEF TypeOK, Run
<1>4. crossed \subseteq crossed'
  BY <1>1
<1>5. UnusedInv'
  <2>1. i <= stored
    BY <1>2 DEF UnusedInv, Pending, TypeOK, Ids
  <2> QED
    BY <1>2, <1>3, <2>1 DEF UnusedInv
<1>6. WayInv'
  BY <1>2, <1>3 DEF WayInv
<1>7. i \notin crossed' => \A s \in Runs : run[s].req # i
  BY <1>1
<1>8. AloneInv'
  BY <1>2, <1>3, <1>4, <1>7 DEF AloneInv, Holding
<1>9. PlacedInv'
  <2>1. i \notin crossed' => placed[i] = 0
    BY <1>2, <1>4, <1>7 DEF PlacedInv
  <2>2. \A k \in Ids : (\A s \in Runs : run'[s].req # k) => \A s \in Runs : run[s].req # k
    BY <1>2, <1>3 DEF Ids
  <2>3. \A s \in Runs : Holding(s)' =>
            /\ run'[s].req \notin crossed' =>
                   placed'[run'[s].req] \in IF run'[s].at = "mark" THEN {0, 1} ELSE {0}
            /\ run'[s].at = "mark" => placed'[run'[s].req] > 0 \/ run'[s].req \in dropped'
    BY <1>2, <1>3, <1>4, <2>1 DEF PlacedInv, Holding
  <2>4. \A k \in Pending' :
            (k \notin crossed' /\ \A s \in Runs : run'[s].req # k) => placed'[k] = 0
    BY <1>2, <1>4, <2>2 DEF PlacedInv, Pending
  <2> QED
    BY <1>2, <1>4, <2>3, <2>4 DEF PlacedInv, PlacedOnce, PlayedWasPlaced
<1>10. RowsInv'
  BY <1>2, <1>3, <1>4 DEF RowsInv, OneRowPerRequest, Pending
<1> QED
  BY <1>5, <1>6, <1>8, <1>9, <1>10

\* A run goes on to its next step, and may store a row of its request or hand it over.
LEMMA GoOnHeld ==
  ASSUME TypeInv, HeldInv, NEW r \in Runs, Holding(r), manual,
         NEW step \in {"create", "queue", "push", "mark"}, GoTo(r, step),
         UNCHANGED <<manual, stored, request, crossed>>,
         step = "create" => rows[run[r].req] = 0,
         \/ UNCHANGED rows
         \/ /\ run[r].at = "create" /\ step = "queue"
            /\ rows' = [rows EXCEPT ![run[r].req] = @ + 1],
         \/ UNCHANGED <<placed, dropped>> /\ step # "mark" /\ run[r].at # "mark"
         \/ /\ step = "mark" /\ run[r].at = "push"
            /\ \/ placed' = [placed EXCEPT ![run[r].req] = @ + 1] /\ UNCHANGED dropped
               \/ UNCHANGED placed /\ dropped' = dropped \cup {run[r].req}
  PROVE  HeldInv'
<1> USE DEF HeldInv, TypeInv, RunsHold
<1> DEFINE i == run[r].req
<1>1. /\ i \in Ids /\ i <= stored
      /\ placed \in [Ids -> Nat] /\ rows \in [Ids -> Nat]
      /\ i # 0 /\ run[r].at # "store"
      /\ stored \in Nat /\ Ids \subseteq Nat
  BY DEF UnusedInv, Ids, WayInv, TypeOK
<1>2. /\ run'[r].at = step /\ run'[r].req = i
      /\ \A s \in Runs : s # r => run'[s] = run[s]
  BY DEF GoTo, TypeOK, Run
<1>3. \A s \in Runs : Holding(s)' = Holding(s) /\ run'[s].req = run[s].req
  BY <1>2 DEF Holding
<1>4. UnusedInv'
  <2>1. \A k \in Ids : k > stored => k # i
    <3> HIDE DEF i
    <3> QED
      BY <1>1 DEF Ids
  <2> QED
    BY <1>1, <1>3, <2>1 DEF UnusedInv
<1>5. WayInv'
  BY <1>2 DEF WayInv
<1>6. AloneInv'
  BY <1>3 DEF AloneInv
<1>7. PlacedInv'
  <2>0. /\ \A k \in Ids : placed[k] \in Nat /\ (k # i => placed'[k] = placed[k])
        /\ dropped \subseteq dropped'
    BY <1>1
  <2>1. CASE UNCHANGED <<placed, dropped>> /\ step # "mark" /\ run[r].at # "mark"
    BY <1>2, <1>3, <2>1 DEF PlacedInv, PlacedOnce, PlayedWasPlaced, Pending
  <2>2. CASE /\ step = "mark" /\ run[r].at = "push"
             /\ \/ placed'[i] = placed[i] + 1
                \/ placed'[i] = placed[i] /\ i \in dropped'
    <3>1. i \notin crossed => placed[i] = 0
      BY <2>2 DEF PlacedInv
    <3>7. /\ placed'[i] > 0 \/ i \in dropped'
          /\ i \notin crossed => placed'[i] \in {0, 1}
      <4>1. placed[i] \in Nat
        BY <1>1
      <4> HIDE DEF i
      <4> QED
        BY <2>2, <3>1, <4>1
    <3>2. \A s \in Runs : (s # r /\ Holding(s) /\ i \notin crossed) => run[s].req # i
      BY DEF AloneInv
    <3>3. \A s \in Runs : Holding(s)' =>
              /\ run'[s].req \notin crossed' =>
                     placed'[run'[s].req] \in IF run'[s].at = "mark" THEN {0, 1} ELSE {0}
              /\ run'[s].at = "mark" => placed'[run'[s].req] > 0 \/ run'[s].req \in dropped'
      <4> SUFFICES ASSUME NEW s \in Runs, Holding(s)
                   PROVE  /\ run'[s].req \notin crossed =>
                                 placed'[run'[s].req] \in IF run'[s].at = "mark" THEN {0, 1} ELSE {0}
                          /\ run'[s].at = "mark" => placed'[run'[s].req] > 0 \/ run'[s].req \in dropped'
        BY <1>3
      <4>1. CASE s = r
        BY <1>2, <2>2, <3>7, <4>1
      <4>2. CASE s # r /\ run[s].req # i
        BY <1>2, <2>0, <4>2 DEF PlacedInv
      <4>3. CASE s # r /\ run[s].req = i
        <5>1. i \in crossed
          BY <3>2, <4>3
        <5>2. run'[s].req = i
          BY <1>3, <4>3
        <5> QED
          BY <3>7, <5>1, <5>2
      <4> QED
        BY <4>1, <4>2, <4>3
    <3>4. \A k \in Pending' :
              (k \notin crossed' /\ \A s \in Runs : run'[s].req # k) => placed'[k] = 0
      BY <1>2, <1>3, <2>0 DEF PlacedInv, Pending
    <3>5. PlacedOnce'
      <4>1. \A k \in Ids : k # i => (placed'[k] > 1 => k \in crossed')
        BY <2>0 DEF PlacedInv, PlacedOnce
      <4>2. placed'[i] > 1 => i \in crossed'
        <5> HIDE DEF i
        <5> QED
          BY <3>7
      <4> HIDE DEF i
      <4> QED
        BY <4>1, <4>2 DEF PlacedOnce
    <3>6. PlayedWasPlaced'
      <4>1. \A k \in Ids : k # i =>
                (request'[k].status = "played" => placed'[k] > 0 \/ k \in dropped')
        BY <2>0 DEF PlacedInv, PlayedWasPlaced
      <4> HIDE DEF i
      <4> QED
        BY <3>7, <4>1 DEF PlayedWasPlaced
    <3> QED
      BY <3>3, <3>4, <3>5, <3>6 DEF PlacedInv
  <2> QED
    BY <1>1, <2>1, <2>2
<1>8. RowsInv'
  <2>0. \A k \in Ids : rows[k] \in Nat /\ (k # i => rows'[k] = rows[k])
    BY <1>1
  <2>1. CASE UNCHANGED rows
    BY <1>2, <1>3, <2>1 DEF RowsInv, OneRowPerRequest, Pending
  <2>2. CASE run[r].at = "create" /\ step = "queue" /\ rows'[i] = rows[i] + 1
    <3>1. i \notin crossed => rows[i] = 0
      BY <2>2 DEF RowsInv
    <3>2. \A s \in Runs : (s # r /\ Holding(s) /\ i \notin crossed) => run[s].req # i
      BY DEF AloneInv
    <3>3. \A s \in Runs :
              (run'[s].at \in {"create", "store"} /\ run'[s].req \notin crossed')
                  => rows'[run'[s].req] = 0
      <4> SUFFICES ASSUME NEW s \in Runs, run'[s].at \in {"create", "store"},
                          run'[s].req \notin crossed
                   PROVE  rows'[run'[s].req] = 0
        OBVIOUS
      <4>1. CASE s = r
        BY <1>2, <2>2, <4>1
      <4>2. CASE s # r
        <5>1. Holding(s) /\ run'[s] = run[s] /\ run[s].req \in Ids
          BY <1>2, <4>2 DEF Holding
        <5> QED
          BY <2>0, <3>2, <4>2, <5>1 DEF RowsInv
      <4> QED
        BY <4>1, <4>2
    <3>4. OneRowPerRequest'
      BY <1>1, <2>0, <2>2, <3>1 DEF RowsInv, OneRowPerRequest
    <3>5. \A k \in Pending' : (~manual' /\ k \notin crossed') => rows'[k] = 0
      OBVIOUS
    <3> QED
      BY <3>3, <3>4, <3>5 DEF RowsInv
  <2> QED
    BY <1>1, <2>1, <2>2
<1> QED
  BY <1>4, <1>5, <1>6, <1>7, <1>8

\* The others hold what they held when a run ends that held a request.
Left(r) ==
    /\ run[r].req \in Ids /\ run[r].req <= stored
    /\ run'[r].req = 0 /\ run'[r].at = "idle"
    /\ \A s \in Runs : s # r => run'[s] = run[s]
    /\ \A s \in Runs : Holding(s)' => /\ s # r /\ Holding(s)
                                      /\ run[s].req \in Ids
                                      /\ run[r].req \notin crossed => run[s].req # run[r].req
    /\ \A k \in Ids : (k # run[r].req /\ \A s \in Runs : run'[s].req # k)
                          => \A s \in Runs : run[s].req # k
    /\ \A s \in Runs : run'[s].req <= stored'

\* A run that ends with a request leaves the others as they are.
LEMMA LeftLemma ==
  ASSUME TypeInv, HeldInv, NEW r \in Runs, Holding(r), run' = [run EXCEPT ![r] = NoRun],
         UNCHANGED <<manual, stored>>, crossed \subseteq crossed'
  PROVE  Left(r) /\ WayInv' /\ AloneInv'
<1> USE DEF HeldInv, TypeInv, RunsHold
<1>1. /\ run[r].req \in Ids /\ run[r].req <= stored
      /\ run'[r].req = 0 /\ run'[r].at = "idle"
      /\ \A s \in Runs : s # r => run'[s] = run[s]
  BY DEF UnusedInv, TypeOK, NoRun
<1>2. \A s \in Runs : Holding(s)' => s # r /\ Holding(s) /\ run[s].req \in Ids
  BY <1>1 DEF Holding
<1>3. \A s \in Runs : (s # r /\ Holding(s) /\ run[r].req \notin crossed)
                          => run[s].req # run[r].req
  BY DEF AloneInv
<1>4. \A k \in Ids : (k # run[r].req /\ \A s \in Runs : run'[s].req # k)
                         => \A s \in Runs : run[s].req # k
  BY <1>1
<1>5. \A s \in Runs : run'[s].req <= stored'
  <2>1. 0 <= stored
    BY DEF TypeOK
  <2> QED
    BY <1>1, <2>1 DEF UnusedInv
<1>6. WayInv'
  BY <1>1 DEF WayInv
<1>7. AloneInv'
  <2> SUFFICES ASSUME NEW p \in Runs, NEW q \in Runs, p # q, Holding(p)',
                      run'[p].req = run'[q].req
               PROVE  run'[p].req \in crossed'
    BY DEF AloneInv
  <2>1. p # r /\ Holding(p) /\ run'[p] = run[p] /\ run[p].req \in Ids
    BY <1>1, <1>2
  <2>2. q # r
    BY <1>1, <2>1 DEF Ids
  <2> QED
    BY <1>1, <2>1, <2>2 DEF AloneInv
<1> QED
  BY <1>1, <1>2, <1>3, <1>4, <1>5, <1>6, <1>7 DEF Left

\* A run ends, or is killed, before it has handed its request over, or after that but
\* before the request is marked; the latter counts as crossing.
LEMMA DropHeld ==
  ASSUME TypeInv, HeldInv, NEW r \in Runs, Holding(r), run' = [run EXCEPT ![r] = NoRun],
         UNCHANGED <<manual, stored, request, rows, placed, dropped>>,
         crossed \subseteq crossed',
         run[r].at = "mark" => run[r].req \in crossed'
  PROVE  HeldInv'
<1>0. Left(r) /\ WayInv' /\ AloneInv'
  BY LeftLemma
<1> USE <1>0 DEF HeldInv, TypeInv, RunsHold
<1>1. UnusedInv'
  BY DEF UnusedInv, Left
<1>2. PlacedInv'
  <2>1. \A s \in Runs : Holding(s)' =>
            /\ run'[s].req \notin crossed' =>
                   placed'[run'[s].req] \in IF run'[s].at = "mark" THEN {0, 1} ELSE {0}
            /\ run'[s].at = "mark" => placed'[run'[s].req] > 0 \/ run'[s].req \in dropped'
    BY DEF PlacedInv, Left
  <2>2. run[r].req \notin crossed' => placed[run[r].req] = 0
    BY DEF PlacedInv
  <2>3. \A k \in Pending' :
            (k \notin crossed' /\ \A s \in Runs : run'[s].req # k) => placed'[k] = 0
    BY <2>2 DEF PlacedInv, Pending, Left
  <2> QED
    BY <2>1, <2>3 DEF PlacedInv, PlacedOnce, PlayedWasPlaced
<1>3. RowsInv'
  BY DEF RowsInv, OneRowPerRequest, Pending, Left
<1> QED
  BY <1>1, <1>2, <1>3

\* A run marks the request it has handed over.
LEMMA MarkHeld ==
  ASSUME TypeInv, HeldInv, NEW r \in Runs, MarkPlayed(r)
  PROVE  HeldInv'
<1> DEFINE i == run[r].req
<1>0. /\ Holding(r) /\ run[r].at = "mark" /\ run' = [run EXCEPT ![r] = NoRun]
      /\ UNCHANGED <<manual, stored, rows, placed, crossed, dropped>> /\ SetPlayedAt(i)
  BY DEF MarkPlayed, At, Holding, Ends, history
<1>9. Left(r) /\ WayInv' /\ AloneInv'
  BY <1>0, LeftLemma
<1> USE <1>0, <1>9 DEF HeldInv, TypeInv, RunsHold
<1>1. /\ i \in Ids /\ (placed[i] > 0 \/ i \in dropped)
      /\ i \notin Pending'
      /\ \A k \in Ids : k # i => request'[k] = request[k]
      /\ request[i].status = "none" => request'[i].status = "none"
  BY DEF SetPlayedAt, Kept, Pending, PlacedInv, TypeOK, Request, Left
<1>2. UnusedInv'
  BY <1>1 DEF UnusedInv, Left
<1>3. PlacedInv'
  <2>1. \A s \in Runs : Holding(s)' =>
            /\ run'[s].req \notin crossed' =>
                   placed'[run'[s].req] \in IF run'[s].at = "mark" THEN {0, 1} ELSE {0}
            /\ run'[s].at = "mark" => placed'[run'[s].req] > 0 \/ run'[s].req \in dropped'
    BY DEF PlacedInv, Left
  <2>2. \A k \in Pending' :
            (k \notin crossed' /\ \A s \in Runs : run'[s].req # k) => placed'[k] = 0
    BY <1>1 DEF PlacedInv, Pending, Left
  <2> QED
    BY <1>1, <2>1, <2>2 DEF PlacedInv, PlacedOnce, PlayedWasPlaced
<1>4. RowsInv'
  BY <1>1 DEF RowsInv, OneRowPerRequest, Pending, Left
<1> QED
  BY <1>2, <1>3, <1>4

\* The queue builder stores, marks and hands over at once.
LEMMA StoreHeld ==
  ASSUME TypeInv, HeldInv, NEW r \in Runs, StoreAndMark(r), run[r].req \in Kept
  PROVE  HeldInv'
<1> DEFINE i == run[r].req
<1>0. /\ Holding(r) /\ run[r].at = "store" /\ run' = [run EXCEPT ![r] = NoRun]
      /\ UNCHANGED <<manual, stored, crossed, dropped>>
      /\ request' = [request EXCEPT ![i].status = "played"]
      /\ rows' = [rows EXCEPT ![i] = @ + 1]
      /\ placed' = [placed EXCEPT ![i] = @ + 1]
  BY DEF StoreAndMark, SetPlayedAt, At, Holding, Ends, HandOver
<1>9. Left(r) /\ WayInv' /\ AloneInv'
  BY <1>0, LeftLemma
<1> USE <1>0, <1>9 DEF HeldInv, TypeInv, RunsHold
<1>1. /\ i \in Ids /\ i \notin Pending'
      /\ \A k \in Ids : k # i => request'[k] = request[k]
      /\ request[i].status # "none"
  BY DEF Kept, Pending, TypeOK, Request, Left
<1>2. /\ \A k \in Ids : k # i => rows'[k] = rows[k] /\ placed'[k] = placed[k]
      /\ rows'[i] = rows[i] + 1 /\ placed'[i] = placed[i] + 1
      /\ \A k \in Ids : rows[k] \in Nat /\ placed[k] \in Nat
  BY <1>1 DEF TypeOK
<1>3. i \notin crossed => rows[i] = 0 /\ placed[i] = 0
  BY DEF RowsInv, PlacedInv
<1>4. \A s \in Runs : (Holding(s)' /\ i \notin crossed) => s # r /\ run'[s].req # i
  BY DEF Left
<1>5. UnusedInv'
  <2>1. \A k \in Ids : k > stored => k # i
    <3>1. i <= stored /\ i \in Nat /\ stored \in Nat
      BY <1>1 DEF Left, TypeOK, Ids
    <3> HIDE DEF i
    <3> QED
      BY <3>1 DEF Ids
  <2> QED
    BY <1>1, <1>2, <2>1 DEF UnusedInv, Left
<1>6. PlacedInv'
  <2>1. \A s \in Runs : Holding(s)' =>
            /\ run'[s].req \notin crossed' =>
                   placed'[run'[s].req] \in IF run'[s].at = "mark" THEN {0, 1} ELSE {0}
            /\ run'[s].at = "mark" => placed'[run'[s].req] > 0 \/ run'[s].req \in dropped'
    <3> SUFFICES ASSUME NEW s \in Runs, Holding(s)', s # r
                 PROVE  /\ run'[s].req \notin crossed' =>
                               placed'[run'[s].req] \in IF run'[s].at = "mark" THEN {0, 1} ELSE {0}
                        /\ run'[s].at = "mark" => placed'[run'[s].req] > 0 \/ run'[s].req \in dropped'
      BY DEF Left
    <3>1. run'[s] = run[s] /\ Holding(s) /\ run[s].req \in Ids
      BY DEF Left
    <3>2. CASE run[s].req # i
      BY <1>2, <3>1, <3>2 DEF PlacedInv
    <3>3. CASE run[s].req = i
      <4>1. i \in crossed
        BY <1>4, <3>1, <3>3
      <4>2. placed'[i] > 0
        <5>1. placed[i] \in Nat /\ placed'[i] = placed[i] + 1
          BY <1>1, <1>2
        <5> HIDE DEF i
        <5> QED
          BY <5>1
      <4> QED
        BY <3>1, <3>3, <4>1, <4>2
    <3> QED
      BY <3>2, <3>3
  <2>2. \A k \in Pending' :
            (k \notin crossed' /\ \A s \in Runs : run'[s].req # k) => placed'[k] = 0
    BY <1>1, <1>2 DEF PlacedInv, Pending, Left
  <2>3. PlacedOnce' /\ PlayedWasPlaced'
    <3>1. \A k \in Ids : k # i => (placed'[k] > 1 => k \in crossed')
                                  /\ (request'[k].status = "played" => placed'[k] > 0 \/ k \in dropped')
      BY <1>1, <1>2 DEF PlacedInv, PlacedOnce, PlayedWasPlaced
    <3>2. placed'[i] > 0 /\ (placed'[i] > 1 => i \in crossed')
      <4>1. placed[i] \in Nat /\ placed'[i] = placed[i] + 1 /\ (i \notin crossed' => placed[i] = 0)
        BY <1>1, <1>2, <1>3
      <4> HIDE DEF i
      <4> QED
        BY <4>1
    <3> HIDE DEF i
    <3> QED
      BY <3>1, <3>2 DEF PlacedOnce, PlayedWasPlaced
  <2> QED
    BY <2>1, <2>2, <2>3 DEF PlacedInv
<1>7. RowsInv'
  <2>1. \A s \in Runs :
            (run'[s].at \in {"create", "store"} /\ run'[s].req \notin crossed')
                => rows'[run'[s].req] = 0
    <3> SUFFICES ASSUME NEW s \in Runs, run'[s].at \in {"create", "store"},
                        run'[s].req \notin crossed'
                 PROVE  rows'[run'[s].req] = 0
      OBVIOUS
    <3>0. Holding(s)'
      BY DEF Holding
    <3>1. s # r /\ run'[s] = run[s] /\ Holding(s) /\ run[s].req \in Ids
      BY <3>0 DEF Left
    <3>2. run[s].req # i
      BY <1>4, <3>0, <3>1
    <3> QED
      BY <1>2, <3>1, <3>2 DEF RowsInv
  <2>2. OneRowPerRequest'
    BY <1>1, <1>2, <1>3 DEF RowsInv, OneRowPerRequest
  <2>3. \A k \in Pending' : (~manual' /\ k \notin crossed') => rows'[k] = 0
    BY <1>1, <1>2 DEF RowsInv, Pending
  <2> QED
    BY <2>1, <2>2, <2>3 DEF RowsInv
<1> QED
  BY <1>5, <1>6, <1>7

\* A run that holds nothing changes nothing by ending.
LEMMA EndsHeld ==
  ASSUME TypeInv, HeldInv, NEW r \in Runs, Ends(r), run[r].at # "mark",
         UNCHANGED <<manual, stored, request, rows, placed, crossed, dropped>>
  PROVE  HeldInv'
<1>0. run \in [Runs -> Run] /\ run' = [run EXCEPT ![r] = NoRun]
  BY DEF TypeInv, TypeOK, Ends
<1>1. CASE Holding(r)
  BY <1>0, <1>1, DropHeld
<1>2. CASE ~Holding(r)
  <2>1. \A s \in Runs : SameHeld(s)
    BY <1>0, <1>2 DEF SameHeld, NoRun
  <2>2. \A i \in Ids : Loses(i)
    BY DEF Loses, Fades
  <2> QED
    BY <2>1, <2>2, QuietLemma
<1> QED
  BY <1>1, <1>2

\* Every step keeps what runs hold and what requests have been handed over.
LEMMA StepHeld == TypeInv /\ HeldInv /\ [Next]_vars => HeldInv'
<1> SUFFICES ASSUME TypeInv, HeldInv, [Next]_vars PROVE HeldInv'
  OBVIOUS
<1>0. /\ request \in [Ids -> Request] /\ run \in [Runs -> Run]
      /\ stored \in Nat /\ stored' \in 0 .. MaxRequests /\ MaxRequests \in Nat
      /\ WayInv
  BY StepTypes, ConstantsLemma DEF TypeInv, TypeOK, HeldInv
<1> USE <1>0
\* Steps that leave the runs alone, and those that leave the requests alone.
<1>1. UNCHANGED run => \A s \in Runs : SameHeld(s)
  BY DEF SameHeld
<1>2. UNCHANGED <<request, rows>> => \A i \in Ids : Loses(i)
  BY DEF Loses, Fades
<1>3. ASSUME NEW gone \in SUBSET Kept, Remove(gone),
             UNCHANGED <<manual, run, history>>
      PROVE  HeldInv'
  <2>1. \A i \in Ids : Loses(i)
    BY <1>3, RemoveFades DEF Loses, Remove, Deleted
  <2> QED
    BY <1>1, <1>3, <2>1, QuietLemma DEF Remove, history
<1>4. ASSUME NEW c \in Clients, SubmitInsert(c) PROVE HeldInv'
  <2> DEFINE new == [status |-> "pending", track |-> submission[c].track, by |-> c,
                     age |-> 0, skip_delay |-> FALSE, seen |-> submission[c].seen]
  <2>1. Insert(new) /\ UNCHANGED <<manual, run, crossed, placed, dropped>>
    BY <1>4 DEF SubmitInsert, history
  <2>2. stored + 1 \in Ids
    BY <2>1 DEF Insert, Ids
  <2> QED
    BY <2>1, <2>2, InsertHeld
<1>5. ASSUME NEW t \in Tracks, doQueue(t) PROVE HeldInv'
  <2> DEFINE new == [status |-> "pending", track |-> t, by |-> Operator,
                     age |-> 0, skip_delay |-> TRUE, seen |-> stored]
  <2>1. Insert(new) /\ UNCHANGED <<manual, run, crossed, placed, dropped>>
    BY <1>5 DEF doQueue, history
  <2>2. stored + 1 \in Ids
    BY <2>1 DEF Insert, Ids
  <2> QED
    BY <2>1, <2>2, InsertHeld
<1>6. ASSUME NEW r \in Runs, RunStep(r) PROVE HeldInv'
  <2> DEFINE step == run'[r].at
  <2>1. CASE PickRequest(r)
    BY <2>1, PickHeld
  <2>2. CASE PicksNothing(r)
    BY <2>2, EndsHeld DEF PicksNothing, At, tables, history
  <2>3. CASE FindRow(r)
    <3>1. /\ Holding(r) /\ manual /\ run[r].at = "row"
          /\ UNCHANGED <<manual, stored, request, crossed, rows, placed, dropped>>
      BY <2>3 DEF FindRow, At, Holding, WayInv, tables, history
    <3>2. CASE rows[run[r].req] > 0
      <4>1. GoTo(r, "queue")
        BY <2>3, <3>2 DEF FindRow, NextOfRow
      <4> QED
        BY <3>1, <4>1, GoOnHeld
    <3>3. CASE ~(rows[run[r].req] > 0)
      <4>1. GoTo(r, "create")
        BY <2>3, <3>3 DEF FindRow, NextOfRow
      <4>2. rows[run[r].req] = 0
        <5>1. rows[run[r].req] \in Nat
          BY <3>1 DEF TypeInv, TypeOK, RunsHold
        <5> QED
          BY <3>3, <5>1
      <4> QED
        BY <3>1, <4>1, <4>2, GoOnHeld
    <3> QED
      BY <3>2, <3>3
  <2>4. CASE CreateRow(r)
    <3>1. /\ Holding(r) /\ manual /\ run[r].at = "create"
          /\ UNCHANGED <<manual, stored, request, crossed, placed, dropped>>
      BY <2>4 DEF CreateRow, RowStored, At, Holding, WayInv, tables, history
    <3>2. CASE run[r].req \in Kept
      <4>1. GoTo(r, "queue") /\ rows' = [rows EXCEPT ![run[r].req] = @ + 1]
        BY <2>4, <3>2 DEF CreateRow, RowStored
      <4> QED
        BY <3>1, <4>1, GoOnHeld
    <3>3. CASE run[r].req \notin Kept
      BY <2>4, <3>1, <3>3, EndsHeld DEF CreateRow, tables
    <3> QED
      BY <3>2, <3>3
  <2>5. CASE isQueueEmpty(r)
    <3>1. /\ Holding(r) /\ manual /\ run[r].at = "queue"
          /\ UNCHANGED <<manual, stored, request, crossed, rows, placed, dropped>>
      BY <2>5 DEF isQueueEmpty, At, Holding, WayInv, tables, history
    <3>2. CASE GoTo(r, "push")
      BY <3>1, <3>2, GoOnHeld
    <3>3. CASE Ends(r)
      BY <3>1, <3>3, EndsHeld
    <3> QED
      BY <2>5, <3>2, <3>3 DEF isQueueEmpty
  <2>6. CASE enqueue(r)
    <3>1. /\ Holding(r) /\ manual /\ run[r].at = "push" /\ GoTo(r, "mark")
          /\ UNCHANGED <<manual, stored, request, crossed, rows>>
          /\ \/ placed' = [placed EXCEPT ![run[r].req] = @ + 1] /\ UNCHANGED dropped
             \/ UNCHANGED placed /\ dropped' = dropped \cup {run[r].req}
      BY <2>6 DEF enqueue, HandOver, At, Holding, WayInv, tables
    <3> QED
      BY <3>1, GoOnHeld
  <2>7. CASE MarkPlayed(r)
    BY <2>7, MarkHeld
  <2>8. CASE StoreAndMark(r)
    <3>1. CASE run[r].req \in Kept
      BY <2>8, <3>1, StoreHeld
    <3>2. CASE run[r].req \notin Kept
      BY <2>8, <3>2, EndsHeld DEF StoreAndMark, At, history
    <3> QED
      BY <3>1, <3>2
  <2> QED
    BY <1>6, <2>1, <2>2, <2>3, <2>4, <2>5, <2>6, <2>7, <2>8 DEF RunStep
<1>7. ASSUME NEW r \in Runs, RunDies(r) \/ (RunnerDies(r) /\ Holding(r)) PROVE HeldInv'
  <2>1. /\ Holding(r) /\ run' = [run EXCEPT ![r] = NoRun]
        /\ UNCHANGED <<manual, stored, request, rows, placed, dropped>>
        /\ crossed \subseteq crossed'
        /\ run[r].at = "mark" => run[r].req \in crossed'
    BY <1>7 DEF RunDies, RunnerDies, Holding, Ends, At, tables
  <2> QED
    BY <2>1, DropHeld
<1>8. ASSUME NEW r \in Runs,
             \/ RunnerStarts(r) \/ DebugStarts(r) \/ LockLapses(r) \/ LockOutlived(r)
             \/ RunnerDies(r) /\ ~Holding(r)
      PROVE  HeldInv'
  <2>1. \A s \in Runs : SameHeld(s)
    <3>1. CASE RunnerStarts(r) \/ DebugStarts(r)
      BY <3>1 DEF RunnerStarts, DebugStarts, Begin, NoRun, SameHeld, Holding
    <3>2. CASE LockLapses(r)
      BY <1>1, <3>2 DEF LockLapses
    <3>3. CASE LockOutlived(r)
      BY <3>3 DEF LockOutlived, SameHeld, Run
    <3>4. CASE RunnerDies(r) /\ ~Holding(r)
      BY <3>4 DEF RunnerDies, NoRun, SameHeld
    <3> QED
      BY <1>8, <3>1, <3>2, <3>3, <3>4
  <2>2. UNCHANGED <<manual, stored, request, rows, placed, crossed, dropped>>
    BY <1>8 DEF RunnerStarts, DebugStarts, LockLapses, LockOutlived, RunnerDies,
        At, Holding, tables, history
  <2> QED
    BY <1>2, <2>1, <2>2, QuietLemma
<1>9. CASE \/ \E c \in Clients : \/ \E t \in Tracks : Submit(c, t)
                                 \/ SubmitChecks(c)
           \/ PlayRequest \/ PlayOther \/ UNCHANGED vars
  <2>1. UNCHANGED <<manual, stored, request, rows, run, placed, crossed, dropped>>
    BY <1>9 DEF Submit, SubmitChecks, PlayRequest, PlayOther, vars, tables, history
  <2> QED
    BY <1>1, <1>2, <2>1, QuietLemma
<1>10. CASE Tick
  <2>1. \A i \in Ids : Loses(i)
    BY <1>10 DEF Tick, Loses, Fades, Request
  <2> QED
    BY <1>1, <1>10, <2>1, QuietLemma DEF Tick, history
<1>11. ASSUME NEW i \in Ids, deleteAction(i) PROVE HeldInv'
  BY <1>3, <1>11 DEF deleteAction
<1>12. CASE clearPendingRequests
  BY <1>3, <1>12 DEF clearPendingRequests, Pending, Kept
<1> QED
  BY <1>4, <1>5, <1>6, <1>7, <1>8, <1>9, <1>10, <1>11, <1>12 DEF Next

\* What runs hold, and what requests have been handed over, in every state.
LEMMA HeldCorrect == Spec => []HeldInv
<1>1. Init => HeldInv
  <2> SUFFICES ASSUME Init PROVE HeldInv
    OBVIOUS
  <2>1. /\ \A i \in Ids : request[i].status = "none" /\ placed[i] = 0 /\ rows[i] = 0
        /\ \A r \in Runs : run[r].at = "idle" /\ run[r].req = 0
        /\ stored = 0 /\ Pending = {}
    BY DEF Init, NoRequest, NoRun, Pending
  <2> QED
    BY <2>1 DEF HeldInv, UnusedInv, WayInv, AloneInv, PlacedInv, RowsInv, Holding,
        PlacedOnce, PlayedWasPlaced, OneRowPerRequest
<1> QED
  BY <1>1, StepHeld, TypeCorrect, PTL DEF Spec

\* No request is lost behind its mark but one whose push Liquidsoap did not take
\* (CheckRequestsTask, QueueBuilder, Liquidsoap::command).
THEOREM PlayedOnlyWhenPlaced == Spec => []PlayedWasPlaced
<1>1. HeldInv => PlayedWasPlaced
  BY DEF HeldInv, PlacedInv
<1> QED
  BY <1>1, HeldCorrect, PTL

\* No request is handed over again, unless runs cross or one is killed in between.
THEOREM PlacedAtMostOnce == Spec => []PlacedOnce
<1>1. HeldInv => PlacedOnce
  BY DEF HeldInv, PlacedInv
<1> QED
  BY <1>1, HeldCorrect, PTL

\* A request that is tried again keeps its one queue row, unless runs cross.
THEOREM RowsAtMostOne == Spec => []OneRowPerRequest
<1>1. HeldInv => OneRowPerRequest
  BY DEF HeldInv, RowsInv
<1> QED
  BY <1>1, HeldCorrect, PTL
=============================================================================
