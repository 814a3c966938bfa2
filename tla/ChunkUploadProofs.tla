------------------------- MODULE ChunkUploadProofs -------------------------
(***************************************************************************)
(* Proofs about ChunkUpload, for every set of uploads of one identifier,   *)
(* every number of chunks, retries and simultaneous requests, and every    *)
(* number of lost messages, failing handlers and overlapping uploads.      *)
(***************************************************************************)
EXTENDS ChunkUpload, FiniteSetTheorems, TLAPS

Kept(u) == \E f \in files : f.by = u

\* Only the request of the last chunk gets past the filing of its part, and its
\* answer is OK only when its file is stored.
StageInv ==
    \A r \in requests :
        /\ r.at \in {"moved", "complete", "read", "removed"} => r.c = NumChunks
        /\ r.at = "ok" /\ r.c = NumChunks => Kept(r.by)
        /\ r.at \in {"read", "removed"} => \A c \in Chunks : r.content[c] # Nobody

\* A widget waits for at most one answer per chunk, while its file uploads; a
\* chunk that is still to be sent has no request.
ClientInv ==
    /\ \A r \in requests :
           /\ phase[r.by] # "idle"
           /\ phase[r.by] = "uploading" => chunk[r.by][r.c] # "pending"
           /\ r.live => phase[r.by] = "uploading" /\ chunk[r.by][r.c] = "uploading"
    /\ \A q, r \in requests : (q.live /\ r.live /\ q.by = r.by /\ q.c = r.c) => q = r
    /\ \A u \in Uploads : phase[u] = "idle" => \A c \in Chunks : chunk[u][c] = "pending"

\* The last chunk's success is a stored file, and so is the file's.
StoredInv ==
    /\ \A u \in Uploads : chunk[u][NumChunks] = "success" \/ phase[u] = "success" => Kept(u)
    /\ \A f \in files : /\ phase[f.by] # "idle"
                        /\ phase[f.by] = "uploading" => chunk[f.by][NumChunks] # "pending"
    /\ SuccessIsListed

BaseInv == TypeOK /\ StageInv /\ ClientInv /\ StoredInv

\* No two uploads were under way at a time, nothing was lost, no handler failed.
Calm == ~ overlapped /\ faults = 0

\* Then all requests are one upload's, one for each chunk, an abandoned one is of
\* a file that failed, and the last chunk's alone is to be repeated ...
AloneInv ==
    Calm =>
        /\ \A r \in requests : r.live \/ phase[r.by] = "error"
        /\ \A q, r \in requests : q.by = r.by /\ (q.c = r.c => q = r)
        /\ \A r \in requests, u \in Uploads : phase[u] = "uploading" => r.by = u
        /\ \A u, v \in Uploads : phase[u] = "uploading" /\ phase[v] = "uploading" => u = v
        /\ \A r \in requests : r.at = "again" => r.c = NumChunks

\* ... and a stored file is the one of its upload, whose last request is done.
OnceInv ==
    Calm => /\ \A f \in files, r \in requests :
                   (f.by = r.by /\ r.c = NumChunks) => r.at = "ok"
            /\ \A f, g \in files : f.by = g.by => f = g

\* Until a file fails besides, nothing fails at all.
Sound == Calm /\ ~ \E u \in Uploads : Failed(u)

\* The part of chunk c was filed, by the upload that is under way.
PassedOn(c) ==
    \A u \in Uploads : phase[u] = "uploading" =>
        /\ chunk[u][c] # "pending"
        /\ \A q \in requests : q.c = c => q.at \notin {"sent", "made"}

Filed == \A c \in Chunks \ {NumChunks} : PassedOn(c)

\* Parts are the ones the upload under way has filed; once its file was put
\* together there are none, and none will come.
SoundInv ==
    Sound =>
        /\ \A c \in Chunks : parts[c] # Nobody => phase[parts[c]] = "uploading"
        /\ \A c \in Chunks \ {NumChunks} : parts[c] # Nobody => PassedOn(c)
        /\ \A r \in requests :
               /\ r.at # "failed"
               /\ r.at = "made" => made
               /\ r.at \in {"complete", "read"} => allPartsExist
               /\ r.at \in {"read", "removed"} => \A c \in Chunks : r.content[c] = r.by
               /\ r.at = "removed" \/ (r.at = "ok" /\ r.c = NumChunks)
                      => parts = NoParts /\ Filed
        /\ \A u \in Uploads : phase[u] = "uploading" /\ chunk[u][NumChunks] = "success"
               => parts = NoParts /\ Filed
        /\ \A f \in files : \A c \in Chunks : f.content[c] = f.by

IInv == /\ BaseInv
        /\ AloneInv /\ OnceInv
        /\ SoundInv /\ FailsFirstByOvertaking

-----------------------------------------------------------------------------
\* The last chunk is one of the chunks.
LEMMA LastChunk == NumChunks \in Chunks /\ NumChunks \in Nat /\ Nobody \notin Uploads
BY ChunkStoreAssumption DEF Chunks

\* An answer that is dropped leaves fewer requests.
LEMMA AwaitedLemma ==
  ASSUME NEW reqs
  PROVE  Awaited(reqs) \subseteq reqs
BY DEF Awaited

\* A request goes on to another stage.
LEMMA StageType ==
  ASSUME NEW r \in Request, NEW s \in Stages, NEW n, n = [r EXCEPT !.at = s]
  PROVE  /\ n \in Request
         /\ n.by = r.by /\ n.c = r.c /\ n.try = r.try /\ n.live = r.live
         /\ n.content = r.content /\ n.at = s
BY DEF Request

\* It is abandoned.
LEMMA DeadType ==
  ASSUME NEW r \in Request, NEW n, n = [r EXCEPT !.live = FALSE]
  PROVE  /\ n \in Request
         /\ n.by = r.by /\ n.c = r.c /\ n.try = r.try /\ n.at = r.at
         /\ n.content = r.content /\ n.live = FALSE
BY DEF Request

-----------------------------------------------------------------------------
\* What a step of request r on the server does to the requests: r goes on as n,
\* or is gone.
GoesOn(r, n) ==
    /\ n \in Request
    /\ n.by = r.by /\ n.c = r.c /\ n.try = r.try /\ n.live = r.live
    /\ requests' \subseteq (requests \ {r}) \cup {n}

\* What else each of the server's steps does, as r goes on as n: its chunk's
\* directory is made, its part is filed ...
MkdirEffect(r, n) ==
    /\ r.at = "sent" /\ n.at = "made" /\ n.content = r.content
    /\ made' = TRUE /\ parts' = parts /\ files' = files

MoveEffect(r, n) ==
    /\ r.at = "made" /\ n.content = r.content
    /\ n.at = IF made THEN (IF r.c = NumChunks THEN "moved" ELSE "ok") ELSE "failed"
    /\ made' = made /\ files' = files
    /\ parts' = IF made THEN [parts EXCEPT ![r.c] = r.by] ELSE parts

\* ... all parts are looked for and read, removed, and the file stored.
LastEffect(r, n) ==
    /\ r.at = "moved" /\ n.content = r.content
    /\ n.at = IF allPartsExist THEN "complete" ELSE "again"
    /\ UNCHANGED <<storeVars, files>>

ReadEffect(r, n) ==
    /\ r.at = "complete"
    /\ n.at = IF allPartsExist THEN "read" ELSE "failed"
    /\ n.at = "read" => n.content = parts
    /\ UNCHANGED <<storeVars, files>>

RemoveEffect(r, n) ==
    /\ r.at = "read" /\ n.at = "removed" /\ n.content = r.content
    /\ made' = FALSE /\ parts' = NoParts /\ files' = files

Stores(r) ==
    /\ r.at = "removed"
    /\ \E f : /\ f = [by |-> r.by, try |-> r.try, content |-> r.content]
              /\ files' = files \cup {f}

StoreEffect(r, n) == n.at = "ok" /\ Stores(r) /\ UNCHANGED storeVars

\* A handler that fails leaves the directory as it is.
FailEffect(r, n) ==
    /\ r.at \notin Answered /\ n.at \in {"failed", "again"} /\ UNCHANGED storeVars
    /\ files' = files \/ Stores(r)

Effect(r, n) == \/ MkdirEffect(r, n) \/ MoveEffect(r, n) \/ LastEffect(r, n)
                \/ ReadEffect(r, n) \/ RemoveEffect(r, n) \/ StoreEffect(r, n)

\* These are all of the server's steps.
LEMMA ServerSteps ==
  ASSUME TypeOK, NEW r \in requests,
         \/ processMkdir(r) \/ processMove(r) \/ processLast(r)
         \/ createFileFromChunks(r) \/ RemoveChunks(r) \/ FlowUploadAction(r)
  PROVE  ServerOnly /\ \E n \in Request : GoesOn(r, n) /\ Effect(r, n)
<1> USE DEF Effect
<1>1. r \in Request
  BY DEF TypeOK
<1>2. ASSUME NEW s \in Stages, Step(r, s)
      PROVE  \E n \in Request : GoesOn(r, n) /\ n.at = s /\ n.content = r.content
  <2>1. PICK n : n = [r EXCEPT !.at = s]
    OBVIOUS
  <2>2. /\ n \in Request
        /\ n.by = r.by /\ n.c = r.c /\ n.try = r.try /\ n.live = r.live
        /\ n.content = r.content /\ n.at = s
    BY <1>1, <2>1, StageType
  <2>3. requests' \subseteq (requests \ {r}) \cup {n}
    BY <1>2, <2>1, AwaitedLemma DEF Step
  <2> QED BY <2>2, <2>3 DEF GoesOn
<1>3. CASE processMkdir(r)
  <2>1. Step(r, "made") /\ "made" \in Stages
    BY <1>3 DEF processMkdir, Stages
  <2> QED BY <1>2, <1>3, <2>1 DEF processMkdir, MakeDir, MkdirEffect
<1>4. CASE processMove(r)
  <2>1. CASE made
    <3> DEFINE s == IF r.c = NumChunks THEN "moved" ELSE "ok"
    <3>1. Step(r, s) /\ s \in Stages
      BY <1>4, <2>1 DEF processMove, CanMove, Stages
    <3>2. /\ r.at = "made" /\ files' = files /\ ServerOnly
          /\ made' = made /\ parts' = [parts EXCEPT ![r.c] = r.by]
      BY <1>4, <2>1 DEF processMove, CanMove, MoveTo
    <3> QED BY <1>2, <2>1, <3>1, <3>2 DEF MoveEffect
  <2>2. CASE ~ made
    <3>1. Step(r, "failed") /\ "failed" \in Stages
      BY <1>4, <2>2 DEF processMove, CanMove, Stages
    <3> QED BY <1>2, <1>4, <2>2, <3>1 DEF processMove, CanMove, storeVars, MoveEffect
  <2> QED BY <2>1, <2>2
<1>5. CASE processLast(r)
  <2> DEFINE s == IF allPartsExist THEN "complete" ELSE "again"
  <2>1. Step(r, s) /\ s \in Stages
    BY <1>5 DEF processLast, Stages
  <2> QED BY <1>2, <1>5, <2>1 DEF processLast, LastEffect
<1>6. CASE createFileFromChunks(r)
  <2>1. CASE allPartsExist
    <3>1. PICK n : n = [r EXCEPT !.at = "read", !.content = parts]
      OBVIOUS
    <3>2. /\ n \in Request
          /\ n.by = r.by /\ n.c = r.c /\ n.try = r.try /\ n.live = r.live
          /\ n.content = parts /\ n.at = "read"
      BY <1>1, <3>1 DEF Request, Stages, TypeOK, StoreTypeOK
    <3>3. requests' \subseteq (requests \ {r}) \cup {n}
      BY <1>6, <2>1, <3>1, AwaitedLemma DEF createFileFromChunks, Readable
    <3> QED BY <1>6, <2>1, <3>2, <3>3 DEF createFileFromChunks, GoesOn, ReadEffect
  <2>2. CASE ~ allPartsExist
    <3>1. PICK n : n = [r EXCEPT !.at = "failed"]
      OBVIOUS
    <3>2. /\ n \in Request
          /\ n.by = r.by /\ n.c = r.c /\ n.try = r.try /\ n.live = r.live
          /\ n.at = "failed"
      BY <1>1, <3>1 DEF Request, Stages
    <3>3. requests' \subseteq (requests \ {r}) \cup {n}
      BY <1>6, <2>2, <3>1, AwaitedLemma DEF createFileFromChunks, Readable
    <3> QED BY <1>6, <2>2, <3>2, <3>3 DEF createFileFromChunks, GoesOn, ReadEffect
  <2> QED BY <2>1, <2>2
<1>7. CASE RemoveChunks(r)
  <2>1. Step(r, "removed") /\ "removed" \in Stages
    BY <1>7 DEF RemoveChunks, Stages
  <2> QED BY <1>2, <1>7, <2>1 DEF RemoveChunks, RemoveDir, RemoveEffect
<1>8. CASE FlowUploadAction(r)
  <2>1. Step(r, "ok") /\ "ok" \in Stages
    BY <1>8 DEF FlowUploadAction, Stages
  <2> QED BY <1>2, <1>8, <2>1 DEF FlowUploadAction, StoreEffect, Stores
<1> QED BY <1>3, <1>4, <1>5, <1>6, <1>7, <1>8

\* And a handler that fails.
LEMMA HandlerFailsLemma ==
  ASSUME TypeOK, NEW r \in requests, HandlerFails(r)
  PROVE  /\ \E n \in Request : GoesOn(r, n) /\ FailEffect(r, n)
         /\ UNCHANGED <<clientVars, pageVars, overlapped>>
         /\ faults' \in 0 .. MaxTrouble /\ faults' # 0
<1>1. PICK answer \in {"failed", "again"} : Step(r, answer)
  BY DEF HandlerFails
<1>2. PICK n : n = [r EXCEPT !.at = answer]
  OBVIOUS
<1>3. /\ n \in Request
      /\ n.by = r.by /\ n.c = r.c /\ n.try = r.try /\ n.live = r.live /\ n.at = answer
  <2>1. r \in Request /\ answer \in Stages
    BY DEF TypeOK, Stages
  <2> QED BY <1>2, <2>1, StageType
<1>4. GoesOn(r, n)
  BY <1>1, <1>2, <1>3, AwaitedLemma DEF Step, GoesOn
<1>5. FailEffect(r, n)
  BY <1>3 DEF HandlerFails, FailEffect, Stores
<1>6. faults' \in 0 .. MaxTrouble /\ faults' # 0
  BY ChunkUploadAssumption DEF HandlerFails, Trouble, TypeOK
<1> QED BY <1>3, <1>4, <1>5, <1>6 DEF HandlerFails

\* Only the requests change for the widgets: a step of the server keeps what a
\* widget waits for.
LEMMA GoesOnLemma ==
  ASSUME TypeOK, ClientInv, NEW r \in requests, NEW n, GoesOn(r, n), UNCHANGED clientVars
  PROVE  /\ requests' \subseteq Request
         /\ ClientInv'
         /\ \A q \in requests' : q = n \/ (q \in requests /\ q # r)
<1>1. /\ requests \subseteq Request /\ n \in Request
      /\ \A q \in requests' : q = n \/ (q \in requests /\ q # r)
  BY DEF GoesOn, TypeOK
<1>2. UNCHANGED <<phase, chunk>>
  BY DEF clientVars
<1>3. ASSUME NEW q \in requests'
      PROVE  /\ phase'[q.by] # "idle"
             /\ phase'[q.by] = "uploading" => chunk'[q.by][q.c] # "pending"
             /\ q.live => phase'[q.by] = "uploading" /\ chunk'[q.by][q.c] = "uploading"
  BY <1>1, <1>2 DEF ClientInv, GoesOn
<1>4. ASSUME NEW q \in requests', NEW s \in requests', q.live, s.live, q.by = s.by, q.c = s.c
      PROVE  q = s
  BY <1>1, <1>4 DEF ClientInv, GoesOn
<1>5. \A u \in Uploads : phase'[u] = "idle" => \A c \in Chunks : chunk'[u][c] = "pending"
  BY <1>2 DEF ClientInv
<1> QED BY <1>1, <1>3, <1>4, <1>5 DEF ClientInv

\* The server's steps keep the base of the invariant, failing ones too.
LEMMA ServerBase ==
  ASSUME BaseInv, NEW r \in requests, NEW n \in Request, GoesOn(r, n),
         Effect(r, n) \/ FailEffect(r, n),
         UNCHANGED <<clientVars, pageVars, overlapped>>, faults' \in 0 .. MaxTrouble
  PROVE  BaseInv'
<1>1. /\ requests' \subseteq Request /\ ClientInv'
      /\ \A q \in requests' : q = n \/ (q \in requests /\ q # r)
  BY GoesOnLemma DEF BaseInv
<1>2. /\ r \in Request /\ n.by = r.by /\ n.c = r.c /\ r.by \in Uploads /\ r.c \in Chunks
      /\ r.try \in 0 .. MaxChunkRetries /\ r.content \in [Chunks -> Uploads \cup {Nobody}]
  BY DEF GoesOn, BaseInv, TypeOK, Request
<1>3. UNCHANGED <<phase, chunk, retries, owed, listed, unheard, overlapped>>
  BY DEF clientVars, pageVars
<1>4. files' \subseteq File /\ files \subseteq files'
  <2>1. CASE Stores(r)
    <3>1. PICK f : /\ f = [by |-> r.by, try |-> r.try, content |-> r.content]
                   /\ files' = files \cup {f}
      BY <2>1 DEF Stores
    <3>2. \A c \in Chunks : r.content[c] \in Uploads
      BY <1>2, <2>1 DEF Stores, BaseInv, StageInv
    <3>3. r.content \in [Chunks -> Uploads]
      BY <1>2, <3>2
    <3>4. f \in File
      BY <1>2, <3>1, <3>3 DEF File
    <3> QED BY <3>1, <3>4 DEF BaseInv, TypeOK
  <2>2. CASE files' = files
    BY <2>2 DEF BaseInv, TypeOK
  <2> QED BY <2>1, <2>2 DEF Effect, MkdirEffect, MoveEffect, LastEffect, ReadEffect,
                            RemoveEffect, StoreEffect, FailEffect
<1>5. StoreTypeOK'
  <2> USE DEF BaseInv, TypeOK, StoreTypeOK
  <2>1. CASE MkdirEffect(r, n)
    BY <2>1 DEF MkdirEffect
  <2>2. CASE MoveEffect(r, n)
    BY <1>2, <2>2 DEF MoveEffect
  <2>3. CASE RemoveEffect(r, n)
    BY <2>3 DEF RemoveEffect, NoParts
  <2>4. CASE UNCHANGED storeVars
    BY <2>4 DEF storeVars
  <2> QED BY <2>1, <2>2, <2>3, <2>4 DEF Effect, LastEffect, ReadEffect, StoreEffect, FailEffect
<1>6. TypeOK'
  BY <1>1, <1>3, <1>4, <1>5 DEF BaseInv, TypeOK
<1>7. StageInv'
  <2> SUFFICES ASSUME NEW q \in requests'
               PROVE  /\ q.at \in {"moved", "complete", "read", "removed"}
                             => q.c = NumChunks
                      /\ q.at = "ok" /\ q.c = NumChunks => Kept(q.by)'
                      /\ q.at \in {"read", "removed"} => \A c \in Chunks : q.content[c] # Nobody
    BY DEF StageInv
  <2>1. CASE q \in requests
    BY <1>4, <2>1 DEF BaseInv, StageInv, Kept
  <2>2. CASE q = n
    <3> USE DEF BaseInv, StageInv
    <3>1. CASE MkdirEffect(r, n)
      BY <2>2, <3>1 DEF MkdirEffect
    <3>2. CASE MoveEffect(r, n)
      BY <1>2, <2>2, <3>2 DEF MoveEffect
    <3>3. CASE LastEffect(r, n)
      BY <1>2, <2>2, <3>3 DEF LastEffect
    <3>4. CASE ReadEffect(r, n)
      BY <1>2, <2>2, <3>4 DEF ReadEffect, allPartsExist
    <3>5. CASE RemoveEffect(r, n)
      BY <1>2, <2>2, <3>5 DEF RemoveEffect
    <3>6. CASE StoreEffect(r, n)
      <4>1. Kept(r.by)'
        BY <3>6 DEF StoreEffect, Stores, Kept
      <4> QED BY <1>2, <2>2, <3>6, <4>1 DEF StoreEffect, Stores
    <3>7. CASE FailEffect(r, n)
      BY <2>2, <3>7 DEF FailEffect
    <3> QED BY <3>1, <3>2, <3>3, <3>4, <3>5, <3>6, <3>7 DEF Effect
  <2> QED BY <1>1, <2>1, <2>2
<1>8. StoredInv'
  <2>1. \A u \in Uploads : Kept(u) => Kept(u)'
    BY <1>4 DEF Kept
  <2>2. ASSUME NEW f \in files'
        PROVE  /\ phase[f.by] # "idle"
               /\ phase[f.by] = "uploading" => chunk[f.by][NumChunks] # "pending"
    <3>1. CASE f \in files
      BY <3>1 DEF BaseInv, StoredInv
    <3>2. CASE Stores(r) /\ f.by = r.by
      <4>1. r.c = NumChunks
        BY <3>2 DEF Stores, BaseInv, StageInv
      <4> QED BY <3>2, <4>1 DEF BaseInv, ClientInv
    <3>3. f \in files \/ (Stores(r) /\ f.by = r.by)
      BY DEF Effect, MkdirEffect, MoveEffect, LastEffect, ReadEffect, RemoveEffect, StoreEffect,
             FailEffect, Stores
    <3> QED BY <3>1, <3>2, <3>3
  <2>3. SuccessIsListed'
    BY <1>3 DEF BaseInv, StoredInv, SuccessIsListed
  <2>4. \A u \in Uploads : chunk'[u][NumChunks] = "success" \/ phase'[u] = "success" => Kept(u)'
    BY <1>3, <2>1 DEF BaseInv, StoredInv
  <2> QED BY <1>3, <2>2, <2>3, <2>4 DEF StoredInv
<1> QED BY <1>1, <1>6, <1>7, <1>8 DEF BaseInv

-----------------------------------------------------------------------------
\* A request that sets out with the chunks that `status` leaves pending.
Fresh(q, u, status) ==
    /\ q \in Request
    /\ q.by = u /\ q.at = "sent" /\ q.live
    /\ status[q.c] = "pending"
    /\ q = Sent(u, q.c, retries[u][q.c])

\* What sending more chunks does.
LEMMA SendMoreLemma ==
  ASSUME TypeOK, NEW u \in Uploads,
         NEW status \in [Chunks -> {"pending", "uploading", "success"}],
         NEW sent, SendMore(u, status, sent)
  PROVE  /\ chunk' \in [Uploads -> [Chunks -> {"pending", "uploading", "success"}]]
         /\ \A v \in Uploads \ {u} : chunk'[v] = chunk[v]
         /\ \A c \in Chunks : \/ chunk'[u][c] = status[c]
                              \/ status[c] = "pending" /\ chunk'[u][c] = "uploading"
         /\ \A q \in requests' : \/ q \in sent
                                 \/ Fresh(q, u, status) /\ chunk'[u][q.c] = "uploading"
<1> DEFINE next == uploadNextChunk(status)
           new == [c \in Chunks |-> IF c \in next THEN "uploading" ELSE status[c]]
<1>1. \A c \in next : c \in Chunks /\ status[c] = "pending"
  BY DEF uploadNextChunk
<1>2. /\ chunk' = [chunk EXCEPT ![u] = new]
      /\ requests' = sent \cup {Sent(u, c, retries[u][c]) : c \in next}
  BY DEF SendMore
<1> HIDE DEF next
<1>3. new \in [Chunks -> {"pending", "uploading", "success"}]
  OBVIOUS
<1>4. \A c \in Chunks : new[c] = IF c \in next THEN "uploading" ELSE status[c]
  OBVIOUS
<1> HIDE DEF new
<1>5. /\ chunk' \in [Uploads -> [Chunks -> {"pending", "uploading", "success"}]]
      /\ \A v \in Uploads \ {u} : chunk'[v] = chunk[v]
      /\ chunk'[u] = new
  BY <1>2, <1>3 DEF TypeOK
<1>6. ASSUME NEW q \in requests', q \notin sent
      PROVE  Fresh(q, u, status) /\ chunk'[u][q.c] = "uploading"
  <2>1. PICK c \in next : q = Sent(u, c, retries[u][c])
    BY <1>2, <1>6
  <2>2. c \in Chunks /\ status[c] = "pending" /\ retries[u][c] \in 0 .. MaxChunkRetries
    BY <1>1 DEF TypeOK
  <2>3. PICK k \in 0 .. MaxChunkRetries : k = retries[u][c]
    BY <2>2
  <2>4. q \in Request /\ q.by = u /\ q.c = c /\ q.at = "sent" /\ q.live
    <3>1. q = Sent(u, c, k) /\ c \in Chunks
      BY <2>1, <2>2, <2>3
    <3> QED BY <3>1 DEF Request, Sent, Stages, NoParts
  <2>5. chunk'[u][c] = "uploading"
    BY <1>4, <1>5, <2>2
  <2> QED BY <2>1, <2>2, <2>4, <2>5 DEF Fresh
<1> QED BY <1>1, <1>4, <1>5, <1>6

\* Sending more of an upload that is under way, or that begins, keeps what the
\* widgets wait for.
LEMMA SendMoreBase ==
  ASSUME BaseInv, NEW u \in Uploads,
         NEW status \in [Chunks -> {"pending", "uploading", "success"}],
         NEW sent \in SUBSET requests, SendMore(u, status, sent),
         \A c \in Chunks : \/ status[c] = chunk[u][c]
                           \/ /\ status[c] = "success"
                              /\ \A q \in sent : q.live /\ q.by = u => q.c # c,
         phase' \in [Uploads -> Phases],
         \A v \in Uploads \ {u} : phase'[v] = phase[v],
         phase[u] \in {"idle", "uploading"}, phase'[u] \in {"uploading", "success"},
         phase'[u] = "success" => \A c \in Chunks : status[c] = "success",
         UNCHANGED <<storeVars, retries, files, listed>>,
         owed' \in SUBSET Uploads, unheard' \in SUBSET Uploads,
         faults' = faults, overlapped' \in BOOLEAN
  PROVE  TypeOK' /\ ClientInv' /\ StageInv'
<1>1. /\ chunk' \in [Uploads -> [Chunks -> {"pending", "uploading", "success"}]]
      /\ \A v \in Uploads \ {u} : chunk'[v] = chunk[v]
      /\ \A c \in Chunks : \/ chunk'[u][c] = status[c]
                           \/ status[c] = "pending" /\ chunk'[u][c] = "uploading"
      /\ \A q \in requests' : \/ q \in sent
                              \/ Fresh(q, u, status) /\ chunk'[u][q.c] = "uploading"
  BY SendMoreLemma DEF BaseInv
<1>2. requests \subseteq Request /\ \A q \in Request : q.by \in Uploads /\ q.c \in Chunks
  BY DEF BaseInv, TypeOK, Request
<1>3. requests' \subseteq Request
  BY <1>1, <1>2 DEF Fresh
<1>4. TypeOK'
  BY <1>1, <1>3 DEF BaseInv, TypeOK, StoreTypeOK, storeVars
<1>5. StageInv'
  BY <1>1 DEF BaseInv, StageInv, Fresh, Kept
<1>6. \A q \in requests : q.by = u => /\ phase[u] = "uploading"
                                      /\ chunk[u][q.c] # "pending"
  BY <1>2 DEF BaseInv, ClientInv
<1>7. ASSUME NEW q \in requests'
      PROVE  /\ phase'[q.by] # "idle"
             /\ phase'[q.by] = "uploading" => chunk'[q.by][q.c] # "pending"
             /\ q.live => phase'[q.by] = "uploading" /\ chunk'[q.by][q.c] = "uploading"
  <2>1. CASE q \in sent /\ q.by # u
    BY <1>1, <1>2, <2>1 DEF BaseInv, ClientInv
  <2>2. CASE q \in sent /\ q.by = u
    <3>1. q.c \in Chunks /\ chunk[u][q.c] # "pending" /\ status[q.c] # "pending"
      BY <1>2, <1>6, <2>2
    <3>2. chunk'[u][q.c] = status[q.c]
      BY <1>1, <3>1
    <3>3. q.live => chunk[u][q.c] = "uploading" /\ status[q.c] = chunk[u][q.c]
      BY <2>2, <3>1 DEF BaseInv, ClientInv
    <3> QED BY <2>2, <3>1, <3>2, <3>3
  <2>3. CASE Fresh(q, u, status) /\ chunk'[u][q.c] = "uploading"
    <3>1. q.c \in Chunks /\ q.by = u /\ status[q.c] # "success"
      BY <1>2, <2>3 DEF Fresh
    <3> QED BY <2>3, <3>1
  <2> QED BY <1>1, <2>1, <2>2, <2>3
<1>8. ASSUME NEW q \in requests', NEW s \in requests', q.live, s.live, q.by = s.by, q.c = s.c
      PROVE  q = s
  <2>1. CASE q \in sent /\ s \in sent
    BY <1>8, <2>1 DEF BaseInv, ClientInv
  <2>2. CASE Fresh(q, u, status) /\ Fresh(s, u, status)
    BY <1>8, <2>2 DEF Fresh
  <2>3. ASSUME NEW x \in sent, NEW y, Fresh(y, u, status), x.by = y.by, x.c = y.c
        PROVE  FALSE
    <3>1. x.by = u /\ status[x.c] = "pending" /\ x.c \in Chunks
      BY <1>2, <2>3 DEF Fresh
    <3> QED BY <1>6, <3>1
  <2> QED BY <1>1, <1>8, <2>1, <2>2, <2>3
<1>9. \A v \in Uploads : phase'[v] = "idle" => \A c \in Chunks : chunk'[v][c] = "pending"
  BY <1>1 DEF BaseInv, ClientInv
<1>10. ClientInv'
  BY <1>7, <1>8, <1>9 DEF ClientInv
<1> QED BY <1>4, <1>5, <1>10

\* A file begins to upload.
LEMMA SubmittedBase ==
  ASSUME BaseInv, NEW u \in Uploads, filesSubmitted(u)
  PROVE  BaseInv'
<1>1. /\ phase[u] = "idle" /\ phase' = [phase EXCEPT ![u] = "uploading"]
      /\ SendMore(u, chunk[u], requests)
      /\ UNCHANGED <<storeVars, retries, files, pageVars, faults>>
      /\ overlapped' \in BOOLEAN
  BY DEF filesSubmitted, BaseInv, TypeOK
<1>2. /\ chunk[u] \in [Chunks -> {"pending", "uploading", "success"}]
      /\ phase' \in [Uploads -> Phases] /\ phase'[u] = "uploading"
      /\ \A v \in Uploads \ {u} : phase'[v] = phase[v]
      /\ owed' \in SUBSET Uploads /\ listed' = listed /\ owed' = owed
      /\ unheard' \in SUBSET Uploads /\ unheard' = unheard
  BY <1>1 DEF BaseInv, TypeOK, Phases, pageVars
<1>3. TypeOK' /\ ClientInv' /\ StageInv'
  BY <1>1, <1>2, SendMoreBase
<1>4. /\ \A v \in Uploads \ {u} : chunk'[v] = chunk[v]
      /\ \A c \in Chunks : \/ chunk'[u][c] = chunk[u][c]
                           \/ chunk[u][c] = "pending" /\ chunk'[u][c] = "uploading"
  BY <1>1, <1>2, SendMoreLemma DEF BaseInv
<1>5. StoredInv'
  <2>1. \A v \in Uploads : Kept(v)' = Kept(v)
    BY <1>1 DEF Kept
  <2>2. \A v \in Uploads : chunk'[v][NumChunks] = "success" \/ phase'[v] = "success" => Kept(v)'
    BY <1>2, <1>4, <2>1, LastChunk DEF BaseInv, StoredInv
  <2>3. \A f \in files : f.by \in Uploads /\ f.by # u
    BY <1>1 DEF BaseInv, StoredInv, TypeOK, File
  <2>4. SuccessIsListed'
    BY <1>2 DEF BaseInv, StoredInv, SuccessIsListed
  <2> QED BY <1>1, <1>2, <1>4, <2>2, <2>3, <2>4 DEF BaseInv, StoredInv
<1> QED BY <1>3, <1>5 DEF BaseInv

\* A chunk's success: the last one's is a stored file.
LEMMA SuccessBase ==
  ASSUME BaseInv, NEW u \in Uploads, NEW r \in requests, r.by = u, r.live, r.at = "ok",
         ChunkSuccess(u, r), UNCHANGED <<storeVars, files, listed, bounds>>
  PROVE  /\ BaseInv'
         /\ phase[u] = "uploading"
         /\ phase' # phase => phase' = [phase EXCEPT ![u] = "success"] /\ Kept(u)
<1> DEFINE status == [chunk[u] EXCEPT ![r.c] = "success"]
           all == \A c \in Chunks : status[c] = "success"
<1>1. /\ SendMore(u, status, requests \ {r}) /\ retries' = retries
      /\ phase' = IF all THEN [phase EXCEPT ![u] = "success"] ELSE phase
      /\ owed' = IF all /\ r.c = NumChunks THEN owed \cup {u} ELSE owed
      /\ unheard' = IF all /\ r.c # NumChunks THEN unheard \cup {u} ELSE unheard
  BY DEF ChunkSuccess
<1>2. /\ r.c \in Chunks /\ chunk[u] \in [Chunks -> {"pending", "uploading", "success"}]
      /\ phase[u] = "uploading"
  BY DEF BaseInv, TypeOK, Request, ClientInv
<1>3. /\ status \in [Chunks -> {"pending", "uploading", "success"}]
      /\ status[r.c] = "success"
      /\ \A c \in Chunks \ {r.c} : status[c] = chunk[u][c]
  BY <1>2
<1> HIDE DEF status
<1>4. \A q \in requests \ {r} : q.live /\ q.by = u => q.c # r.c
  BY DEF BaseInv, ClientInv
<1>5. /\ phase' \in [Uploads -> Phases] /\ phase'[u] \in {"uploading", "success"}
      /\ \A v \in Uploads \ {u} : phase'[v] = phase[v]
      /\ phase'[u] = "success" <=> all
      /\ owed' \in SUBSET Uploads /\ unheard' \in SUBSET Uploads
  BY <1>1, <1>2 DEF BaseInv, TypeOK, Phases
<1>6. TypeOK' /\ ClientInv' /\ StageInv'
  <2>1. faults' = faults /\ overlapped' \in BOOLEAN
    BY DEF bounds, BaseInv, TypeOK
  <2>2. (requests \ {r}) \in SUBSET requests
    OBVIOUS
  <2>3. \A c \in Chunks : \/ status[c] = chunk[u][c]
                          \/ /\ status[c] = "success"
                             /\ \A q \in requests \ {r} : q.live /\ q.by = u => q.c # c
    BY <1>3, <1>4
  <2> QED BY <1>1, <1>2, <1>3, <1>5, <2>1, <2>2, <2>3, SendMoreBase
<1>7. /\ \A v \in Uploads \ {u} : chunk'[v] = chunk[v]
      /\ \A c \in Chunks : \/ chunk'[u][c] = status[c]
                           \/ status[c] = "pending" /\ chunk'[u][c] = "uploading"
  BY <1>1, <1>3, SendMoreLemma DEF BaseInv
<1>8. status[NumChunks] = "success" => Kept(u)
  BY <1>3, LastChunk DEF BaseInv, StoredInv, StageInv
<1>9. StoredInv'
  <2>1. \A v \in Uploads : Kept(v)' = Kept(v)
    BY DEF Kept
  <2>2. \A v \in Uploads : chunk'[v][NumChunks] = "success" \/ phase'[v] = "success" => Kept(v)'
    <3>1. chunk'[u][NumChunks] = "success" \/ phase'[u] = "success"
              => status[NumChunks] = "success"
      BY <1>5, <1>7, LastChunk
    <3> QED BY <1>5, <1>7, <1>8, <2>1, <3>1 DEF BaseInv, StoredInv
  <2>3. ASSUME NEW f \in files'
        PROVE  /\ phase'[f.by] # "idle"
               /\ phase'[f.by] = "uploading" => chunk'[f.by][NumChunks] # "pending"
    <3>1. f \in files /\ f.by \in Uploads
      BY DEF BaseInv, TypeOK, File
    <3>2. CASE f.by # u
      BY <1>5, <1>7, <3>1, <3>2 DEF BaseInv, StoredInv
    <3>3. CASE f.by = u
      <4>1. chunk[u][NumChunks] # "pending"
        BY <1>2, <3>1, <3>3 DEF BaseInv, StoredInv
      <4>2. status[NumChunks] # "pending"
        BY <1>3, <4>1, LastChunk
      <4>3. chunk'[u][NumChunks] # "pending"
        BY <1>7, <4>2, LastChunk
      <4> QED BY <1>5, <3>3, <4>3
    <3> QED BY <3>2, <3>3
  <2>4. SuccessIsListed'
    <3> SUFFICES ASSUME NEW v \in Uploads, phase'[v] = "success",
                        v \notin owed' \cup unheard'
                 PROVE  v \in listed
      BY DEF SuccessIsListed
    <3>1. v # u /\ v \notin owed \cup unheard
      BY <1>1, <1>5
    <3> QED BY <1>5, <3>1 DEF BaseInv, StoredInv, SuccessIsListed
  <2> QED BY <2>2, <2>3, <2>4 DEF StoredInv
<1>10. phase' # phase => phase' = [phase EXCEPT ![u] = "success"] /\ Kept(u)
  BY <1>1, <1>8, LastChunk
<1> QED BY <1>2, <1>6, <1>9, <1>10 DEF BaseInv

\* What goes on of a request whose answer is dealt with: nothing, or the server's
\* handler of a request that its widget has given up.
Gone(r, gone) ==
    \A q \in gone : /\ q \in Request /\ q.live = FALSE
                    /\ q.by = r.by /\ q.c = r.c /\ q.at = r.at /\ q.content = r.content

\* A chunk is sent again.
LEMMA RetryBase ==
  ASSUME BaseInv, NEW u \in Uploads, NEW r \in requests, r.by = u, r.live,
         NEW gone, Gone(r, gone), ChunkRetry(u, r, gone),
         UNCHANGED <<storeVars, files, listed>>,
         faults' \in 0 .. MaxTrouble, overlapped' = overlapped
  PROVE  /\ BaseInv'
         /\ phase' = phase /\ chunk' = chunk
         /\ \A v \in Uploads \ {u} : retries'[v] = retries[v]
         /\ phase[u] = "uploading"
         /\ \A q \in requests' : \/ q \in requests \ {r}
                                 \/ q \in gone
                                 \/ /\ q.by = u /\ q.c = r.c /\ q.at = "sent" /\ q.live
                                    /\ \A y \in requests' \ ((requests \ {r}) \cup gone) : q = y
<1>1. PICK n : n = retries[u][r.c] + 1
  OBVIOUS
<1>2. /\ n <= MaxChunkRetries /\ retries' = [retries EXCEPT ![u][r.c] = n]
      /\ UNCHANGED <<phase, chunk, owed, unheard>>
  BY <1>1 DEF ChunkRetry
<1>3. /\ r.c \in Chunks /\ phase[u] = "uploading" /\ chunk[u][r.c] = "uploading"
      /\ requests \subseteq Request
      /\ retries \in [Uploads -> [Chunks -> 0 .. MaxChunkRetries]]
  BY DEF BaseInv, TypeOK, Request, ClientInv
<1>4. retries[u] \in [Chunks -> 0 .. MaxChunkRetries] /\ n \in 0 .. MaxChunkRetries
  <2>1. retries[u][r.c] \in 0 .. MaxChunkRetries
    BY <1>3
  <2> QED BY <1>1, <1>2, <1>3, <2>1, ChunkUploadAssumption
<1>5. /\ retries' \in [Uploads -> [Chunks -> 0 .. MaxChunkRetries]]
      /\ \A v \in Uploads \ {u} : retries'[v] = retries[v]
  <2>1. retries' = [retries EXCEPT ![u] = [retries[u] EXCEPT ![r.c] = n]]
    BY <1>2, <1>3
  <2>2. [retries[u] EXCEPT ![r.c] = n] \in [Chunks -> 0 .. MaxChunkRetries]
    BY <1>3, <1>4
  <2> QED BY <1>3, <2>1, <2>2
<1>6. PICK s : s = Sent(u, r.c, n)
  OBVIOUS
<1>7. s \in Request /\ s.by = u /\ s.c = r.c /\ s.at = "sent" /\ s.live
  BY <1>3, <1>4, <1>6 DEF Request, Sent, Stages, NoParts
<1>8. \A q \in requests' : q \in requests \ {r} \/ q \in gone \/ q = s
  <2>1. requests' = Awaited((requests \ {r}) \cup gone) \cup {s}
    BY <1>1, <1>6 DEF ChunkRetry
  <2> QED BY <2>1, AwaitedLemma
<1>9. TypeOK'
  <2>1. requests' \subseteq Request
    BY <1>3, <1>7, <1>8 DEF Gone
  <2> QED BY <1>2, <1>5, <2>1 DEF BaseInv, TypeOK, StoreTypeOK, storeVars
<1>10. StageInv'
  BY <1>7, <1>8 DEF BaseInv, StageInv, Kept, Gone
<1>11. ClientInv'
  <2>1. ASSUME NEW q \in requests'
        PROVE  /\ phase'[q.by] # "idle"
               /\ phase'[q.by] = "uploading" => chunk'[q.by][q.c] # "pending"
               /\ q.live => phase'[q.by] = "uploading" /\ chunk'[q.by][q.c] = "uploading"
    BY <1>2, <1>3, <1>7, <1>8 DEF BaseInv, ClientInv, Gone
  <2>2. ASSUME NEW q \in requests', NEW t \in requests', q.live, t.live, q.by = t.by, q.c = t.c
        PROVE  q = t
    BY <1>7, <1>8, <2>2 DEF BaseInv, ClientInv, Gone
  <2> QED BY <1>2, <2>1, <2>2 DEF BaseInv, ClientInv
<1>12. StoredInv'
  BY <1>2 DEF BaseInv, StoredInv, Kept, SuccessIsListed
<1>13. \A q \in requests' : \/ q \in requests \ {r}
                            \/ q \in gone
                            \/ /\ q.by = u /\ q.c = r.c /\ q.at = "sent" /\ q.live
                               /\ \A y \in requests' \ ((requests \ {r}) \cup gone) : q = y
  BY <1>7, <1>8
<1> QED BY <1>2, <1>3, <1>5, <1>9, <1>10, <1>11, <1>12, <1>13 DEF BaseInv

\* The file fails, and its requests are abandoned.
LEMMA ErrorBase ==
  ASSUME BaseInv, NEW u \in Uploads, NEW r \in requests, r.by = u, r.live,
         NEW gone, Gone(r, gone), fileError(u, r, gone),
         UNCHANGED <<storeVars, files, listed>>,
         faults' \in 0 .. MaxTrouble, overlapped' = overlapped
  PROVE  /\ BaseInv'
         /\ phase[u] = "uploading" /\ phase' = [phase EXCEPT ![u] = "error"]
         /\ \A v \in Uploads \ {u} : chunk'[v] = chunk[v]
         /\ retries' = retries
         /\ \A q \in requests' : \E o \in (requests \ {r}) \cup gone :
               IF o.by = u THEN q = [o EXCEPT !.live = FALSE] ELSE q = o
<1>1. /\ phase' = [phase EXCEPT ![u] = "error"]
      /\ chunk' = [chunk EXCEPT ![u] = [c \in Chunks |-> "pending"]]
      /\ owed' = owed \cup {u} /\ retries' = retries /\ unheard' = unheard
  BY DEF fileError
<1>2. phase[u] = "uploading" /\ requests \subseteq Request
  BY DEF BaseInv, TypeOK, ClientInv
<1>3. \A q \in requests' : \E o \in (requests \ {r}) \cup gone :
         IF o.by = u THEN q = [o EXCEPT !.live = FALSE] ELSE q = o
  BY AwaitedLemma DEF fileError
<1>4. ASSUME NEW q \in requests'
      PROVE  /\ q \in Request
             /\ \/ q \in requests /\ q.by # u
                \/ /\ q.by = u /\ q.live = FALSE
                   /\ \E o \in requests : /\ q.by = o.by /\ q.c = o.c
                                          /\ q.at = o.at /\ q.content = o.content
  <2>1. PICK o \in (requests \ {r}) \cup gone :
             IF o.by = u THEN q = [o EXCEPT !.live = FALSE] ELSE q = o
    BY <1>3
  <2>2. o \in Request /\ (o \in gone => o.by = u)
    BY <1>2 DEF Gone
  <2>3. \E x \in requests : o.by = x.by /\ o.c = x.c /\ o.at = x.at /\ o.content = x.content
    BY DEF Gone
  <2>4. CASE o.by = u
    <3>1. /\ q \in Request
          /\ q.by = o.by /\ q.c = o.c /\ q.at = o.at
          /\ q.content = o.content /\ q.live = FALSE
      BY <2>1, <2>2, <2>4, DeadType
    <3> QED BY <2>3, <2>4, <3>1
  <2>5. CASE o.by # u
    BY <2>1, <2>2, <2>5
  <2> QED BY <2>4, <2>5
<1>5. /\ phase' \in [Uploads -> Phases] /\ phase'[u] = "error"
      /\ \A v \in Uploads \ {u} : phase'[v] = phase[v] /\ chunk'[v] = chunk[v]
      /\ \A c \in Chunks : chunk'[u][c] = "pending"
      /\ chunk' \in [Uploads -> [Chunks -> {"pending", "uploading", "success"}]]
  BY <1>1 DEF BaseInv, TypeOK, Phases
<1>6. TypeOK'
  <2>1. requests' \subseteq Request /\ owed' \subseteq Uploads
    BY <1>1, <1>4 DEF BaseInv, TypeOK
  <2> QED BY <1>1, <1>5, <2>1 DEF BaseInv, TypeOK, StoreTypeOK, storeVars
<1>7. StageInv'
  <2> SUFFICES ASSUME NEW q \in requests'
               PROVE  /\ q.at \in {"moved", "complete", "read", "removed"}
                             => q.c = NumChunks
                      /\ q.at = "ok" /\ q.c = NumChunks => Kept(q.by)
                      /\ q.at \in {"read", "removed"} => \A c \in Chunks : q.content[c] # Nobody
    BY DEF StageInv, Kept
  <2>1. PICK o \in requests : /\ q.by = o.by /\ q.c = o.c
                              /\ q.at = o.at /\ q.content = o.content
    BY <1>4
  <2> QED BY <2>1 DEF BaseInv, StageInv
<1>8. ClientInv'
  <2>1. \A q \in Request : q.by \in Uploads /\ q.c \in Chunks
    BY DEF Request
  <2>2. ASSUME NEW q \in requests'
        PROVE  /\ phase'[q.by] # "idle"
               /\ phase'[q.by] = "uploading" => chunk'[q.by][q.c] # "pending"
               /\ q.live => phase'[q.by] = "uploading" /\ chunk'[q.by][q.c] = "uploading"
    <3>1. CASE q \in requests /\ q.by # u
      <4>1. phase'[q.by] = phase[q.by] /\ chunk'[q.by] = chunk[q.by]
        BY <1>4, <1>5, <2>1, <3>1
      <4> QED BY <3>1, <4>1 DEF BaseInv, ClientInv
    <3>2. CASE q.by = u /\ q.live = FALSE
      BY <1>5, <3>2
    <3> QED BY <1>4, <3>1, <3>2
  <2>3. ASSUME NEW q \in requests', NEW t \in requests', q.live, t.live, q.by = t.by, q.c = t.c
        PROVE  q = t
    BY <1>4, <2>3 DEF BaseInv, ClientInv
  <2>4. \A v \in Uploads : phase'[v] = "idle" => \A c \in Chunks : chunk'[v][c] = "pending"
    BY <1>5 DEF BaseInv, ClientInv
  <2> QED BY <2>2, <2>3, <2>4 DEF ClientInv
<1>9. StoredInv'
  <2>1. \A v \in Uploads : chunk'[v][NumChunks] = "success" \/ phase'[v] = "success" => Kept(v)'
    BY <1>5, LastChunk DEF BaseInv, StoredInv, Kept
  <2>2. \A f \in files : f.by \in Uploads
    BY DEF BaseInv, TypeOK, File
  <2>3. \A f \in files : /\ phase'[f.by] # "idle"
                         /\ phase'[f.by] = "uploading" => chunk'[f.by][NumChunks] # "pending"
    BY <1>5, <2>2 DEF BaseInv, StoredInv
  <2>4. SuccessIsListed'
    BY <1>1, <1>5 DEF BaseInv, StoredInv, SuccessIsListed
  <2> QED BY <2>1, <2>3, <2>4 DEF StoredInv
<1> QED BY <1>1, <1>2, <1>3, <1>5, <1>6, <1>7, <1>8, <1>9 DEF BaseInv

\* The page lists again.
LEMMA RelistBase ==
  ASSUME BaseInv, NEW u \in Uploads, relist(u)
  PROVE  BaseInv'
<1>1. /\ owed' = owed \ {u}
      /\ listed' = IF Kept(u) THEN listed \cup {u} ELSE listed
      /\ UNCHANGED <<storeVars, clientVars, requests, files, unheard, bounds>>
  BY DEF relist, Kept
<1>2. TypeOK'
  BY <1>1 DEF BaseInv, TypeOK, StoreTypeOK, storeVars, clientVars, bounds
<1>3. StageInv' /\ ClientInv'
  BY <1>1 DEF BaseInv, StageInv, ClientInv, Kept, clientVars
<1>4. SuccessIsListed'
  BY <1>1 DEF BaseInv, StoredInv, SuccessIsListed, Kept, clientVars
<1>5. StoredInv'
  BY <1>1, <1>4 DEF BaseInv, StoredInv, Kept, clientVars
<1> QED BY <1>2, <1>3, <1>5 DEF BaseInv

-----------------------------------------------------------------------------
\* In an undisturbed upload nobody but the request's upload is under way, and a
\* chunk has one request.
LEMMA OneUpload ==
  ASSUME BaseInv, AloneInv, Sound, NEW r \in requests
  PROVE  /\ phase[r.by] = "uploading" /\ r.by \in Uploads /\ r.by # Nobody
         /\ \A u \in Uploads : phase[u] = "uploading" => u = r.by
         /\ \A q \in requests : q.by = r.by /\ (q.c = r.c => q = r)
         /\ chunk[r.by][r.c] = "uploading" /\ r.c \in Chunks
<1>1. r.by \in Uploads /\ r.c \in Chunks
  BY DEF BaseInv, TypeOK, Request
<1>2. r.live
  BY <1>1 DEF AloneInv, Sound, Failed
<1>3. phase[r.by] = "uploading" /\ chunk[r.by][r.c] = "uploading"
  BY <1>2 DEF BaseInv, ClientInv
<1> QED BY <1>1, <1>3, LastChunk DEF AloneInv, Sound

\* A step of the server keeps one upload under way ...
LEMMA ServerAlone ==
  ASSUME BaseInv, AloneInv, OnceInv, NEW r \in requests, NEW n \in Request, ServerOnly,
         GoesOn(r, n), Effect(r, n)
  PROVE  AloneInv' /\ OnceInv'
<1>1. UNCHANGED <<phase, faults, overlapped>>
  BY DEF ServerOnly, clientVars, bounds
<1>2. \A q \in requests' : q = n \/ (q \in requests /\ q # r)
  BY DEF GoesOn
<1>3. AloneInv'
  <2>1. n.at = "again" => n.c = NumChunks
    BY DEF GoesOn, Effect, MkdirEffect, MoveEffect, LastEffect, ReadEffect, RemoveEffect,
           StoreEffect, BaseInv, StageInv
  <2> QED BY <1>1, <1>2, <2>1 DEF AloneInv, Calm, GoesOn
<1>4. OnceInv'
  <2> SUFFICES ASSUME Calm
               PROVE  /\ \A f \in files', q \in requests' :
                             (f.by = q.by /\ q.c = NumChunks) => q.at = "ok"
                      /\ \A f, g \in files' : f.by = g.by => f = g
    BY <1>1 DEF OnceInv, Calm
  <2>1. /\ \A f \in files, q \in requests : (f.by = q.by /\ q.c = NumChunks) => q.at = "ok"
        /\ \A f, g \in files : f.by = g.by => f = g
        /\ \A q \in requests : q.c = r.c => q = r
    BY DEF OnceInv, AloneInv
  <2>2. r.at # "ok"
    BY DEF Effect, MkdirEffect, MoveEffect, LastEffect, ReadEffect, RemoveEffect, StoreEffect,
           Stores
  <2>3. CASE files' = files
    BY <1>2, <2>1, <2>2, <2>3 DEF GoesOn
  <2>4. CASE StoreEffect(r, n)
    <3>1. PICK f : /\ f = [by |-> r.by, try |-> r.try, content |-> r.content]
                   /\ files' = files \cup {f}
      BY <2>4 DEF StoreEffect, Stores
    <3>2. f.by = r.by /\ r.c = NumChunks /\ n.at = "ok"
      BY <2>4, <3>1 DEF StoreEffect, Stores, BaseInv, StageInv
    <3>3. \A g \in files : g.by # f.by
      BY <2>1, <2>2, <3>2
    <3> QED BY <1>2, <2>1, <2>2, <3>1, <3>2, <3>3 DEF GoesOn
  <2> QED BY <2>3, <2>4 DEF Effect, MkdirEffect, MoveEffect, LastEffect, ReadEffect,
                            RemoveEffect
<1> QED BY <1>3, <1>4

\* ... and its parts what they are to be.
LEMMA ServerSound ==
  ASSUME BaseInv, AloneInv, SoundInv, NEW r \in requests, NEW n \in Request, ServerOnly,
         GoesOn(r, n), Effect(r, n)
  PROVE  SoundInv'
<1>1. UNCHANGED <<phase, chunk, faults, overlapped>>
  BY DEF ServerOnly, clientVars, bounds
<1>2. \A q \in requests' : q = n \/ (q \in requests /\ q # r)
  BY DEF GoesOn
<1>3. Sound' => Sound
  BY <1>1 DEF Sound, Calm, Failed
<1> SUFFICES ASSUME Sound PROVE SoundInv'
  BY <1>3 DEF SoundInv
<1>4. /\ \A c \in Chunks : parts[c] # Nobody => phase[parts[c]] = "uploading"
      /\ \A c \in Chunks \ {NumChunks} : parts[c] # Nobody => PassedOn(c)
      /\ \A q \in requests :
             /\ q.at # "failed"
             /\ q.at = "made" => made
             /\ q.at \in {"complete", "read"} => allPartsExist
             /\ q.at \in {"read", "removed"} => \A c \in Chunks : q.content[c] = q.by
             /\ q.at = "removed" \/ (q.at = "ok" /\ q.c = NumChunks)
                    => parts = NoParts /\ Filed
      /\ \A u \in Uploads : phase[u] = "uploading" /\ chunk[u][NumChunks] = "success"
             => parts = NoParts /\ Filed
      /\ \A f \in files : \A c \in Chunks : f.content[c] = f.by
  BY DEF SoundInv
<1>5. /\ phase[r.by] = "uploading" /\ r.by \in Uploads /\ r.by # Nobody
      /\ \A u \in Uploads : phase[u] = "uploading" => u = r.by
      /\ \A q \in requests : q.by = r.by /\ (q.c = r.c => q = r)
      /\ chunk[r.by][r.c] = "uploading" /\ r.c \in Chunks
  BY OneUpload
<1>6. n.by = r.by /\ n.c = r.c
  BY DEF GoesOn
<1>7. parts \in [Chunks -> Uploads \cup {Nobody}]
  BY DEF BaseInv, TypeOK, StoreTypeOK
<1>8. \A q \in requests : q.at \in {"moved", "complete", "read", "removed"} => q.c = NumChunks
  BY DEF BaseInv, StageInv
<1>9. ASSUME NEW c \in Chunks, PassedOn(c) PROVE PassedOn(c)'
  <2>1. r.at \notin {"sent", "made"} => n.at \notin {"sent", "made"}
    BY DEF Effect, MkdirEffect, MoveEffect, LastEffect, ReadEffect, RemoveEffect, StoreEffect,
           Stores
  <2>2. \A q \in requests' : q.c = c => q.at \notin {"sent", "made"}
    BY <1>2, <1>5, <1>6, <1>9, <2>1 DEF PassedOn
  <2> QED BY <1>1, <1>9, <2>2 DEF PassedOn
<1>10. Filed => Filed'
  BY <1>9 DEF Filed
<1>11. Filed /\ r.c # NumChunks => r.at \notin {"sent", "made"}
  BY <1>5 DEF Filed, PassedOn
<1>12. \A c \in Chunks : NoParts[c] = Nobody
  BY DEF NoParts
<1> DEFINE RequestOK(q) == /\ q.at # "failed"
                           /\ q.at = "made" => made'
                           /\ q.at \in {"complete", "read"} => allPartsExist'
                           /\ q.at \in {"read", "removed"} =>
                                  \A c \in Chunks : q.content[c] = q.by
                           /\ q.at = "removed" \/ (q.at = "ok" /\ q.c = NumChunks)
                                  => parts' = NoParts /\ Filed'
           PartsOK == \A c \in Chunks : parts'[c] # Nobody => phase[parts'[c]] = "uploading"
           PassedOK == \A c \in Chunks \ {NumChunks} : parts'[c] # Nobody => PassedOn(c)'
           SuccessOK == \A u \in Uploads : phase[u] = "uploading" /\ chunk[u][NumChunks] = "success"
                           => parts' = NoParts /\ Filed'
           FilesOK == \A f \in files' : \A c \in Chunks : f.content[c] = f.by
<1> SUFFICES PartsOK /\ PassedOK /\ (\A q \in requests' : RequestOK(q)) /\ SuccessOK /\ FilesOK
  BY <1>1 DEF SoundInv
<1>13. CASE MkdirEffect(r, n)
  <2>1. made' = TRUE /\ parts' = parts /\ files' = files /\ n.at = "made"
    BY <1>13 DEF MkdirEffect
  <2>2. \A q \in requests' : RequestOK(q)
    BY <1>2, <1>4, <1>10, <2>1 DEF allPartsExist
  <2> QED BY <1>4, <1>9, <1>10, <2>1, <2>2
<1>14. CASE MoveEffect(r, n)
  <2>1. /\ r.at = "made" /\ made' = made /\ made /\ files' = files
        /\ n.at = (IF r.c = NumChunks THEN "moved" ELSE "ok")
        /\ parts' = [parts EXCEPT ![r.c] = r.by]
    BY <1>4, <1>14 DEF MoveEffect
  <2>2. /\ parts'[r.c] = r.by
        /\ \A c \in Chunks \ {r.c} : parts'[c] = parts[c]
    BY <1>5, <1>7, <2>1
  <2>3. PartsOK
    BY <1>4, <1>5, <2>2
  <2>4. PassedOn(r.c)'
    <3>1. \A q \in requests' : q.c = r.c => q = n
      BY <1>2, <1>5
    <3>2. n.at \notin {"sent", "made"}
      BY <2>1
    <3>3. \A u \in Uploads : phase'[u] = "uploading" => chunk'[u][r.c] # "pending"
      BY <1>1, <1>5
    <3> QED BY <3>1, <3>2, <3>3 DEF PassedOn
  <2>5. PassedOK
    BY <1>4, <1>9, <2>2, <2>4
  <2>6. allPartsExist => allPartsExist'
    BY <1>5, <2>2 DEF allPartsExist
  <2>7. ASSUME NEW q \in requests' PROVE RequestOK(q)
    <3>1. CASE q = n
      BY <2>1, <3>1, <1>6
    <3>2. CASE q \in requests /\ q # r
      <4>1. ~ (q.at = "removed" \/ (q.at = "ok" /\ q.c = NumChunks))
        BY <1>4, <1>5, <1>8, <1>11, <2>1, <3>2
      <4> QED BY <1>4, <2>1, <2>6, <3>2, <4>1
    <3> QED BY <1>2, <3>1, <3>2
  <2>8. SuccessOK
    <3>1. \A u \in Uploads : ~ (phase[u] = "uploading" /\ chunk[u][NumChunks] = "success")
      BY <1>4, <1>5, <1>11, <2>1
    <3> QED BY <3>1
  <2>9. FilesOK
    BY <1>4, <2>1
  <2> QED BY <2>3, <2>5, <2>7, <2>8, <2>9
<1>15. CASE LastEffect(r, n)
  <2>1. /\ made' = made /\ parts' = parts /\ files' = files
        /\ n.at = IF allPartsExist THEN "complete" ELSE "again"
    BY <1>15 DEF LastEffect, storeVars
  <2>2. \A q \in requests' : RequestOK(q)
    BY <1>2, <1>4, <1>10, <2>1 DEF allPartsExist
  <2> QED BY <1>4, <1>9, <1>10, <2>1, <2>2
<1>16. CASE ReadEffect(r, n)
  <2>1. /\ made' = made /\ parts' = parts /\ files' = files
        /\ n.at = "read" /\ n.content = parts /\ allPartsExist
    BY <1>4, <1>16 DEF ReadEffect, storeVars
  <2>2. \A c \in Chunks : n.content[c] = n.by
    <3>1. \A c \in Chunks : parts[c] \in Uploads
      BY <1>7, <2>1 DEF allPartsExist
    <3> QED BY <1>4, <1>5, <1>6, <2>1, <3>1, LastChunk
  <2>3. \A q \in requests' : RequestOK(q)
    BY <1>2, <1>4, <1>10, <2>1, <2>2 DEF allPartsExist
  <2> QED BY <1>4, <1>9, <1>10, <2>1, <2>3
<1>17. CASE RemoveEffect(r, n)
  <2>1. /\ parts' = NoParts /\ files' = files /\ r.at = "read"
        /\ n.at = "removed" /\ n.content = r.content
    BY <1>17 DEF RemoveEffect
  <2>2. Filed
    BY <1>4, <2>1 DEF allPartsExist, Filed
  <2>3. r.c = NumChunks
    BY <1>8, <2>1
  <2>4. ASSUME NEW q \in requests, q # r PROVE q.at \notin {"made", "complete", "read", "removed"}
    BY <1>5, <1>8, <2>2, <2>3, <2>4 DEF Filed, PassedOn, BaseInv, TypeOK, Request
  <2>5. \A q \in requests' : RequestOK(q)
    BY <1>2, <1>4, <1>6, <1>10, <2>1, <2>2, <2>4
  <2> QED BY <1>4, <1>10, <1>12, <2>1, <2>2, <2>5
<1>18. CASE StoreEffect(r, n)
  <2>1. /\ made' = made /\ parts' = parts /\ n.at = "ok" /\ r.at = "removed"
    BY <1>18 DEF StoreEffect, Stores, storeVars
  <2>2. PICK f : /\ f = [by |-> r.by, try |-> r.try, content |-> r.content]
                 /\ files' = files \cup {f}
    BY <1>18 DEF StoreEffect, Stores
  <2>3. f.by = r.by /\ f.content = r.content
    BY <2>2
  <2>4. FilesOK
    BY <1>4, <2>1, <2>2, <2>3
  <2>5. \A q \in requests' : RequestOK(q)
    BY <1>2, <1>4, <1>10, <2>1 DEF allPartsExist
  <2> QED BY <1>4, <1>9, <1>10, <2>1, <2>4, <2>5
<1> QED BY <1>13, <1>14, <1>15, <1>16, <1>17, <1>18 DEF Effect

\* An upload that begins by itself finds no request and no part.
LEMMA SubmittedSound ==
  ASSUME IInv, NEW u \in Uploads, filesSubmitted(u)
  PROVE  AloneInv' /\ OnceInv' /\ SoundInv' /\ FailsFirstByOvertaking'
<1>1. /\ phase[u] = "idle" /\ phase' = [phase EXCEPT ![u] = "uploading"]
      /\ SendMore(u, chunk[u], requests)
      /\ UNCHANGED <<made, parts, retries, files, faults>>
      /\ overlapped' = (overlapped \/ requests # {} \/ \E v \in Uploads : phase[v] = "uploading")
  BY DEF filesSubmitted, storeVars
<1>2. /\ phase'[u] = "uploading"
      /\ \A v \in Uploads \ {u} : phase'[v] = phase[v]
      /\ chunk[u] \in [Chunks -> {"pending", "uploading", "success"}]
  BY <1>1 DEF IInv, BaseInv, TypeOK
<1>3. /\ \A q \in requests' : q \in requests \/ Fresh(q, u, chunk[u])
      /\ \A c \in Chunks : chunk'[u][c] \in {chunk[u][c], "uploading"}
  BY <1>1, <1>2, SendMoreLemma DEF IInv, BaseInv
<1>4. ASSUME Calm'
      PROVE  /\ Calm /\ \A v \in Uploads : phase[v] # "uploading"
             /\ \A q \in requests' : /\ q.by = u /\ q.live /\ q.at = "sent"
                                     /\ q = Sent(u, q.c, retries[u][q.c])
  BY <1>1, <1>3, <1>4 DEF Calm, Fresh
<1>5. AloneInv'
  <2> SUFFICES ASSUME Calm' PROVE AloneInv'
    BY DEF AloneInv
  <2>1. \A q \in requests' : q.by = u /\ q.live
    BY <1>4
  <2>2. \A q, s \in requests' : q.c = s.c => q = s
    BY <1>4
  <2>3. \A v \in Uploads : phase'[v] = "uploading" => v = u
    BY <1>2, <1>4
  <2>4. \A q \in requests' : q.at # "again"
    BY <1>4
  <2> QED BY <2>1, <2>2, <2>3, <2>4 DEF AloneInv
<1>6. OnceInv'
  <2>1. \A f \in files : f.by # u
    BY <1>1 DEF IInv, BaseInv, StoredInv
  <2> QED BY <1>1, <1>4, <2>1 DEF IInv, OnceInv
<1>7. SoundInv'
  <2> SUFFICES ASSUME Sound' PROVE SoundInv'
    BY DEF SoundInv
  <2>1. Calm' /\ Sound
    BY <1>1, <1>2, <1>4 DEF Sound, Failed
  <2>2. parts \in [Chunks -> Uploads \cup {Nobody}]
    BY DEF IInv, BaseInv, TypeOK, StoreTypeOK
  <2>3. \A c \in Chunks : parts[c] = Nobody
    BY <1>4, <2>1, <2>2 DEF IInv, SoundInv
  <2>4. \A v \in Uploads : phase'[v] = "uploading" => v = u
    BY <1>2, <1>4, <2>1
  <2>5. chunk'[u][NumChunks] # "success"
    BY <1>1, <1>3, LastChunk DEF IInv, BaseInv, ClientInv
  <2>6. \A q \in requests' : q.at = "sent"
    BY <1>4, <2>1
  <2>7. \A f \in files' : \A c \in Chunks : f.content[c] = f.by
    BY <1>1, <2>1 DEF IInv, SoundInv
  <2>8. \A c \in Chunks : parts'[c] = Nobody
    BY <1>1, <2>3
  <2> QED BY <2>4, <2>5, <2>6, <2>7, <2>8 DEF SoundInv
<1>8. FailsFirstByOvertaking'
  <2>1. \A v \in Uploads : Failed(v)' <=> Failed(v)
    BY <1>1, <1>2 DEF Failed
  <2> QED BY <1>1, <1>4, <2>1 DEF IInv, FailsFirstByOvertaking, Calm
<1> QED BY <1>5, <1>6, <1>7, <1>8

\* The last chunk's success, and so the file's, leaves no part behind.
LEMMA SuccessSound ==
  ASSUME IInv, NEW u \in Uploads, NEW r \in requests, r.by = u, r.live, r.at = "ok",
         ChunkSuccess(u, r), UNCHANGED <<storeVars, files, listed, bounds>>
  PROVE  AloneInv' /\ OnceInv' /\ SoundInv' /\ FailsFirstByOvertaking'
<1> DEFINE status == [chunk[u] EXCEPT ![r.c] = "success"]
           all == \A c \in Chunks : status[c] = "success"
<1>1. /\ SendMore(u, status, requests \ {r}) /\ retries' = retries
      /\ phase' = IF all THEN [phase EXCEPT ![u] = "success"] ELSE phase
  BY DEF ChunkSuccess
<1>2. /\ r.c \in Chunks /\ chunk[u] \in [Chunks -> {"pending", "uploading", "success"}]
      /\ phase[u] = "uploading"
  BY DEF IInv, BaseInv, TypeOK, Request, ClientInv
<1>3. /\ status \in [Chunks -> {"pending", "uploading", "success"}]
      /\ status[r.c] = "success"
      /\ \A c \in Chunks \ {r.c} : status[c] = chunk[u][c]
  BY <1>2
<1> HIDE DEF status
<1>4. /\ \A c \in Chunks : \/ chunk'[u][c] = status[c]
                           \/ status[c] = "pending" /\ chunk'[u][c] = "uploading"
      /\ \A q \in requests' : q \in requests \ {r} \/ Fresh(q, u, status)
  BY <1>1, <1>3, SendMoreLemma DEF IInv, BaseInv
<1>5. ASSUME NEW q \in requests'
      PROVE  \/ q \in requests /\ q # r
             \/ /\ q.by = u /\ q.at = "sent" /\ q.live
                /\ q.c \in Chunks /\ chunk[u][q.c] = "pending"
                /\ q = Sent(u, q.c, retries[u][q.c])
                /\ \A o \in requests : o.by = u => o.c # q.c
  <2> SUFFICES ASSUME Fresh(q, u, status)
               PROVE  /\ q.by = u /\ q.at = "sent" /\ q.live
                      /\ q.c \in Chunks /\ chunk[u][q.c] = "pending"
                      /\ q = Sent(u, q.c, retries[u][q.c])
                      /\ \A o \in requests : o.by = u => o.c # q.c
    BY <1>4
  <2>1. q.by = u /\ q.at = "sent" /\ q.live /\ q.c \in Chunks /\ status[q.c] = "pending"
        /\ q = Sent(u, q.c, retries[u][q.c])
    BY DEF Fresh, Request
  <2>2. chunk[u][q.c] = "pending"
    BY <1>3, <2>1
  <2>3. \A o \in requests : o.by = u => o.c # q.c
    BY <1>2, <2>2 DEF IInv, BaseInv, ClientInv
  <2> QED BY <2>1, <2>2, <2>3
<1>6. /\ \A v \in Uploads \ {u} : phase'[v] = phase[v]
      /\ phase'[u] = IF all THEN "success" ELSE "uploading"
  BY <1>1, <1>2 DEF IInv, BaseInv, TypeOK
<1>7. UNCHANGED <<made, parts, files, faults, overlapped>>
  BY DEF storeVars, bounds
<1>8. AloneInv'
  <2> SUFFICES ASSUME Calm PROVE AloneInv'
    BY <1>7 DEF AloneInv, Calm
  <2>1. \A q \in requests : q.by = u
    BY DEF IInv, AloneInv
  <2>2. \A q \in requests' : q.live \/ phase'[q.by] = "error"
    BY <1>2, <1>5, <1>6, <2>1 DEF IInv, AloneInv
  <2>3. \A q, s \in requests' : q.by = s.by /\ (q.c = s.c => q = s)
    BY <1>5, <2>1 DEF IInv, AloneInv
  <2>4. \A q \in requests', v \in Uploads : phase'[v] = "uploading" => q.by = v
    BY <1>2, <1>5, <1>6, <2>1 DEF IInv, AloneInv
  <2>5. \A v, w \in Uploads : phase'[v] = "uploading" /\ phase'[w] = "uploading" => v = w
    BY <1>2, <1>6 DEF IInv, AloneInv
  <2>6. \A q \in requests' : q.at = "again" => q.c = NumChunks
    BY <1>5 DEF IInv, AloneInv
  <2> QED BY <2>2, <2>3, <2>4, <2>5, <2>6 DEF AloneInv
<1>9. OnceInv'
  <2> SUFFICES ASSUME Calm
               PROVE  /\ \A f \in files, q \in requests' :
                             (f.by = q.by /\ q.c = NumChunks) => q.at = "ok"
                      /\ \A f, g \in files : f.by = g.by => f = g
    BY <1>7 DEF OnceInv, Calm
  <2>1. \A f \in files : f.by = u => chunk[u][NumChunks] # "pending"
    BY <1>2 DEF IInv, BaseInv, StoredInv
  <2> QED BY <1>5, <2>1 DEF IInv, OnceInv
<1>10. SoundInv'
  <2>1. Sound' => Sound
    BY <1>2, <1>6, <1>7 DEF Sound, Calm, Failed
  <2> SUFFICES ASSUME Sound PROVE SoundInv'
    BY <2>1 DEF SoundInv
  <2>2. /\ \A v \in Uploads : phase[v] = "uploading" => v = u
        /\ \A q \in requests : q.by = u
    BY OneUpload DEF IInv
  <2>3. \A v \in Uploads : phase'[v] = "uploading" => v = u /\ ~ all
    BY <1>6, <2>2
  <2>4. ASSUME NEW c \in Chunks, PassedOn(c) PROVE PassedOn(c)'
    <3>1. chunk[u][c] # "pending" /\ \A q \in requests : q.c = c => q.at \notin {"sent", "made"}
      BY <1>2, <2>4 DEF PassedOn
    <3>2. status[c] # "pending"
      BY <1>3, <3>1
    <3>3. chunk'[u][c] # "pending"
      BY <1>4, <3>2
    <3>4. \A q \in requests' : q.c = c => q.at \notin {"sent", "made"}
      BY <1>5, <3>1
    <3> QED BY <2>3, <3>3, <3>4 DEF PassedOn
  <2>5. Filed => Filed'
    BY <2>4 DEF Filed
  <2>6. status[NumChunks] = "success" => parts = NoParts /\ Filed
    <3>1. CASE r.c = NumChunks
      BY <3>1 DEF IInv, SoundInv
    <3>2. CASE r.c # NumChunks
      BY <1>2, <1>3, <3>2, LastChunk DEF IInv, SoundInv
    <3> QED BY <3>1, <3>2
  <2>7. \A c \in Chunks : parts'[c] # Nobody => phase'[parts'[c]] = "uploading"
    <3> SUFFICES ASSUME NEW c \in Chunks, parts[c] # Nobody
                 PROVE  phase'[parts[c]] = "uploading"
      BY <1>7
    <3>1. parts[c] \in Uploads /\ phase[parts[c]] = "uploading"
      BY DEF IInv, BaseInv, TypeOK, StoreTypeOK, SoundInv
    <3>2. parts[c] = u
      BY <2>2, <3>1
    <3>3. ~ all
      BY <2>6, LastChunk DEF NoParts
    <3> QED BY <1>6, <3>2, <3>3
  <2>8. \A c \in Chunks \ {NumChunks} : parts'[c] # Nobody => PassedOn(c)'
    BY <1>7, <2>4 DEF IInv, SoundInv
  <2>9. \A q \in requests' :
             /\ q.at # "failed"
             /\ q.at = "made" => made'
             /\ q.at \in {"complete", "read"} => allPartsExist'
             /\ q.at \in {"read", "removed"} => \A c \in Chunks : q.content[c] = q.by
             /\ q.at = "removed" \/ (q.at = "ok" /\ q.c = NumChunks)
                    => parts' = NoParts /\ Filed'
    BY <1>5, <1>7, <2>5 DEF IInv, SoundInv, allPartsExist
  <2>10. \A v \in Uploads : phase'[v] = "uploading" /\ chunk'[v][NumChunks] = "success"
             => parts' = NoParts /\ Filed'
    BY <1>4, <1>7, <2>3, <2>5, <2>6, LastChunk
  <2>11. \A f \in files' : \A c \in Chunks : f.content[c] = f.by
    BY <1>7 DEF IInv, SoundInv
  <2> QED BY <2>7, <2>8, <2>9, <2>10, <2>11 DEF SoundInv
<1>11. FailsFirstByOvertaking'
  <2>1. \A v \in Uploads : Failed(v)' <=> Failed(v)
    BY <1>2, <1>6 DEF Failed
  <2> QED BY <1>1, <1>7, <2>1 DEF IInv, FailsFirstByOvertaking
<1> QED BY <1>8, <1>9, <1>10, <1>11

\* A repeated last chunk finds the others where it left them.
LEMMA RetrySound ==
  ASSUME IInv, NEW u \in Uploads, NEW r \in requests, r.by = u, r.live, r.at = "again",
         ChunkRetry(u, r, {}), UNCHANGED <<storeVars, files, listed, bounds>>
  PROVE  BaseInv' /\ AloneInv' /\ OnceInv' /\ SoundInv' /\ FailsFirstByOvertaking'
<1>1. UNCHANGED <<made, parts, files, faults, overlapped>> /\ faults' \in 0 .. MaxTrouble
  BY DEF storeVars, bounds, IInv, BaseInv, TypeOK
<1>2. PICK gone : gone = {} /\ Gone(r, gone) /\ ChunkRetry(u, r, gone)
  BY DEF Gone
<1>3. /\ BaseInv'
      /\ phase' = phase /\ chunk' = chunk
      /\ \A v \in Uploads \ {u} : retries'[v] = retries[v]
      /\ phase[u] = "uploading"
      /\ \A q \in requests' : \/ q \in requests \ {r}
                              \/ q \in gone
                              \/ /\ q.by = u /\ q.c = r.c /\ q.at = "sent" /\ q.live
                                 /\ \A y \in requests' \ ((requests \ {r}) \cup gone) : q = y
  BY <1>1, <1>2, RetryBase DEF IInv
<1>4. \A q \in requests' : \/ q \in requests /\ q # r
                           \/ /\ q.by = u /\ q.c = r.c /\ q.at = "sent" /\ q.live
                              /\ \A y \in requests' : y = q \/ (y \in requests /\ y # r)
  BY <1>2, <1>3
<1>5. Calm => r.c = NumChunks
  BY DEF IInv, AloneInv
<1>6. AloneInv'
  <2> SUFFICES ASSUME Calm PROVE AloneInv'
    BY <1>1 DEF AloneInv, Calm
  <2>1. \A q \in requests : q.by = u /\ (q.c = r.c => q = r)
    BY DEF IInv, AloneInv
  <2>2. \A q, s \in requests' : q.by = s.by /\ (q.c = s.c => q = s)
    BY <1>4, <2>1 DEF IInv, AloneInv
  <2>3. \A q \in requests' : q.live \/ phase'[q.by] = "error"
    BY <1>3, <1>4 DEF IInv, AloneInv
  <2>4. \A q \in requests', v \in Uploads : phase'[v] = "uploading" => q.by = v
    BY <1>3, <1>4, <2>1 DEF IInv, AloneInv
  <2>5. \A v, w \in Uploads : phase'[v] = "uploading" /\ phase'[w] = "uploading" => v = w
    BY <1>3 DEF IInv, AloneInv
  <2>6. \A q \in requests' : q.at = "again" => q.c = NumChunks
    BY <1>4 DEF IInv, AloneInv
  <2> QED BY <2>2, <2>3, <2>4, <2>5, <2>6 DEF AloneInv
<1>7. OnceInv'
  <2> SUFFICES ASSUME Calm
               PROVE  /\ \A f \in files, q \in requests' :
                             (f.by = q.by /\ q.c = NumChunks) => q.at = "ok"
                      /\ \A f, g \in files : f.by = g.by => f = g
    BY <1>1 DEF OnceInv, Calm
  <2>1. \A f \in files : f.by # u
    BY <1>5 DEF IInv, OnceInv
  <2> QED BY <1>4, <2>1 DEF IInv, OnceInv
<1>8. SoundInv'
  <2>1. Sound' => Sound
    BY <1>1, <1>3 DEF Sound, Calm, Failed
  <2> SUFFICES ASSUME Sound PROVE SoundInv'
    BY <2>1 DEF SoundInv
  <2>2. ASSUME NEW c \in Chunks \ {NumChunks}, PassedOn(c) PROVE PassedOn(c)'
    BY <1>3, <1>4, <1>5, <2>2 DEF PassedOn, Sound
  <2>3. Filed => Filed'
    BY <2>2 DEF Filed
  <2>4. \A c \in Chunks : parts'[c] # Nobody => phase'[parts'[c]] = "uploading"
    BY <1>1, <1>3 DEF IInv, SoundInv
  <2>5. \A c \in Chunks \ {NumChunks} : parts'[c] # Nobody => PassedOn(c)'
    BY <1>1, <2>2 DEF IInv, SoundInv
  <2>6. \A q \in requests' :
             /\ q.at # "failed"
             /\ q.at = "made" => made'
             /\ q.at \in {"complete", "read"} => allPartsExist'
             /\ q.at \in {"read", "removed"} => \A c \in Chunks : q.content[c] = q.by
             /\ q.at = "removed" \/ (q.at = "ok" /\ q.c = NumChunks)
                    => parts' = NoParts /\ Filed'
    BY <1>1, <1>4, <2>3 DEF IInv, SoundInv, allPartsExist
  <2>7. \A v \in Uploads : phase'[v] = "uploading" /\ chunk'[v][NumChunks] = "success"
             => parts' = NoParts /\ Filed'
    BY <1>1, <1>3, <2>3 DEF IInv, SoundInv
  <2>8. \A f \in files' : \A c \in Chunks : f.content[c] = f.by
    BY <1>1 DEF IInv, SoundInv
  <2> QED BY <2>4, <2>5, <2>6, <2>7, <2>8 DEF SoundInv
<1>9. FailsFirstByOvertaking'
  <2>1. \A v \in Uploads : Failed(v)' <=> Failed(v)
    BY <1>3 DEF Failed
  <2>2. \A v \in Uploads : Failed(v) => v # u
    BY <1>3 DEF Failed
  <2> QED BY <1>1, <1>3, <2>1, <2>2 DEF IInv, FailsFirstByOvertaking
<1> QED BY <1>3, <1>6, <1>7, <1>8, <1>9

\* The first file to fail has used up its last chunk's retries: before it, no
\* request of an undisturbed upload fails.
LEMMA ErrorSound ==
  ASSUME IInv, NEW u \in Uploads, NEW r \in requests, r.by = u, r.live,
         r.at = "failed" \/ (r.at = "again" /\ retries[u][r.c] = MaxChunkRetries),
         fileError(u, r, {}), UNCHANGED <<storeVars, files, listed, bounds>>
  PROVE  BaseInv' /\ AloneInv' /\ OnceInv' /\ SoundInv' /\ FailsFirstByOvertaking'
<1>1. UNCHANGED <<made, parts, files, faults, overlapped>> /\ faults' \in 0 .. MaxTrouble
  BY DEF storeVars, bounds, IInv, BaseInv, TypeOK
<1>2. Gone(r, {})
  BY DEF Gone
<1>3. /\ BaseInv'
      /\ phase[u] = "uploading" /\ phase' = [phase EXCEPT ![u] = "error"]
      /\ \A v \in Uploads \ {u} : chunk'[v] = chunk[v]
      /\ retries' = retries
      /\ \A q \in requests' : \E o \in requests \ {r} :
            IF o.by = u THEN q = [o EXCEPT !.live = FALSE] ELSE q = o
  BY <1>1, <1>2, ErrorBase DEF IInv
<1>4. /\ phase'[u] = "error"
      /\ \A v \in Uploads \ {u} : phase'[v] = phase[v]
  BY <1>3 DEF IInv, BaseInv, TypeOK
<1>5. ASSUME Calm, NEW q \in requests'
      PROVE  \E o \in requests : /\ o.by = u
                                 /\ q.by = u /\ q.c = o.c /\ q.at = o.at
                                 /\ q = [o EXCEPT !.live = FALSE]
  <2>1. PICK o \in requests : IF o.by = u THEN q = [o EXCEPT !.live = FALSE] ELSE q = o
    BY <1>3
  <2>2. o.by = u /\ o \in Request
    BY <1>5 DEF IInv, BaseInv, TypeOK, AloneInv
  <2>3. q = [o EXCEPT !.live = FALSE]
    BY <2>1, <2>2
  <2>4. q.by = o.by /\ q.c = o.c /\ q.at = o.at
    BY <2>2, <2>3, DeadType
  <2> QED BY <2>2, <2>3, <2>4
<1>6. AloneInv'
  <2> SUFFICES ASSUME Calm PROVE AloneInv'
    BY <1>1 DEF AloneInv, Calm
  <2>1. \A q \in requests' : q.by = u
    BY <1>5
  <2>2. \A q, s \in requests' : q.c = s.c => q = s
    <3> SUFFICES ASSUME NEW q \in requests', NEW s \in requests', q.c = s.c PROVE q = s
      OBVIOUS
    <3>1. PICK o \in requests : q.c = o.c /\ q = [o EXCEPT !.live = FALSE]
      BY <1>5
    <3>2. PICK p \in requests : s.c = p.c /\ s = [p EXCEPT !.live = FALSE]
      BY <1>5
    <3>3. o.c = p.c
      BY <3>1, <3>2
    <3>4. o = p
      BY <3>3 DEF IInv, AloneInv
    <3> QED BY <3>1, <3>2, <3>4
  <2>3. \A v \in Uploads : phase[v] = "uploading" => v = u
    BY <1>3 DEF IInv, AloneInv
  <2>4. \A v \in Uploads : phase'[v] # "uploading"
    BY <1>4, <2>3
  <2>5. \A q \in requests' : q.at = "again" => q.c = NumChunks
    BY <1>5 DEF IInv, AloneInv
  <2> QED BY <1>4, <2>1, <2>2, <2>4, <2>5 DEF AloneInv
<1>7. OnceInv'
  <2> SUFFICES ASSUME Calm
               PROVE  /\ \A f \in files, q \in requests' :
                             (f.by = q.by /\ q.c = NumChunks) => q.at = "ok"
                      /\ \A f, g \in files : f.by = g.by => f = g
    BY <1>1 DEF OnceInv, Calm
  <2>1. ASSUME NEW f \in files, NEW q \in requests', f.by = q.by, q.c = NumChunks
        PROVE  q.at = "ok"
    <3>1. PICK o \in requests : o.by = u /\ q.by = u /\ q.c = o.c /\ q.at = o.at
      BY <1>5
    <3> QED BY <2>1, <3>1 DEF IInv, OnceInv
  <2> QED BY <2>1 DEF IInv, OnceInv
<1>8. Failed(u)' /\ ~ Sound'
  BY <1>4 DEF Sound, Failed
<1>9. FailsFirstByOvertaking'
  <2> SUFFICES ASSUME Calm
               PROVE  \E v \in Uploads : Failed(v)' /\ retries[v][NumChunks] = MaxChunkRetries
    BY <1>1, <1>3 DEF FailsFirstByOvertaking, Calm
  <2>1. CASE \E v \in Uploads : Failed(v)
    <3>1. PICK v \in Uploads : Failed(v) /\ retries[v][NumChunks] = MaxChunkRetries
      BY <2>1 DEF IInv, FailsFirstByOvertaking, Calm
    <3>2. Failed(v)'
      BY <1>4, <3>1 DEF Failed
    <3> QED BY <3>1, <3>2
  <2>2. CASE ~ \E v \in Uploads : Failed(v)
    <3>1. r.at # "failed" /\ (r.at = "again" => r.c = NumChunks)
      BY <2>2 DEF IInv, AloneInv, SoundInv, Sound
    <3>2. r.c = NumChunks /\ retries[u][NumChunks] = MaxChunkRetries
      BY <3>1
    <3> QED BY <1>8, <3>2
  <2> QED BY <2>1, <2>2
<1> QED BY <1>3, <1>6, <1>7, <1>8, <1>9 DEF SoundInv

\* A step that changes nothing but the list keeps the rest.
LEMMA RestKept ==
  ASSUME IInv, UNCHANGED <<storeVars, clientVars, requests, files, bounds>>
  PROVE  AloneInv' /\ OnceInv' /\ SoundInv' /\ FailsFirstByOvertaking'
<1>1. UNCHANGED <<made, parts, phase, chunk, retries, requests, files, faults, overlapped>>
  BY DEF storeVars, clientVars, bounds
<1>2. AloneInv' /\ OnceInv'
  BY <1>1 DEF IInv, AloneInv, OnceInv, Calm
<1>3. SoundInv'
  BY <1>1 DEF IInv, SoundInv, Sound, Calm, Failed, PassedOn, Filed, allPartsExist
<1>4. FailsFirstByOvertaking'
  BY <1>1 DEF IInv, FailsFirstByOvertaking, Failed
<1> QED BY <1>2, <1>3, <1>4

\* A lost message ends the quiet.
LEMMA LoseStep ==
  ASSUME IInv, NEW u \in Uploads, NEW r \in requests, Lose(u, r)
  PROVE  IInv'
<1>1. /\ r.by = u /\ r.live /\ faults' = faults + 1
      /\ UNCHANGED <<storeVars, files, listed>> /\ overlapped' = overlapped
      /\ faults + (IF overlapped THEN 1 ELSE 0) < MaxTrouble
  BY DEF Lose, Trouble
<1>2. faults' \in 0 .. MaxTrouble /\ faults' # 0
  BY <1>1, ChunkUploadAssumption DEF IInv, BaseInv, TypeOK
<1>3. r \in Request
  BY DEF IInv, BaseInv, TypeOK
<1>4. PICK gone : /\ gone = {[r EXCEPT !.live = FALSE]} \/ gone = {}
                  /\ ChunkRetry(u, r, gone) \/ fileError(u, r, gone)
  <2>1. PICK gone \in {{[r EXCEPT !.live = FALSE]}} \cup (IF r.at = "sent" THEN {{}} ELSE {}) :
            \/ ChunkRetry(u, r, gone)
            \/ retries[u][r.c] = MaxChunkRetries /\ fileError(u, r, gone)
    BY DEF Lose
  <2> QED BY <2>1
<1>5. Gone(r, gone)
  <2> SUFFICES ASSUME NEW q \in gone
               PROVE  /\ q \in Request /\ q.live = FALSE
                      /\ q.by = r.by /\ q.c = r.c /\ q.at = r.at /\ q.content = r.content
    BY DEF Gone
  <2>1. q = [r EXCEPT !.live = FALSE]
    BY <1>4
  <2> QED BY <1>3, <2>1, DeadType
<1>6. BaseInv'
  <2>1. CASE ChunkRetry(u, r, gone)
    BY <1>1, <1>2, <1>5, <2>1, RetryBase DEF IInv
  <2>2. CASE fileError(u, r, gone)
    BY <1>1, <1>2, <1>5, <2>2, ErrorBase DEF IInv
  <2> QED BY <1>4, <2>1, <2>2
<1>7. AloneInv' /\ OnceInv' /\ SoundInv' /\ FailsFirstByOvertaking'
  BY <1>2 DEF AloneInv, OnceInv, SoundInv, Sound, Calm, FailsFirstByOvertaking
<1> QED BY <1>6, <1>7 DEF IInv

\* An answer is dealt with.
LEMMA AnswerStep ==
  ASSUME IInv, NEW u \in Uploads, NEW r \in requests, Answer(u, r)
  PROVE  IInv'
<1>1. r.by = u /\ r.live /\ UNCHANGED <<storeVars, files, listed, bounds>>
  BY DEF Answer
<1>2. CASE r.at = "ok" /\ ChunkSuccess(u, r)
  BY <1>1, <1>2, SuccessBase, SuccessSound DEF IInv
<1>3. CASE r.at = "again" /\ ChunkRetry(u, r, {})
  BY <1>1, <1>3, RetrySound DEF IInv
<1>4. CASE /\ r.at = "failed" \/ (r.at = "again" /\ retries[u][r.c] = MaxChunkRetries)
           /\ fileError(u, r, {})
  BY <1>1, <1>4, ErrorSound DEF IInv
<1> QED BY <1>2, <1>3, <1>4 DEF Answer

\* A request goes on on the server.
LEMMA ServerStepKeeps ==
  ASSUME IInv, ServerStep
  PROVE  IInv'
<1>1. PICK r \in requests : \/ processMkdir(r) \/ processMove(r) \/ processLast(r)
                            \/ createFileFromChunks(r) \/ RemoveChunks(r)
                            \/ FlowUploadAction(r)
  BY DEF ServerStep
<1>2. PICK n \in Request : ServerOnly /\ GoesOn(r, n) /\ Effect(r, n)
  BY <1>1, ServerSteps DEF IInv, BaseInv
<1>5. UNCHANGED <<clientVars, pageVars, overlapped>> /\ faults' \in 0 .. MaxTrouble
  BY <1>2 DEF ServerOnly, bounds, IInv, BaseInv, TypeOK
<1>3. BaseInv' /\ AloneInv' /\ OnceInv' /\ SoundInv'
  BY <1>2, <1>5, ServerBase, ServerAlone, ServerSound DEF IInv
<1>4. FailsFirstByOvertaking'
  BY <1>2 DEF IInv, FailsFirstByOvertaking, Failed, ServerOnly, clientVars, bounds
<1> QED BY <1>3, <1>4 DEF IInv

\* A failing handler ends the quiet.
LEMMA HandlerFailsStep ==
  ASSUME IInv, NEW r \in requests, HandlerFails(r)
  PROVE  IInv'
<1>1. PICK n \in Request : GoesOn(r, n) /\ FailEffect(r, n)
  BY HandlerFailsLemma DEF IInv, BaseInv
<1>2. /\ UNCHANGED <<clientVars, pageVars, overlapped>>
      /\ faults' \in 0 .. MaxTrouble /\ faults' # 0
  BY HandlerFailsLemma DEF IInv, BaseInv
<1>3. BaseInv'
  BY <1>1, <1>2, ServerBase DEF IInv
<1>4. AloneInv' /\ OnceInv' /\ SoundInv' /\ FailsFirstByOvertaking'
  BY <1>2 DEF AloneInv, OnceInv, SoundInv, Sound, Calm, FailsFirstByOvertaking
<1> QED BY <1>3, <1>4 DEF IInv

-----------------------------------------------------------------------------
\* Nothing has been sent, stored or listed at the start.
LEMMA InitInv == Init => IInv
<1> SUFFICES ASSUME Init PROVE IInv
  OBVIOUS
<1> USE DEF Init, StoreInit
<1>1. TypeOK
  <2>1. StoreTypeOK
    BY DEF StoreTypeOK, NoParts
  <2>2. /\ phase \in [Uploads -> Phases]
        /\ chunk \in [Uploads -> [Chunks -> {"pending", "uploading", "success"}]]
    BY DEF Phases
  <2>3. /\ retries \in [Uploads -> [Chunks -> 0 .. MaxChunkRetries]]
        /\ faults \in 0 .. MaxTrouble
    BY ChunkUploadAssumption
  <2>4. /\ requests \subseteq Request /\ files \subseteq File
        /\ owed \subseteq Uploads /\ listed \subseteq Uploads
        /\ unheard \subseteq Uploads /\ overlapped \in BOOLEAN
    OBVIOUS
  <2> QED BY <2>1, <2>2, <2>3, <2>4 DEF TypeOK
<1>2. StageInv /\ ClientInv
  BY DEF StageInv, ClientInv
<1>3. StoredInv
  BY LastChunk DEF StoredInv, SuccessIsListed
<1>4. AloneInv /\ OnceInv
  BY DEF AloneInv, OnceInv
<1>5. SoundInv
  BY DEF SoundInv, NoParts
<1>6. FailsFirstByOvertaking
  BY DEF FailsFirstByOvertaking, Failed
<1> QED BY <1>1, <1>2, <1>3, <1>4, <1>5, <1>6 DEF IInv, BaseInv

\* Every step keeps the invariant.
LEMMA NextInv == IInv /\ [Next]_vars => IInv'
<1> SUFFICES ASSUME IInv, [Next]_vars PROVE IInv'
  OBVIOUS
<1>1. ASSUME NEW u \in Uploads, filesSubmitted(u) PROVE IInv'
  BY <1>1, SubmittedBase, SubmittedSound DEF IInv
<1>2. ASSUME NEW u \in Uploads, relist(u) PROVE IInv'
  <2>1. UNCHANGED <<storeVars, clientVars, requests, files, bounds>>
    BY <1>2 DEF relist
  <2> QED BY <1>2, <2>1, RelistBase, RestKept DEF IInv
<1>3. ASSUME NEW u \in Uploads, NEW r \in requests, Lose(u, r) PROVE IInv'
  BY <1>3, LoseStep
<1>4. ASSUME NEW u \in Uploads, NEW r \in requests, Answer(u, r) PROVE IInv'
  BY <1>4, AnswerStep
<1>5. CASE ServerStep
  BY <1>5, ServerStepKeeps
<1>7. ASSUME NEW r \in requests, HandlerFails(r) PROVE IInv'
  BY <1>7, HandlerFailsStep
<1>6. CASE UNCHANGED vars
  <2>1. UNCHANGED <<made, parts, phase, chunk, retries, requests, files, owed, listed, unheard,
                    faults, overlapped>>
    BY <1>6 DEF vars, storeVars, clientVars, pageVars, bounds
  <2>2. BaseInv'
    BY <2>1 DEF IInv, BaseInv, TypeOK, StoreTypeOK, StageInv, ClientInv, StoredInv, Kept,
                SuccessIsListed
  <2>3. UNCHANGED <<storeVars, clientVars, requests, files, bounds>>
    BY <1>6 DEF vars
  <2> QED BY <2>2, <2>3, RestKept DEF IInv
<1> QED BY <1>1, <1>2, <1>3, <1>4, <1>5, <1>6, <1>7 DEF Next, Answers

\* The inductive invariant holds throughout.
THEOREM InvariantHolds == Spec => []IInv
BY InitInv, NextInv, PTL DEF Spec

\* The widgets, their requests and the chunk directory have their types.
THEOREM TypesHold == Spec => []TypeOK
<1>1. IInv => TypeOK
  BY DEF IInv, BaseInv
<1> QED BY <1>1, InvariantHolds, PTL

\* Once the page has handled the end of a successful upload its list was loaded
\* after the file was stored, whatever was lost, failed or overtaken; unless the
\* answer handled last was an empty one, whose parsing throws (FlowUpload.vue).
THEOREM SuccessListed == Spec => []SuccessIsListed
<1>1. IInv => SuccessIsListed
  BY DEF IInv, BaseInv, StoredInv
<1> QED BY <1>1, InvariantHolds, PTL

\* As long as uploads of one name and size follow each other, nothing is lost, no
\* handler and no upload fails, no file is put together from another one's parts
\* (Flow.php).
THEOREM NoneForeign == Spec => []NoForeignParts
<1>1. IInv => NoForeignParts
  BY DEF IInv, SoundInv, Sound, Calm, NoForeignParts
<1> QED BY <1>1, InvariantHolds, PTL

\* Repeating the last chunk until the parts are there does not store a file
\* twice, unless a lost answer or an error after the file was stored makes the
\* widget repeat a finished upload.
THEOREM OnceStored == Spec => []StoredOnce
<1>1. IInv => StoredOnce
  <2> SUFFICES ASSUME OnceInv, Calm, NEW u \in Uploads PROVE Cardinality(Stored(u)) <= 1
    BY DEF IInv, StoredOnce, Calm
  <2>1. CASE Stored(u) = {}
    BY <2>1, FS_EmptySet
  <2>2. CASE Stored(u) # {}
    <3>1. PICK f : f \in Stored(u)
      BY <2>2
    <3>2. Stored(u) = {f}
      BY <3>1 DEF OnceInv, Stored
    <3> QED BY <3>2, FS_Singleton
  <2> QED BY <2>1, <2>2
<1> QED BY <1>1, InvariantHolds, PTL

\* As long as uploads do not overlap, nothing is lost and no handler fails (no
\* full storage, empty part, failing file or database operation), the first of
\* them that fails has had its last chunk overtake another for every attempt
\* (Flow.php).
THEOREM FirstFails == Spec => []FailsFirstByOvertaking
<1>1. IInv => FailsFirstByOvertaking
  BY DEF IInv
<1> QED BY <1>1, InvariantHolds, PTL

-----------------------------------------------------------------------------
\* What Transfer sees of an upload.
storedUploads == {f.by : f \in files}
outcomes == [u \in Uploads |-> IF phase[u] \in {"success", "error"} THEN phase[u] ELSE "open"]

\* A step that changes no phase and stores nothing is not seen.
LEMMA Unseen ==
  ASSUME phase' = phase, files' = files
  PROVE  storedUploads' = storedUploads /\ outcomes' = outcomes
BY DEF storedUploads, outcomes

\* A report changes the outcome of the upload it is about.
LEMMA Reports ==
  ASSUME TypeOK, NEW u \in Uploads, phase[u] = "uploading", NEW s \in {"success", "error"},
         phase' = [phase EXCEPT ![u] = s], files' = files
  PROVE  /\ outcomes[u] = "open" /\ storedUploads' = storedUploads
         /\ outcomes' = [outcomes EXCEPT ![u] = s]
<1>1. /\ phase'[u] = s
      /\ \A v \in Uploads \ {u} : phase'[v] = phase[v]
  BY DEF TypeOK
<1> QED BY <1>1 DEF outcomes, storedUploads

\* Every step is a step of Transfer or is not seen.
LEMMA StepsRefine ==
  ASSUME IInv, [Next]_vars
  PROVE  \/ T!TransferNext
         \/ storedUploads' = storedUploads /\ outcomes' = outcomes
<1> USE DEF T!TransferNext, T!Store, T!Report
<1>1. ASSUME NEW u \in Uploads, phase[u] = "uploading", files' = files,
             phase' = [phase EXCEPT ![u] = "error"]
      PROVE  T!TransferNext
  <2>1. /\ outcomes[u] = "open" /\ storedUploads' = storedUploads
        /\ outcomes' = [outcomes EXCEPT ![u] = "error"]
    BY <1>1, Reports DEF IInv, BaseInv
  <2>2. T!Report(u, "error")
    BY <2>1 DEF outcomes, storedUploads
  <2> QED BY <2>2
<1>2. ASSUME NEW u \in Uploads, phase[u] = "uploading", files' = files,
             phase' = [phase EXCEPT ![u] = "success"], Kept(u)
      PROVE  T!TransferNext
  <2>1. /\ outcomes[u] = "open" /\ storedUploads' = storedUploads
        /\ outcomes' = [outcomes EXCEPT ![u] = "success"]
    BY <1>2, Reports DEF IInv, BaseInv
  <2>2. u \in storedUploads
    BY <1>2 DEF storedUploads, Kept
  <2>3. T!Report(u, "success")
    BY <2>1, <2>2 DEF outcomes, storedUploads
  <2> QED BY <2>3
<1>3. ASSUME NEW u \in Uploads, NEW r \in requests, r.by = u, r.live, files' = files,
             NEW gone, fileError(u, r, gone)
      PROVE  T!TransferNext
  <2>1. phase[u] = "uploading"
    BY <1>3 DEF IInv, BaseInv, ClientInv
  <2> QED BY <1>1, <1>3, <2>1 DEF fileError
<1>4. ASSUME NEW u \in Uploads, filesSubmitted(u)
      PROVE  storedUploads' = storedUploads /\ outcomes' = outcomes
  <2>1. /\ phase[u] = "idle" /\ phase'[u] = "uploading" /\ files' = files
        /\ \A v \in Uploads \ {u} : phase'[v] = phase[v]
    BY <1>4 DEF filesSubmitted, IInv, BaseInv, TypeOK
  <2> QED BY <2>1 DEF outcomes, storedUploads
<1>5. ASSUME NEW u \in Uploads, relist(u)
      PROVE  storedUploads' = storedUploads /\ outcomes' = outcomes
  BY <1>5, Unseen DEF relist, clientVars
<1>6. ASSUME NEW u \in Uploads, NEW r \in requests, Lose(u, r)
      PROVE  \/ T!TransferNext
             \/ storedUploads' = storedUploads /\ outcomes' = outcomes
  <2>1. /\ r.by = u /\ r.live /\ files' = files
        /\ \E gone : ChunkRetry(u, r, gone) \/ fileError(u, r, gone)
    BY <1>6 DEF Lose
  <2>2. PICK gone : ChunkRetry(u, r, gone) \/ fileError(u, r, gone)
    BY <2>1
  <2>3. CASE ChunkRetry(u, r, gone)
    BY <2>1, <2>3, Unseen DEF ChunkRetry
  <2>4. CASE fileError(u, r, gone)
    BY <1>3, <2>1, <2>4
  <2> QED BY <2>2, <2>3, <2>4
<1>7. ASSUME NEW u \in Uploads, NEW r \in requests, Answer(u, r)
      PROVE  \/ T!TransferNext
             \/ storedUploads' = storedUploads /\ outcomes' = outcomes
  <2>1. r.by = u /\ r.live /\ files' = files /\ UNCHANGED <<storeVars, files, listed, bounds>>
    BY <1>7 DEF Answer
  <2>2. CASE r.at = "ok" /\ ChunkSuccess(u, r)
    <3>1. /\ phase[u] = "uploading"
          /\ phase' # phase => phase' = [phase EXCEPT ![u] = "success"] /\ Kept(u)
      BY <2>1, <2>2, SuccessBase DEF IInv
    <3> QED BY <1>2, <2>1, <3>1, Unseen
  <2>3. CASE ChunkRetry(u, r, {})
    BY <2>1, <2>3, Unseen DEF ChunkRetry
  <2>4. CASE fileError(u, r, {})
    BY <1>3, <2>1, <2>4
  <2> QED BY <1>7, <2>2, <2>3, <2>4 DEF Answer
<1>10. ASSUME NEW r \in requests, Stores(r), phase' = phase
       PROVE  T!TransferNext
  <2>1. PICK f : /\ f = [by |-> r.by, try |-> r.try, content |-> r.content]
                 /\ files' = files \cup {f}
    BY <1>10 DEF Stores
  <2>2. r.by \in Uploads /\ f.by = r.by
    BY <2>1 DEF IInv, BaseInv, TypeOK, Request
  <2>3. storedUploads' = storedUploads \cup {r.by} /\ outcomes' = outcomes
    BY <1>10, <2>1, <2>2 DEF storedUploads, outcomes
  <2>4. T!Store(r.by)
    BY <2>3 DEF storedUploads, outcomes
  <2> QED BY <2>2, <2>4
<1>8. CASE ServerStep
  <2>1. PICK r \in requests : \/ processMkdir(r) \/ processMove(r) \/ processLast(r)
                              \/ createFileFromChunks(r) \/ RemoveChunks(r)
                              \/ FlowUploadAction(r)
    BY <1>8 DEF ServerStep
  <2>2. phase' = phase
    BY <2>1 DEF processMkdir, processMove, processLast, createFileFromChunks, RemoveChunks,
                FlowUploadAction, ServerOnly, clientVars
  <2>3. CASE FlowUploadAction(r)
    BY <1>10, <2>2, <2>3 DEF FlowUploadAction, Stores
  <2>4. CASE files' = files
    BY <2>2, <2>4, Unseen
  <2> QED BY <2>1, <2>3, <2>4 DEF processMkdir, processMove, processLast,
                                  createFileFromChunks, RemoveChunks
<1>9. ASSUME NEW r \in requests, HandlerFails(r)
      PROVE  \/ T!TransferNext
             \/ storedUploads' = storedUploads /\ outcomes' = outcomes
  <2>1. phase' = phase /\ (files' = files \/ Stores(r))
    BY <1>9 DEF HandlerFails, Stores, clientVars
  <2> QED BY <1>10, <2>1, Unseen
<1>11. CASE UNCHANGED vars
  BY <1>11, Unseen DEF vars, clientVars
<1> QED BY <1>4, <1>5, <1>6, <1>7, <1>8, <1>9, <1>11 DEF Next, Answers

\* Whatever is lost, repeated or overtaken, also when two uploads share the chunk
\* directory: FlowUpload.vue reports one outcome of a file, and reports it as
\* uploaded only after the server has stored it.
THEOREM UploadsImplementTransfer == Spec => ImplementsTransfer
<1>1. Init => T!TransferInit
  BY DEF Init, T!TransferInit
<1>2. IInv /\ [Next]_vars => [T!TransferNext]_<<storedUploads, outcomes>>
  BY StepsRefine
<1>3. IInv /\ [Next]_vars =>
          [T!TransferNext]_<<{f.by : f \in files},
                            [u \in Uploads |-> IF phase[u] \in {"success", "error"}
                                               THEN phase[u] ELSE "open"]>>
  BY <1>2 DEF storedUploads, outcomes
<1> QED BY <1>1, <1>3, InvariantHolds, PTL DEF Spec, ImplementsTransfer, T!TransferSpec
=============================================================================
