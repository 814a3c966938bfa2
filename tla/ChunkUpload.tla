---------------------------- MODULE ChunkUpload ----------------------------
(* Chunked file upload: the pages' FlowUpload widgets (Flow.js with the      *)
(* configuration FlowUpload.vue gives it) send the chunks of their file at   *)
(* once, retry a chunk whose answer is lost or is not a success, and give    *)
(* the file up after MaxChunkRetries retries of a chunk.  The server files   *)
(* the chunks and assembles the file in the request of the last chunk.       *)
EXTENDS ChunkStore

CONSTANTS MaxChunkRetries,  \* maxChunkRetries of FlowUpload.vue
          Simultaneous,     \* simultaneousUploads of Flow.js
          MaxTrouble        \* bound: lost messages, failing handlers, overlapping uploads

ASSUME ChunkUploadAssumption == /\ MaxChunkRetries \in Nat
                                /\ Simultaneous \in Nat \ {0}
                                /\ MaxTrouble \in Nat

VARIABLES phase,     \* each upload's file in its widget
          chunk,     \* each upload's chunks in Flow.js
          retries,   \* retries of each chunk so far
          requests,  \* requests sent and not yet forgotten
          files,     \* files in the media storage, with what they contain
          owed,      \* pages whose list is to be reloaded
          listed,    \* the uploads whose file their page's list shows
          unheard,   \* the uploads whose success the page's handlers do not hear of
          faults,
          overlapped \* history: two uploads of the identifier were under way

clientVars == <<phase, chunk, retries>>
pageVars == <<owed, listed, unheard>>
bounds == <<faults, overlapped>>
vars == <<storeVars, clientVars, requests, files, pageVars, bounds>>

Phases == {"idle", "uploading", "success", "error"}
Stages == {"sent", "made", "moved", "complete", "read", "removed",
           "ok", "again", "failed"}
Answered == {"ok", "again", "failed"}

Request == [by : Uploads, c : Chunks, try : 0 .. MaxChunkRetries,
            at : Stages, live : BOOLEAN,
            content : [Chunks -> Uploads \cup {Nobody}]]
File == [by : Uploads, try : 0 .. MaxChunkRetries,
         content : [Chunks -> Uploads]]

TypeOK == /\ StoreTypeOK
          /\ phase \in [Uploads -> Phases]
          /\ chunk \in [Uploads -> [Chunks -> {"pending", "uploading", "success"}]]
          /\ retries \in [Uploads -> [Chunks -> 0 .. MaxChunkRetries]]
          /\ requests \subseteq Request
          /\ files \subseteq File
          /\ owed \subseteq Uploads
          /\ listed \subseteq Uploads
          /\ unheard \subseteq Uploads
          /\ faults \in 0 .. MaxTrouble
          /\ overlapped \in BOOLEAN

Init == /\ StoreInit
        /\ phase = [u \in Uploads |-> "idle"]
        /\ chunk = [u \in Uploads |-> [c \in Chunks |-> "pending"]]
        /\ retries = [u \in Uploads |-> [c \in Chunks |-> 0]]
        /\ requests = {}
        /\ files = {}
        /\ owed = {}
        /\ listed = {}
        /\ unheard = {}
        /\ faults = 0
        /\ overlapped = FALSE

-----------------------------------------------------------------------------
(* The widget and Flow.js                                                    *)

Sent(u, c, n) == [by |-> u, c |-> c, try |-> n,
                  at |-> "sent", live |-> TRUE, content |-> NoParts]

(* The pending chunks that uploadNextChunk sends when `status` says how the  *)
(* chunks are: in order, up to Simultaneous at a time.                       *)
uploadNextChunk(status) ==
    LET busy == Cardinality({c \in Chunks : status[c] = "uploading"})
    IN  {c \in Chunks : /\ status[c] = "pending"
                        /\ busy + Cardinality({d \in 1 .. c : status[d] = "pending"})
                               <= Simultaneous}

(* An answer nobody waits for any more is dropped.                           *)
Awaited(reqs) == {q \in reqs : q.live \/ q.at \notin Answered}

(* The chunks that `status` leaves and the ones it lets start.               *)
SendMore(u, status, sent) ==
    LET next == uploadNextChunk(status)
    IN  /\ chunk' = [chunk EXCEPT ![u] =
               [c \in Chunks |-> IF c \in next THEN "uploading" ELSE status[c]]]
        /\ requests' = sent \cup {Sent(u, c, retries[u][c]) : c \in next}

(* filesSubmitted: the dropped file starts to upload.                        *)
filesSubmitted(u) ==
    /\ phase[u] = "idle"
    /\ phase' = [phase EXCEPT ![u] = "uploading"]
    /\ SendMore(u, chunk[u], requests)
    /\ overlapped' = (overlapped \/ requests # {} \/ \E v \in Uploads : phase[v] = "uploading")
    /\ overlapped' => faults < MaxTrouble
    /\ UNCHANGED <<storeVars, retries, files, pageVars, faults>>

\* BUG variant: the list is asked for as the first chunk is through.
ChunkSuccess_ListsEarly(u, r) ==
    LET status == [chunk[u] EXCEPT ![r.c] = "success"]
        done == {c \in Chunks : status[c] = "success"}
    IN  /\ SendMore(u, status, requests \ {r})
        /\ phase' = IF done = Chunks THEN [phase EXCEPT ![u] = "success"] ELSE phase
        /\ owed' = IF Cardinality(done) = 1 THEN owed \cup {u} ELSE owed
        /\ unheard' = IF done = Chunks /\ r.c # NumChunks THEN unheard \cup {u} ELSE unheard
        /\ UNCHANGED retries

(* A chunk succeeds; with the last of them the file does.  The handler that  *)
(* reports it parses the answer: the last chunk's is JSON, and the complete  *)
(* handler asks for the list again; another chunk's is empty, so that the    *)
(* handler throws once the page shows the success, and nothing follows.      *)
ChunkSuccess(u, r) ==
    LET status == [chunk[u] EXCEPT ![r.c] = "success"]
        all == \A c \in Chunks : status[c] = "success"
    IN  /\ SendMore(u, status, requests \ {r})
        /\ phase' = IF all THEN [phase EXCEPT ![u] = "success"] ELSE phase
        /\ owed' = IF all /\ r.c = NumChunks THEN owed \cup {u} ELSE owed
        /\ unheard' = IF all /\ r.c # NumChunks THEN unheard \cup {u} ELSE unheard
        /\ UNCHANGED retries

\* BUG variant: the retries are not counted.
ChunkRetry_NotCounted(u, r, gone) ==
    /\ requests' = Awaited((requests \ {r}) \cup gone) \cup {Sent(u, r.c, r.try)}
    /\ UNCHANGED <<phase, chunk, retries, owed, unheard>>

(* A chunk without a success is sent again while it has retries left.        *)
ChunkRetry(u, r, gone) ==
    LET n == retries[u][r.c] + 1
    IN  /\ n <= MaxChunkRetries
        /\ retries' = [retries EXCEPT ![u][r.c] = n]
        /\ requests' = Awaited((requests \ {r}) \cup gone) \cup {Sent(u, r.c, n)}
        /\ UNCHANGED <<phase, chunk, owed, unheard>>

(* The file fails: error handler, its other requests are aborted (which does *)
(* not stop the server), its chunks are dropped, the page lists again.       *)
fileError(u, r, gone) ==
    /\ phase' = [phase EXCEPT ![u] = "error"]
    /\ chunk' = [chunk EXCEPT ![u] = [c \in Chunks |-> "pending"]]
    /\ requests' = Awaited({IF q.by = u THEN [q EXCEPT !.live = FALSE] ELSE q :
                            q \in (requests \ {r}) \cup gone})
    /\ owed' = owed \cup {u}
    /\ UNCHANGED <<retries, unheard>>

(* The server's answer reaches the widget.                                   *)
Answer(u, r) ==
    /\ r \in requests /\ r.by = u /\ r.live /\ r.at \in Answered
    /\ \/ r.at = "ok" /\ ChunkSuccess(u, r)
       \/ r.at = "again" /\ ChunkRetry(u, r, {})
       \/ /\ r.at = "failed" \/ (r.at = "again" /\ retries[u][r.c] = MaxChunkRetries)
          /\ fileError(u, r, {})
    /\ UNCHANGED <<storeVars, files, listed, bounds>>

Trouble == /\ faults + (IF overlapped THEN 1 ELSE 0) < MaxTrouble
           /\ faults' = faults + 1

(* The connection of a request breaks: the widget takes it as no success;    *)
(* the server never saw the request, or goes on with it.                     *)
Lose(u, r) ==
    /\ r \in requests /\ r.by = u /\ r.live
    /\ Trouble
    /\ \E gone \in {{[r EXCEPT !.live = FALSE]}} \cup (IF r.at = "sent" THEN {{}} ELSE {}) :
          \/ ChunkRetry(u, r, gone)
          \/ retries[u][r.c] = MaxChunkRetries /\ fileError(u, r, gone)
    /\ UNCHANGED <<storeVars, files, listed, overlapped>>

(* relist: the page's list is loaded anew, past the server's cache.          *)
relist(u) ==
    /\ u \in owed
    /\ owed' = owed \ {u}
    /\ listed' = IF \E f \in files : f.by = u THEN listed \cup {u} ELSE listed
    /\ UNCHANGED <<storeVars, clientVars, requests, files, unheard, bounds>>

-----------------------------------------------------------------------------
(* The server                                                                *)

Step(r, stage) == requests' = Awaited((requests \ {r}) \cup {[r EXCEPT !.at = stage]})
ServerOnly == UNCHANGED <<clientVars, pageVars, bounds>>

processMkdir(r) ==
    /\ r.at = "sent"
    /\ MakeDir
    /\ Step(r, "made")
    /\ UNCHANGED files /\ ServerOnly

(* The part is filed.  Only the last chunk's request goes on; the others     *)
(* answer OK.                                                                *)
processMove(r) ==
    /\ r.at = "made"
    /\ IF CanMove
       THEN MoveTo(r.by, r.c) /\ Step(r, IF r.c = NumChunks THEN "moved" ELSE "ok")
       ELSE UNCHANGED storeVars /\ Step(r, "failed")
    /\ UNCHANGED files /\ ServerOnly

\* BUG variant: a last chunk that came too early is answered OK.
processLast_Ok(r) ==
    /\ r.at = "moved"
    /\ Step(r, IF allPartsExist THEN "complete" ELSE "ok")
    /\ UNCHANGED <<storeVars, files>> /\ ServerOnly

(* The last chunk's request looks for all parts; without them it answers No  *)
(* Content, which makes the widget send the chunk again.                     *)
processLast(r) ==
    /\ r.at = "moved"
    /\ Step(r, IF allPartsExist THEN "complete" ELSE "again")
    /\ UNCHANGED <<storeVars, files>> /\ ServerOnly

(* The parts are read (HandlerFails: the code also throws on an empty one).  *)
createFileFromChunks(r) ==
    /\ r.at = "complete"
    /\ requests' = Awaited((requests \ {r}) \cup
           {IF Readable THEN [r EXCEPT !.at = "read", !.content = parts]
                        ELSE [r EXCEPT !.at = "failed"]})
    /\ UNCHANGED <<storeVars, files>> /\ ServerOnly

RemoveChunks(r) ==
    /\ r.at = "read"
    /\ RemoveDir
    /\ Step(r, "removed")
    /\ UNCHANGED files /\ ServerOnly

\* BUG variant: the stored file is answered with No Content as well.
FlowUploadAction_NoContent(r) ==
    /\ r.at = "removed"
    /\ files' = files \cup {[by |-> r.by, try |-> r.try, content |-> r.content]}
    /\ Step(r, "again")
    /\ UNCHANGED storeVars /\ ServerOnly

(* The action stores the assembled file (one of its path is replaced).       *)
FlowUploadAction(r) ==
    /\ r.at = "removed"
    /\ files' = files \cup {[by |-> r.by, try |-> r.try, content |-> r.content]}
    /\ Step(r, "ok")
    /\ UNCHANGED storeVars /\ ServerOnly

(* A handler fails: the storage is full, before the part is filed or after   *)
(* the parts were put together; PHP takes a part for empty ("0" or nothing); *)
(* a file or database operation fails, the file being stored by then or not  *)
(* yet; or the worker is killed, which its proxy answers with an error that  *)
(* the widget retries.                                                       *)
HandlerFails(r) ==
    /\ r.at \notin Answered
    /\ Trouble
    /\ \E answer \in {"failed", "again"} : Step(r, answer)
    /\ \/ files' = files
       \/ /\ r.at = "removed"
          /\ files' = files \cup {[by |-> r.by, try |-> r.try, content |-> r.content]}
    /\ UNCHANGED <<storeVars, clientVars, pageVars, overlapped>>

ServerStep == \E r \in requests : \/ processMkdir(r) \/ processMove(r)
                                  \/ processLast(r) \/ createFileFromChunks(r)
                                  \/ RemoveChunks(r) \/ FlowUploadAction(r)

Answers == \E u \in Uploads : \E r \in requests : Answer(u, r)

Next == \/ \E u \in Uploads : \/ filesSubmitted(u)
                              \/ relist(u)
                              \/ \E r \in requests : Lose(u, r)
        \/ Answers
        \/ ServerStep
        \/ \E r \in requests : HandlerFails(r)

Spec == Init /\ [][Next]_vars

(* PHP workers finish their requests, answers that are not lost arrive, the  *)
(* browser runs its queued handlers.  Users need not do anything.            *)
Fairness == /\ WF_vars(ServerStep)
            /\ WF_vars(Answers)
            /\ \A u \in Uploads : WF_vars(relist(u))

FairSpec == Spec /\ Fairness

-----------------------------------------------------------------------------
(* Properties                                                                *)

Stored(u) == {f \in files : f.by = u}
Failed(u) == phase[u] = "error"

(* The widgets keep the promise of Transfer: FlowUpload.vue reports a file   *)
(* as uploaded only after the server has stored it, whatever is lost, fails, *)
(* is repeated or overtaken, also when two uploads share the directory.      *)
T == INSTANCE Transfer
       WITH stored <- {f.by : f \in files},
            outcome <- [u \in Uploads |->
                          IF phase[u] \in {"success", "error"} THEN phase[u] ELSE "open"]
ImplementsTransfer == T!TransferSpec

(* Flow's directory is named after the file's size and name.  As long as the *)
(* uploads of one name and size follow each other, nothing is lost, no       *)
(* handler and no upload fails, no file is put together from another         *)
(* upload's parts: an assembly leaves no part behind.                        *)
NoForeignParts ==
    (~overlapped /\ faults = 0 /\ ~\E u \in Uploads : Failed(u))
        => \A f \in files : \A c \in Chunks : f.content[c] = f.by

(* Repeating the last chunk until the parts are there does not store a file  *)
(* twice, unless a lost answer, or an error after the file was stored, makes *)
(* the widget repeat a finished upload.                                      *)
StoredOnce ==
    (~overlapped /\ faults = 0) => \A u \in Uploads : Cardinality(Stored(u)) <= 1

(* The protocol by itself fails in one way.  As long as uploads do not       *)
(* overlap, nothing is lost and no handler fails (no full storage, no part   *)
(* that PHP takes for empty, no failing file or database operation:          *)
(* HandlerFails), the first upload that fails does so because its last chunk *)
(* overtook another one for as many attempts as the widget has, with nothing *)
(* wrong with any part.  (What it leaves behind may then make a later one    *)
(* fail in other ways.)                                                      *)
FailsFirstByOvertaking ==
    (~overlapped /\ faults = 0 /\ \E u \in Uploads : Failed(u)) =>
        \E u \in Uploads : Failed(u) /\ retries[u][NumChunks] = MaxChunkRetries

(* Once the page has handled the end of a successful upload its list was     *)
(* loaded after the file was stored; unless the answer handled last was an   *)
(* empty one, whose parsing throws, so that nobody asks for the list.        *)
SuccessIsListed ==
    \A u \in Uploads : (phase[u] = "success" /\ u \notin owed \cup unheard)
                            => u \in listed

(* Every upload ends as a success or a failure, and the reload that its end  *)
(* asks for takes place: the retries are bounded and each answer starts what *)
(* comes next.  (A success with the empty answer last asks for none.)        *)
UploadEnds ==
    \A u \in Uploads : phase[u] = "uploading"
                            ~> (phase[u] \in {"success", "error"} /\ u \notin owed)

(* What the comment in Flow.php says: once all the parts of an upload have   *)
(* been stored, the final file is created from them.                         *)
UploadedIsAssembled ==
    \A u \in Uploads : (\A c \in Chunks : parts[c] = u) ~> (Stored(u) # {})
=============================================================================
