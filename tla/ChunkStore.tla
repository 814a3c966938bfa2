----------------------------- MODULE ChunkStore -----------------------------
(* The server's side of a chunked upload (App\Service\Flow and the media     *)
(* upload action): one temporary directory per upload identifier, which is   *)
(* made of the file's size and name, so that two uploads of a file of one    *)
(* name and size share it.  The module holds that directory's state and the  *)
(* steps of one chunk's request on it; every PHP worker runs its own request *)
(* and the workers interleave between the file operations.                   *)
EXTENDS Naturals, FiniteSets

CONSTANTS Uploads,      \* uploads of one identifier, by content
          NumChunks,    \* flowTotalChunks
          Nobody        \* not an upload

ASSUME ChunkStoreAssumption == /\ NumChunks \in Nat \ {0}
                               /\ Nobody \notin Uploads

VARIABLES made,         \* the chunk directory exists
          parts         \* whose content each .part file has, or Nobody

storeVars == <<made, parts>>

Chunks == 1 .. NumChunks
NoParts == [c \in Chunks |-> Nobody]

StoreTypeOK == /\ made \in BOOLEAN
               /\ parts \in [Chunks -> Uploads \cup {Nobody}]
               /\ ~made => parts = NoParts

StoreInit == made = FALSE /\ parts = NoParts

\* BUG variant: having the last part is taken for having all.
allPartsExist_LastOnly == parts[NumChunks] # Nobody

(* Every part is there.  The sizes add up whoever sent them: uploads of one  *)
(* identifier have the same size and the same chunk sizes.                   *)
allPartsExist == \A c \in Chunks : parts[c] # Nobody

MakeDir == /\ made' = TRUE
           /\ UNCHANGED parts

(* moveTo: fails when another request removed the directory meanwhile.       *)
CanMove == made
MoveTo(u, c) == /\ CanMove
                /\ parts' = [parts EXCEPT ![c] = u]
                /\ UNCHANGED made

\* BUG variant: the loop over the parts starts at 0.
Readable_FromZero == \A c \in 0 .. NumChunks : c \in Chunks /\ parts[c] # Nobody

(* createFileFromChunks reads the parts in turn and throws on a missing one; *)
(* what it throws on besides, a part PHP takes for empty, is a failure of    *)
(* the request (ChunkUpload's HandlerFails).                                 *)
Readable == allPartsExist

\* BUG variant: only the directory's name is forgotten.
RemoveDir_LeavesParts == made' = FALSE /\ UNCHANGED parts

RemoveDir == /\ made' = FALSE
             /\ parts' = NoParts
=============================================================================
