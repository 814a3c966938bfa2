----------------------------- MODULE MediaList -----------------------------
(* The server's list of media files (Files\ListAction): a list is kept in    *)
(* the cache, by directory and search phrase, for 300 seconds; flushCache    *)
(* makes a request pass it by.  Reading the files and storing the list in    *)
(* the cache are two steps of a request, and requests overlap.               *)
EXTENDS DataTable, Naturals

CONSTANTS Absent,      \* no list in the cache, no such file
          MaxEdits     \* bound: changes of the media library

ASSUME MediaListAssumption == MaxEdits \in Nat

VARIABLES lib,         \* the media library
          edits,       \* how many changes it had
          cache        \* the cached lists

listVars == <<lib, edits, cache>>

\* A file's record: whose data it has, and which change wrote it.
Entry == [of : Files, ver : 0 .. MaxEdits] \cup {Absent}
List == [Files -> Entry]

ListTypeOK == /\ lib \in List
              /\ edits \in 0 .. MaxEdits
              /\ cache \in [Key -> List \cup {Absent}]

ListInit == /\ lib = [f \in Files |-> [of |-> f, ver |-> 0]]
            /\ edits = 0
            /\ cache = [k \in Key |-> Absent]

\* The record of f gets the data of another, or its own, as a new version.
SaveRecord(f, of) == /\ edits' = edits + 1
                     /\ lib' = [lib EXCEPT ![f] = [of |-> of, ver |-> edits + 1]]
                     /\ UNCHANGED cache

RemoveFiles(fs) == /\ lib' = [f \in Files |-> IF f \in fs THEN Absent ELSE lib[f]]
                   /\ UNCHANGED <<edits, cache>>

\* BUG variant: the flag is not looked at.
Cached_NoFlush(k, flush) == cache[k] # Absent

Cached(k, flush) == ~flush /\ cache[k] # Absent

StoreList(k, list) == /\ cache' = [cache EXCEPT ![k] = list]
                      /\ UNCHANGED <<lib, edits>>

ListExpires(k) == /\ cache[k] # Absent
                  /\ cache' = [cache EXCEPT ![k] = Absent]
                  /\ UNCHANGED <<lib, edits>>

\* One list shows at least the changes another one does.
AsFresh(new, old) ==
    \A f \in Files : \/ new[f] = Absent
                     \/ old[f] # Absent /\ new[f].ver >= old[f].ver
=============================================================================
