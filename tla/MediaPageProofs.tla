--------------------------- MODULE MediaPageProofs ---------------------------
(***************************************************************************)
(* Proofs about MediaPage, for every set of files, directories and search  *)
(* phrases, and every number of user actions and of things going wrong.    *)
(***************************************************************************)
EXTENDS MediaPage, FiniteSetTheorems, TLAPS

Rows == Shown(Entry)

\* The server works on the request of a load, or on none.
Listing == {Idle} \cup [at : {"sent", "read", "answered"}, list : List]
Other == {Idle} \cup [key : Key, list : List]
TypeInv == TypeOK /\ listing \in Listing /\ other \in Other

\* Each opening of the modal and each saved form is an action of the user's; no
\* record is newer than the last change.
Unsaved == {p \in puts : p.at = "sent"}
BoundInv == /\ IsFiniteSet(puts)
            /\ opening + Cardinality(Unsaved) + edits <= user
            /\ \A f \in Files : lib[f] # Absent => lib[f].ver <= edits

\* A load under way is the one wanted, or another one follows it.
TableInv == /\ table.busy => table.again \/ table.sent.key = table.key
            /\ IdleShowsView
            /\ listing # Idle => table.busy

\* While the user is asked, the selection can only be dropped.
QuestionInv == /\ front = "question" => table.selected \in {question, {}}
               /\ DeletesWhatWasAsked

\* The modal is open for the record of its last opening.
ModalInv == /\ front = "modal" => modal.record \in Files /\ opening \in Openings
            /\ \A l \in loads : /\ l.opening <= opening
                                /\ l.opening = opening /\ front = "modal"
                                       => l.record = modal.record

\* Without an answer that came late every form is the one of its record.
RecordInv ==
    ~overtaken =>
        /\ \A f \in Files : lib[f] # Absent => lib[f].of = f
        /\ \A l \in loads : l.at = "answered" /\ l.answer # Absent
                                => l.answer.of = l.record
        /\ front = "modal" /\ modal.form # Nothing => modal.form.of = modal.record
        /\ \A p \in puts : p.form.of = p.record

\* What is shown of the directory and filter of the last relist is as new as the
\* library was then: so is what the cache holds of it once the relist's load is
\* answered, and every list read since.  A load without an answer ends it all.
Dead == table.busy /\ listing = Idle
Due(list) == AsFresh(list, due.list)
CacheDue == cache[due.key] = Absent \/ Due(cache[due.key])
LoadDue == /\ listing.at \in {"sent", "read"}
           /\ table.sent.key = due.key /\ table.sent.flush
ShowsDue ==
    /\ CacheDue \/ LoadDue
    /\ (listing.at \in {"read", "answered"} /\ table.sent.key = due.key) => Due(listing.list)
    /\ (~table.busy /\ table.rows.key = due.key) => Due(table.rows.of)
ListInv == /\ Due(lib)
           /\ (~unheard /\ ~raced) => Dead \/ ShowsDue

IInv == /\ TypeInv /\ BoundInv /\ TableInv
        /\ QuestionInv /\ ModalInv /\ RecordInv /\ ListInv

-----------------------------------------------------------------------------
(* The table's operators                                                     *)

\* A table asked for its rows: it loads them with the directory and filter of
\* now, or remembers to when it is loading others.
Asked(t, u) ==
    /\ u \in Table(Rows)
    /\ u.busy
    /\ u.rows = t.rows
    /\ u.selected \in {t.selected, {}}
    /\ t.busy => u.again /\ u.sent = t.sent
    /\ ~t.busy => u.sent.key = u.key

LEMMA LoadItemsLemma ==
  ASSUME NEW t \in Table(Rows)
  PROVE  /\ loadItems(t) \in Table(Rows)
         /\ loadItems(t) = [t EXCEPT !.busy = TRUE, !.sent = [key |-> t.key, flush |-> t.flush]]
BY DEF loadItems, Table

LEMMA RefreshLemma ==
  ASSUME NEW t \in Table(Rows)
  PROVE  /\ Asked(t, refresh(t))
         /\ refresh(t).key = t.key
         /\ ~t.busy => refresh(t).sent.flush = t.flush
<1>1. CASE t.busy
  BY <1>1 DEF refresh, Asked, Table
<1>2. CASE ~t.busy
  <2>1. PICK s : s = [t EXCEPT !.selected = {}]
    OBVIOUS
  <2>2. s \in Table(Rows) /\ s.key = t.key /\ s.flush = t.flush /\ s.rows = t.rows /\ s.selected = {}
    BY <2>1 DEF Table
  <2>3. PICK u : u = [s EXCEPT !.busy = TRUE, !.sent = [key |-> s.key, flush |-> s.flush]]
    OBVIOUS
  <2>4. refresh(t) = u
    BY <1>2, <2>1, <2>2, <2>3, LoadItemsLemma DEF refresh
  <2>5. /\ u \in Table(Rows) /\ u.busy /\ u.key = s.key /\ u.rows = s.rows
        /\ u.selected = s.selected /\ u.sent.key = s.key /\ u.sent.flush = s.flush
    BY <2>2, <2>3 DEF Table
  <2> QED BY <1>2, <2>2, <2>4, <2>5 DEF Asked
<1> QED BY <1>1, <1>2

LEMMA RelistLemma ==
  ASSUME NEW t \in Table(Rows)
  PROVE  /\ Asked(t, relist(t))
         /\ relist(t).key = t.key
         /\ ~t.busy => relist(t).sent.flush
<1>1. PICK s : s = [t EXCEPT !.flush = TRUE]
  OBVIOUS
<1>2. /\ s \in Table(Rows) /\ s.key = t.key /\ s.flush /\ s.rows = t.rows
      /\ s.selected = t.selected /\ s.busy = t.busy /\ s.sent = t.sent
  BY <1>1 DEF Table
<1>3. relist(t) = refresh(s)
  BY <1>1 DEF relist
<1>4. /\ Asked(s, refresh(s)) /\ refresh(s).key = s.key
      /\ ~s.busy => refresh(s).sent.flush = s.flush
  BY <1>2, RefreshLemma
<1> QED BY <1>2, <1>3, <1>4 DEF Asked

LEMMA SetFilterLemma ==
  ASSUME NEW t \in Table(Rows), NEW f \in Filters
  PROVE  Asked(t, setFilter(t, f))
<1>1. PICK s : s = [t EXCEPT !.key.filter = f]
  OBVIOUS
<1>2. /\ s \in Table(Rows) /\ s.rows = t.rows
      /\ s.selected = t.selected /\ s.busy = t.busy /\ s.sent = t.sent
  BY <1>1 DEF Table, Key
<1>3. CASE t.busy
  <2>1. setFilter(t, f) = [s EXCEPT !.again = TRUE]
    BY <1>1, <1>3 DEF setFilter
  <2> QED BY <1>2, <1>3, <2>1 DEF Asked, Table
<1>4. CASE ~t.busy
  <2>1. PICK u : u = [s EXCEPT !.busy = TRUE, !.sent = [key |-> s.key, flush |-> s.flush]]
    OBVIOUS
  <2>2. setFilter(t, f) = u
    BY <1>1, <1>2, <1>4, <2>1, LoadItemsLemma DEF setFilter
  <2>3. /\ u \in Table(Rows) /\ u.busy /\ u.key = s.key /\ u.rows = s.rows
        /\ u.selected = s.selected /\ u.sent.key = s.key
    BY <1>2, <2>1 DEF Table
  <2> QED BY <1>2, <1>4, <2>2, <2>3 DEF Asked
<1> QED BY <1>3, <1>4

LEMMA NavigateLemma ==
  ASSUME NEW t \in Table(Rows), NEW d \in Dirs
  PROVE  Asked(t, navigate(t, d))
<1>1. PICK s : s = [t EXCEPT !.key = [dir |-> d, filter |-> NoFilter], !.flush = TRUE]
  OBVIOUS
<1>2. /\ s \in Table(Rows) /\ s.rows = t.rows
      /\ s.selected = t.selected /\ s.busy = t.busy /\ s.sent = t.sent
  BY <1>1, DataTableAssumption DEF Table, Key
<1>3. PICK u : u = refresh(s)
  OBVIOUS
<1>4. Asked(s, u)
  BY <1>2, <1>3, RefreshLemma
<1>5. PICK b \in BOOLEAN : b = (u.again \/ t.key.filter # NoFilter)
  OBVIOUS
<1>6. navigate(t, d) = [u EXCEPT !.again = b]
  BY <1>1, <1>3, <1>5 DEF navigate
<1>7. PICK v : v = [u EXCEPT !.again = b]
  OBVIOUS
<1>8. /\ v \in Table(Rows) /\ v.busy = u.busy /\ v.rows = u.rows /\ v.selected = u.selected
      /\ v.sent = u.sent /\ v.key = u.key /\ v.again = b
  BY <1>4, <1>7 DEF Asked, Table
<1>9. u.again => v.again
  BY <1>5, <1>8
<1> QED BY <1>2, <1>4, <1>6, <1>7, <1>8, <1>9 DEF Asked

\* A load is answered with rows: they are shown, or loaded anew when that was
\* wanted meanwhile.
Filled(t, u, list) ==
    /\ u \in Table(Rows)
    /\ u.selected \in {t.selected, {}}
    /\ u.key = t.key
    /\ u.busy = t.again
    /\ u.busy => u.sent.key = u.key
    /\ ~u.busy => u.rows = [key |-> t.sent.key, of |-> list]

LEMMA LoadedLemma ==
  ASSUME NEW t \in Table(Rows), NEW list \in List
  PROVE  Filled(t, loaded(t, [key |-> t.sent.key, of |-> list]), list)
<1>1. PICK rows : rows = [key |-> t.sent.key, of |-> list]
  OBVIOUS
<1>2. PICK sel : sel = IF rows = t.rows THEN t.selected ELSE {}
  OBVIOUS
<1>3. PICK s : s = [t EXCEPT !.flush = FALSE, !.busy = FALSE, !.again = FALSE,
                             !.rows = rows, !.selected = sel]
  OBVIOUS
<1>4. rows \in Rows /\ sel \in {t.selected, {}}
  BY <1>1, <1>2 DEF Rows, Shown, List, Table
<1>5. /\ s \in Table(Rows) /\ s.rows = rows /\ s.selected = sel /\ s.key = t.key
      /\ s.busy = FALSE
  BY <1>3, <1>4 DEF Table
<1>6. loaded(t, rows) = IF t.again THEN refresh(s) ELSE s
  BY <1>2, <1>3 DEF loaded
<1>7. Asked(s, refresh(s)) /\ refresh(s).key = s.key
  BY <1>5, RefreshLemma
<1>8. t.again \in BOOLEAN
  BY DEF Table
<1>9. CASE t.again
  <2>1. loaded(t, rows) = refresh(s)
    BY <1>6, <1>9
  <2>2. refresh(s).busy \in BOOLEAN
    BY <1>7 DEF Asked, Table
  <2>3. refresh(s).busy /\ refresh(s).sent.key = refresh(s).key
    BY <1>5, <1>7 DEF Asked
  <2>4. refresh(s) \in Table(Rows) /\ refresh(s).selected \in {t.selected, {}} /\ refresh(s).key = t.key
    BY <1>4, <1>5, <1>7 DEF Asked
  <2> QED BY <1>1, <1>8, <1>9, <2>1, <2>2, <2>3, <2>4 DEF Filled
<1>10. CASE ~t.again
  <2>1. loaded(t, rows) = s
    BY <1>6, <1>10
  <2> QED BY <1>1, <1>4, <1>5, <1>8, <1>10, <2>1 DEF Filled
<1> QED BY <1>9, <1>10

-----------------------------------------------------------------------------
(* What a step does to the table                                             *)

SentListing == [at |-> "sent", list |-> Empty]

\* The table is asked for its rows, it is filled, or its selection changes.
TableAsked == /\ Asked(table, table')
              /\ listing' = IF table.busy THEN listing ELSE SentListing
TableFilled(list) == /\ Filled(table, table', list)
                     /\ listing' = IF table'.busy THEN SentListing ELSE Idle
TableSelected == /\ \E fs \in SUBSET Files : table' = [table EXCEPT !.selected = fs]
                 /\ listing' = listing

LEMMA ListingTypes ==
  /\ Empty \in List /\ SentListing \in Listing /\ SentListing # Idle
  /\ SentListing.at = "sent"
  /\ Idle \in Listing /\ Idle.at = "idle"
  /\ \A l \in Listing : l = Idle \/ (l # Idle /\ l.list \in List
                                     /\ l.at \in {"sent", "read", "answered"})
<1>1. Empty \in List
  BY DEF Empty, List, Entry
<1>2. SentListing \in Listing /\ SentListing.at = "sent" /\ Idle \in Listing /\ Idle.at = "idle"
  BY <1>1 DEF SentListing, Listing, Idle
<1>3. \A l \in Listing : l = Idle \/ (l.list \in List /\ l.at \in {"sent", "read", "answered"})
  BY DEF Listing
<1> QED BY <1>1, <1>2, <1>3

LEMMA AskedStep ==
  ASSUME NEW u, Asked(table, u), TableTo(u), table \in Table(Rows)
  PROVE  TableAsked
<1>1. u.busy \in BOOLEAN /\ table.busy \in BOOLEAN /\ u.busy
  BY DEF Asked, Table
<1> QED BY <1>1 DEF TableTo, TableAsked, SentListing

\* A relist: an idle table loads past the cache, and the library of now is due.
LEMMA RelistStep ==
  ASSUME table \in Table(Rows), Relist
  PROVE  /\ TableAsked
         /\ unheard' = (unheard \/ table.busy)
         /\ table.busy => due' = due
         /\ ~table.busy => /\ due' = [key |-> table.key, list |-> lib]
                           /\ table'.sent.key = table.key /\ table'.sent.flush
<1>1. PICK u : u = relist(table)
  OBVIOUS
<1>2. Asked(table, u) /\ u.key = table.key /\ (~table.busy => u.sent.flush)
  BY <1>1, RelistLemma
<1>3. TableTo(u) /\ table' = u
  BY <1>1 DEF Relist, TableTo
<1>4. TableAsked
  BY <1>2, <1>3, AskedStep
<1>5. /\ unheard' = (unheard \/ table.busy)
      /\ due' = IF table.busy THEN due ELSE [key |-> table.key, list |-> lib]
  BY DEF Relist
<1> QED BY <1>2, <1>3, <1>4, <1>5 DEF Asked

\* The user asks for a load.
LEMMA UserAsks ==
  ASSUME table \in Table(Rows), onClickRefresh \/ filter \/ changeDirectory
  PROVE  /\ TableAsked
         /\ Relist \/ (due' = due /\ unheard' = unheard)
<1>1. CASE onClickRefresh /\ Relist
  BY <1>1, RelistStep
<1>2. CASE onClickRefresh /\ ~Relist
  BY <1>2, RefreshLemma, AskedStep DEF onClickRefresh
<1>3. CASE filter
  BY <1>3, SetFilterLemma, AskedStep DEF filter, history
<1>4. CASE changeDirectory
  BY <1>4, NavigateLemma, AskedStep DEF changeDirectory, history
<1> QED BY <1>1, <1>2, <1>3, <1>4

\* A load is answered, with a list or an error.
LEMMA AnswersFill ==
  ASSUME TypeInv, loadItemsAnswer \/ loadItemsError
  PROVE  \E list \in List : /\ TableFilled(list)
                            /\ list = IF loadItemsAnswer THEN listing.list ELSE Empty
<1>1. table \in Table(Rows) /\ listing \in Listing
  BY DEF TypeInv, TypeOK, Rows
<1>2. PICK list : list = IF loadItemsAnswer THEN listing.list ELSE Empty
  OBVIOUS
<1>3. list \in List
  BY <1>1, <1>2, ListingTypes DEF loadItemsAnswer
<1>4. PICK t : t = loaded(table, [key |-> table.sent.key, of |-> list])
  OBVIOUS
<1>5. Filled(table, t, list)
  BY <1>1, <1>3, <1>4, LoadedLemma
<1>6. /\ table' = t
      /\ listing' = IF t.busy THEN SentListing ELSE Idle
  <2>1. CASE loadItemsAnswer
    BY <1>2, <1>4, <2>1 DEF loadItemsAnswer, SentListing
  <2>2. CASE ~loadItemsAnswer
    BY <1>2, <1>4, <2>2 DEF loadItemsError, SentListing
  <2> QED BY <2>1, <2>2
<1>7. TableFilled(list)
  BY <1>5, <1>6 DEF TableFilled
<1> QED BY <1>2, <1>3, <1>7

LEMMA SelectedStep ==
  ASSUME onRowSelected
  PROVE  TableSelected
BY DEF onRowSelected, TableSelected, Clickable, netVars

-----------------------------------------------------------------------------
(* Types and bounds                                                          *)

\* A form under way that is not yet saved is one more change to come.
LEMMA UnsavedLemma ==
  ASSUME IsFiniteSet(puts), NEW p \in puts, p.at = "sent",
         NEW q, q.at # "sent", puts' = (puts \ {p}) \cup {q}
  PROVE  /\ IsFiniteSet(puts')
         /\ Cardinality(Unsaved) \in Nat \ {0}
         /\ Cardinality(Unsaved') = Cardinality(Unsaved) - 1
<1>1. IsFiniteSet(puts')
  BY FS_RemoveElement, FS_AddElement
<1>2. IsFiniteSet(Unsaved) /\ p \in Unsaved
  BY FS_Subset DEF Unsaved
<1>3. Unsaved' = Unsaved \ {p}
  BY DEF Unsaved
<1>4. Cardinality(Unsaved) \in Nat /\ Cardinality(Unsaved \ {p}) = Cardinality(Unsaved) - 1
  BY <1>2, FS_RemoveElement, FS_CardinalityType
<1>5. Cardinality(Unsaved) # 0
  BY <1>2, FS_EmptySet
<1> QED BY <1>1, <1>3, <1>4, <1>5

\* The library's types, its changes bounded by the user's.
LEMMA LibStep ==
  ASSUME TypeInv, BoundInv, Next
  PROVE  ListTypeOK'
<1> USE DEF ListTypeOK
<1>1. /\ ListTypeOK /\ listing \in Listing /\ other \in Other /\ table \in Table(Rows)
      /\ puts \subseteq [opening : Openings, record : Files, form : Form,
                         at : {"sent", "saved", "refused"}]
      /\ batches \subseteq [files : SUBSET Files, asked : SUBSET Files,
                            at : {"sent", "done"}]
      /\ user \in 0 .. MaxUser /\ opening \in 0 .. MaxUser
  BY DEF TypeInv, TypeOK, Rows
<1>2. ASSUME NEW k \in Key, NEW list \in List, StoreList(k, list)
      PROVE  ListTypeOK'
  BY <1>1, <1>2 DEF StoreList
<1>3. ASSUME NEW p \in puts, saveRecord(p)
      PROVE  ListTypeOK'
  <2>1. CASE lib[p.record] = Absent
    BY <1>1, <1>3, <2>1 DEF saveRecord, listVars
  <2>2. CASE lib[p.record] # Absent
    <3>1. PICK q : q = [p EXCEPT !.at = "saved"]
      OBVIOUS
    <3>2. q.at # "sent" /\ p.at = "sent" /\ puts' = (puts \ {p}) \cup {q}
      BY <1>1, <1>3, <2>2, <3>1 DEF saveRecord
    <3>3. Cardinality(Unsaved) \in Nat \ {0}
      BY <3>2, UnsavedLemma DEF BoundInv
    <3>4. edits + 1 \in 0 .. MaxEdits
      BY <1>1, <3>3, MediaPageAssumption, MediaListAssumption DEF BoundInv
    <3>5. p.form.of \in Files /\ SaveRecord(p.record, p.form.of)
      BY <1>1, <1>3, <2>2 DEF saveRecord, Form
    <3>6. PICK e : e = [of |-> p.form.of, ver |-> edits + 1]
      OBVIOUS
    <3>7. e \in Entry
      BY <3>4, <3>5, <3>6 DEF Entry
    <3>8. lib' = [lib EXCEPT ![p.record] = e] /\ edits' = edits + 1 /\ cache' = cache
      BY <3>5, <3>6 DEF SaveRecord
    <3> QED BY <1>1, <3>4, <3>7, <3>8 DEF List
  <2> QED BY <2>1, <2>2
<1>4. ASSUME NEW b \in batches, batchDelete(b)
      PROVE  ListTypeOK'
  BY <1>1, <1>4 DEF batchDelete, RemoveFiles, List, Entry
<1>5. CASE cacheList
  <2>1. StoreList(table.sent.key, listing.list) /\ table.sent.key \in Key /\ listing.list \in List
    BY <1>1, <1>5, ListingTypes DEF cacheList, Table
  <2> QED BY <1>2, <2>1
<1>6. CASE otherCaches
  <2>1. StoreList(other.key, other.list) /\ other.key \in Key /\ other.list \in List
    BY <1>1, <1>6 DEF otherCaches, Other
  <2> QED BY <1>2, <2>1
<1>7. CASE cacheExpires
  BY <1>1, <1>7 DEF cacheExpires, ListExpires
<1>8. CASE UNCHANGED listVars
  BY <1>1, <1>8 DEF listVars
<1>9. UserStep \/ AnswerStep => UNCHANGED listVars
  BY DEF UserStep, AnswerStep, onClickRefresh, filter, changeDirectory, onRowSelected, open,
         userCloses, doEdit, doDelete, confirmDelete, loadItemsAnswer, loadAnswer, doEditAnswer,
         doBatchAnswer
<1>10. ServerStep \/ TroubleStep =>
          \/ UNCHANGED listVars \/ cacheList \/ otherCaches \/ cacheExpires
          \/ (\E p \in puts : saveRecord(p)) \/ (\E b \in batches : batchDelete(b))
  BY DEF ServerStep, TroubleStep, readList, loadRecord, loadItemsError, loadItemsNoResponse,
         otherReads, loadFails
<1> QED BY <1>3, <1>4, <1>5, <1>6, <1>7, <1>8, <1>9, <1>10 DEF Next

\* Every change is an action of the user's that went before it.
LEMMA BoundStep ==
  ASSUME TypeInv, BoundInv, Next
  PROVE  BoundInv'
<1> DEFINE Newest == \A f \in Files : lib[f] # Absent => lib[f].ver <= edits
<1>1. /\ puts \subseteq [opening : Openings, record : Files, form : Form,
                         at : {"sent", "saved", "refused"}]
      /\ user \in Nat /\ opening \in Nat /\ edits \in Nat /\ lib \in List
  BY MediaPageAssumption DEF TypeInv, TypeOK, ListTypeOK
<1>2. /\ IsFiniteSet(puts) /\ Newest
      /\ opening + Cardinality(Unsaved) + edits <= user
      /\ Cardinality(Unsaved) \in Nat
  BY FS_Subset, FS_CardinalityType DEF BoundInv, Unsaved
<1>3. ASSUME NEW p \in puts, saveRecord(p)
      PROVE  BoundInv'
  <2>1. CASE lib[p.record] = Absent
    <3>1. PICK q : q = [p EXCEPT !.at = "refused"]
      OBVIOUS
    <3>2. q.at # "sent" /\ p.at = "sent" /\ puts' = (puts \ {p}) \cup {q}
      BY <1>1, <1>3, <2>1, <3>1 DEF saveRecord
    <3>3. /\ IsFiniteSet(puts') /\ Cardinality(Unsaved) \in Nat \ {0}
          /\ Cardinality(Unsaved') = Cardinality(Unsaved) - 1
      BY <1>2, <3>2, UnsavedLemma
    <3>4. UNCHANGED <<lib, edits, user, opening>>
      BY <1>3, <2>1 DEF saveRecord, listVars, Quiet, history
    <3>5. Newest'
      BY <1>2, <3>4
    <3>6. opening' + Cardinality(Unsaved)' + edits' <= user'
      BY <1>1, <1>2, <3>3, <3>4
    <3> QED BY <3>3, <3>5, <3>6 DEF BoundInv
  <2>2. CASE lib[p.record] # Absent
    <3>1. PICK q : q = [p EXCEPT !.at = "saved"]
      OBVIOUS
    <3>2. q.at # "sent" /\ p.at = "sent" /\ puts' = (puts \ {p}) \cup {q}
      BY <1>1, <1>3, <2>2, <3>1 DEF saveRecord
    <3>3. /\ IsFiniteSet(puts') /\ Cardinality(Unsaved) \in Nat \ {0}
          /\ Cardinality(Unsaved') = Cardinality(Unsaved) - 1
      BY <1>2, <3>2, UnsavedLemma
    <3>4. /\ edits' = edits + 1 /\ user' = user /\ opening' = opening
          /\ \E e : e.ver = edits + 1 /\ lib' = [lib EXCEPT ![p.record] = e]
      <4>1. PICK e : e = [of |-> p.form.of, ver |-> edits + 1]
        OBVIOUS
      <4> QED BY <1>3, <2>2, <4>1 DEF saveRecord, SaveRecord, Quiet, history
    <3>5. ASSUME NEW f \in Files, lib'[f] # Absent PROVE lib'[f].ver <= edits'
      <4>1. PICK e : e.ver = edits + 1 /\ lib' = [lib EXCEPT ![p.record] = e]
        BY <3>4
      <4>2. CASE f = p.record
        BY <1>1, <3>4, <4>1, <4>2 DEF List
      <4>3. CASE f # p.record
        <5>1. lib'[f] = lib[f]
          BY <1>1, <4>1, <4>3 DEF List
        <5>2. lib[f].ver \in Nat /\ lib[f].ver <= edits
          BY <1>1, <1>2, <3>5, <5>1 DEF List, Entry
        <5> QED BY <1>1, <3>4, <5>1, <5>2
      <4> QED BY <4>2, <4>3
    <3>6. opening' + Cardinality(Unsaved)' + edits' <= user'
      BY <1>1, <1>2, <3>3, <3>4
    <3> QED BY <3>3, <3>5, <3>6 DEF BoundInv
  <2> QED BY <2>1, <2>2
<1>4. CASE doEdit
  <2>1. PICK p : puts' = puts \cup {p}
    BY <1>4 DEF doEdit
  <2>2. user' = user + 1 /\ UNCHANGED <<lib, edits, opening>>
    BY <1>4 DEF doEdit, UserActs, listVars, history
  <2>3. IsFiniteSet(puts')
    BY <1>2, <2>1, FS_AddElement
  <2>4. Unsaved' \subseteq Unsaved \cup {p}
    BY <2>1 DEF Unsaved
  <2>5. /\ IsFiniteSet(Unsaved \cup {p})
        /\ Cardinality(Unsaved \cup {p}) \in {Cardinality(Unsaved), Cardinality(Unsaved) + 1}
    BY <1>2, FS_Subset, FS_AddElement DEF Unsaved
  <2>6. Cardinality(Unsaved') \in Nat /\ Cardinality(Unsaved') <= Cardinality(Unsaved) + 1
    BY <1>2, <2>4, <2>5, FS_Subset, FS_CardinalityType
  <2>7. opening' + Cardinality(Unsaved)' + edits' <= user'
    BY <1>1, <1>2, <2>2, <2>6
  <2>8. Newest'
    BY <1>2, <2>2
  <2> QED BY <2>3, <2>7, <2>8 DEF BoundInv
<1>5. ASSUME NEW p \in puts, doEditAnswer(p)
      PROVE  BoundInv'
  <2>1. p.at # "sent" /\ puts' = puts \ {p} /\ UNCHANGED <<lib, edits, user, opening>>
    BY <1>5 DEF doEditAnswer, Quiet, listVars
  <2>2. Unsaved' = Unsaved
    BY <2>1 DEF Unsaved
  <2>3. IsFiniteSet(puts')
    BY <1>2, <2>1, FS_RemoveElement
  <2> QED BY <1>2, <2>1, <2>2, <2>3 DEF BoundInv
<1>6. CASE open
  <2>1. opening' = opening + 1 /\ user' = user + 1 /\ UNCHANGED <<lib, edits, puts>>
    BY <1>6 DEF open, UserActs, listVars
  <2>2. Unsaved' = Unsaved /\ Newest'
    BY <1>2, <2>1 DEF Unsaved
  <2>3. opening' + Cardinality(Unsaved)' + edits' <= user'
    BY <1>1, <1>2, <2>1, <2>2
  <2> QED BY <1>2, <2>1, <2>2, <2>3 DEF BoundInv
<1>7. ASSUME user' \in {user, user + 1}, UNCHANGED <<edits, puts, opening>>,
             \A f \in Files : lib'[f] \in {Absent, lib[f]}
      PROVE  BoundInv'
  <2>1. Unsaved' = Unsaved /\ Newest'
    BY <1>2, <1>7 DEF Unsaved
  <2>2. opening' + Cardinality(Unsaved)' + edits' <= user'
    BY <1>1, <1>2, <1>7, <2>1
  <2> QED BY <1>2, <1>7, <2>1, <2>2 DEF BoundInv
<1>8. ASSUME NEW b \in batches, batchDelete(b)
      PROVE  BoundInv'
  <2>1. UNCHANGED <<edits, puts, opening, user>> /\ \A f \in Files : lib'[f] \in {Absent, lib[f]}
    BY <1>8 DEF batchDelete, RemoveFiles, history, Quiet
  <2> QED BY <1>7, <2>1
<1>9. UserStep => \/ open \/ doEdit
                  \/ user' \in {user, user + 1} /\ UNCHANGED <<edits, puts, opening, lib>>
  BY DEF UserStep, onClickRefresh, filter, changeDirectory, onRowSelected, userCloses, doDelete,
         confirmDelete, UserActs, Quiet, netVars, history, listVars
<1>10. AnswerStep => \/ \E p \in puts : doEditAnswer(p)
                     \/ user' = user /\ UNCHANGED <<edits, puts, opening, lib>>
  BY DEF AnswerStep, loadItemsAnswer, loadAnswer, doBatchAnswer, Quiet, history, listVars
<1>11. ServerStep => \/ \E p \in puts : saveRecord(p)
                     \/ \E b \in batches : batchDelete(b)
                     \/ user' = user /\ UNCHANGED <<edits, puts, opening, lib>>
  BY DEF ServerStep, readList, cacheList, otherCaches, loadRecord, Quiet, history, listVars, StoreList
<1>12. TroubleStep => user' = user /\ UNCHANGED <<edits, puts, opening, lib>>
  BY DEF TroubleStep, loadItemsError, loadItemsNoResponse, otherReads, cacheExpires, loadFails,
         Troubled, history, netVars, listVars, ListExpires
<1>13. UNCHANGED lib => \A f \in Files : lib'[f] \in {Absent, lib[f]}
  OBVIOUS
<1> QED BY <1>3, <1>4, <1>5, <1>6, <1>7, <1>8, <1>9, <1>10, <1>11, <1>12, <1>13 DEF Next

\* The table, the server's work on its load, and the due library.
LEMMA TableTypeStep ==
  ASSUME TypeInv, Next
  PROVE  /\ table' \in Table(Rows) /\ listing' \in Listing /\ other' \in Other
         /\ due' \in [key : Key, list : List] /\ unheard' \in BOOLEAN
         /\ raced' \in BOOLEAN
<1> DEFINE DueOK == due \in [key : Key, list : List] /\ unheard \in BOOLEAN
           OtherOK == other \in Other /\ raced \in BOOLEAN
<1>1. /\ table \in Table(Rows) /\ listing \in Listing /\ lib \in List
      /\ table.key \in Key /\ table.busy \in BOOLEAN /\ table.sent.flush \in BOOLEAN
      /\ table.sent.key \in Key /\ cache \in [Key -> List \cup {Absent}]
      /\ DueOK /\ OtherOK
  BY DEF TypeInv, TypeOK, ListTypeOK, Rows, Table
<1>2. TableAsked => table' \in Table(Rows) /\ listing' \in Listing
  BY <1>1, ListingTypes DEF TableAsked, Asked
<1>3. ASSUME Relist PROVE table' \in Table(Rows) /\ listing' \in Listing /\ DueOK'
  <2>1. TableAsked
    BY <1>1, <1>3, RelistStep
  <2>2. DueOK'
    BY <1>1, <1>3 DEF Relist
  <2> QED BY <1>2, <2>1, <2>2
<1>4. CASE UserStep
  <2>1. OtherOK'
    BY <1>1, <1>4 DEF UserStep, onClickRefresh, filter, changeDirectory, onRowSelected, open,
       userCloses, doEdit, doDelete, confirmDelete, netVars, history
  <2>2. CASE onClickRefresh \/ filter \/ changeDirectory
    <3>1. TableAsked /\ (Relist \/ (due' = due /\ unheard' = unheard))
      BY <1>1, <2>2, UserAsks
    <3> QED BY <1>1, <1>2, <1>3, <2>1, <3>1
  <2>3. CASE onRowSelected
    <3>1. TableSelected /\ due' = due /\ unheard' = unheard
      BY <2>3, SelectedStep DEF onRowSelected, history
    <3>2. table' \in Table(Rows) /\ listing' \in Listing
      BY <1>1, <3>1 DEF TableSelected, Table
    <3> QED BY <1>1, <2>1, <3>1, <3>2
  <2>4. UserStep => \/ onClickRefresh \/ filter \/ changeDirectory \/ onRowSelected
                    \/ UNCHANGED <<table, listing, due, unheard>>
    BY DEF UserStep, open, userCloses, doEdit, doDelete, confirmDelete, pageVars, netVars,
       history
  <2> QED BY <1>1, <1>4, <2>1, <2>2, <2>3, <2>4
<1>5. CASE ServerStep
  <2>1. UNCHANGED <<table, due, unheard>>
    BY <1>5 DEF ServerStep, readList, cacheList, otherCaches, loadRecord, saveRecord, batchDelete,
       pageVars, history
  <2>2. CASE readList
    <3>1. PICK l : /\ l = [at |-> "answered", list |-> cache[table.sent.key]]
                          \/ l = [at |-> "read", list |-> lib]
                   /\ l = listing'
                   /\ l.at = "answered" => Cached(table.sent.key, table.sent.flush)
      BY <2>2 DEF readList
    <3>2. l \in Listing
      BY <1>1, <3>1 DEF Listing, Cached
    <3> QED BY <1>1, <2>1, <2>2, <3>1, <3>2 DEF readList, history
  <2>3. CASE cacheList
    <3>1. listing' \in Listing
      BY <1>1, <2>3, ListingTypes DEF cacheList, Listing
    <3> QED BY <1>1, <2>1, <2>3, <3>1 DEF cacheList, history
  <2>4. CASE otherCaches
    BY <1>1, <2>1, <2>4, ListingTypes DEF otherCaches, Other
  <2>5. ServerStep => readList \/ cacheList \/ otherCaches \/ UNCHANGED <<listing, other, raced>>
    BY DEF ServerStep, loadRecord, saveRecord, batchDelete, history
  <2> QED BY <1>1, <1>5, <2>1, <2>2, <2>3, <2>4, <2>5
<1>6. CASE loadItemsAnswer \/ loadItemsError
  <2>1. PICK list \in List : TableFilled(list)
    BY <1>6, AnswersFill
  <2>2. table' \in Table(Rows) /\ listing' \in Listing
    BY <2>1, ListingTypes DEF TableFilled, Filled
  <2>3. DueOK' /\ OtherOK'
    BY <1>1, <1>6 DEF loadItemsAnswer, loadItemsError, history
  <2> QED BY <2>2, <2>3
<1>7. CASE AnswerStep
  <2>1. OtherOK'
    BY <1>1, <1>7 DEF AnswerStep, loadItemsAnswer, loadAnswer, doEditAnswer, doBatchAnswer, history
  <2>2. AnswerStep => loadItemsAnswer \/ Relist \/ UNCHANGED <<table, listing, due, unheard>>
    BY DEF AnswerStep, loadAnswer, doEditAnswer, doBatchAnswer
  <2> QED BY <1>1, <1>3, <1>6, <1>7, <2>1, <2>2
<1>8. CASE TroubleStep
  <2>1. CASE loadItemsNoResponse
    BY <1>1, <2>1, ListingTypes DEF loadItemsNoResponse, Table, history
  <2>2. CASE otherReads
    BY <1>1, <2>2 DEF otherReads, Other, pageVars, history
  <2>3. TroubleStep => \/ loadItemsError \/ loadItemsNoResponse \/ otherReads
                       \/ UNCHANGED <<table, listing, other, due, unheard, raced>>
    BY DEF TroubleStep, cacheExpires, loadFails, history, pageVars, netVars
  <2> QED BY <1>1, <1>6, <1>8, <2>1, <2>2, <2>3
<1> QED BY <1>4, <1>5, <1>7, <1>8 DEF Next

Modal == [record : Files \cup {Nothing}, form : Form \cup {Nothing}, loading : BOOLEAN]
Load == [opening : Openings, record : Files, at : {"sent", "answered"}, answer : Entry]
Put == [opening : Openings, record : Files, form : Form, at : {"sent", "saved", "refused"}]
Batch == [files : SUBSET Files, asked : SUBSET Files, at : {"sent", "done"}]

\* A record that answers a load fills the form, unless it is gone.
LEMMA FilledForm ==
  ASSUME modal \in Modal, NEW l \in Load, l.answer # Absent,
         modal' = [modal EXCEPT !.form = l.answer, !.loading = FALSE]
  PROVE  /\ modal' \in Modal /\ modal'.record = modal.record
         /\ modal'.form = l.answer
BY DEF Modal, Load, Entry, Form

\* The modal can be opened once more.
LEMMA OpeningLeft ==
  ASSUME TypeInv, BoundInv, open
  PROVE  opening + 1 \in Openings
<1>1. /\ user < MaxUser /\ opening + Cardinality(Unsaved) + edits <= user
      /\ edits \in Nat /\ opening \in Nat /\ user \in Nat /\ MaxUser \in Nat
  BY MediaPageAssumption DEF open, UserActs, BoundInv, TypeInv, TypeOK, ListTypeOK
<1>2. Cardinality(Unsaved) \in Nat
  BY FS_Subset, FS_CardinalityType DEF BoundInv, Unsaved
<1> QED BY <1>1, <1>2 DEF Openings

\* The modal and the requests for its record.
LEMMA ModalTypeStep ==
  ASSUME TypeInv, BoundInv, Next
  PROVE  /\ front' \in {"page", "modal", "question"} /\ modal' \in Modal /\ loads' \subseteq Load
         /\ opening' \in 0 .. MaxUser /\ overtaken' \in BOOLEAN
<1> DEFINE Typed == /\ front \in {"page", "modal", "question"} /\ modal \in Modal
                    /\ loads \subseteq Load /\ opening \in 0 .. MaxUser /\ overtaken \in BOOLEAN
<1> SUFFICES Typed'
  OBVIOUS
<1>1. /\ Typed /\ table \in Table(Rows) /\ lib \in List
  BY DEF TypeInv, TypeOK, ListTypeOK, Rows, Modal, Load
<1>2. NoModal \in Modal
  BY DEF NoModal, Modal
<1>3. close => front' \in {"page", "modal", "question"} /\ modal' \in Modal
  BY <1>1, <1>2 DEF close
<1>4. CASE open
  <2>1. PICK f \in Files : /\ modal' = [record |-> f, form |-> Nothing, loading |-> TRUE]
                           /\ front' = "modal" /\ opening' = opening + 1
                           /\ loads' = loads \cup {[opening |-> opening + 1, record |-> f,
                                                    at |-> "sent", answer |-> Absent]}
    BY <1>4 DEF open, Clickable
  <2>2. opening + 1 \in Openings
    BY <1>4, OpeningLeft
  <2>3. modal' \in Modal
    BY <2>1 DEF Modal
  <2>4. loads' \subseteq Load
    BY <1>1, <2>1, <2>2 DEF Load, Entry
  <2> QED BY <1>1, <1>4, <2>1, <2>2, <2>3, <2>4, MediaPageAssumption DEF open, Openings
<1>5. ASSUME NEW l \in loads, loadRecord(l)
      PROVE  Typed'
  <2>1. PICK n : n = [l EXCEPT !.at = "answered", !.answer = lib[l.record]]
    OBVIOUS
  <2>2. n \in Load
    BY <1>1, <2>1 DEF Load, List
  <2> QED BY <1>1, <1>5, <2>1, <2>2 DEF loadRecord, pageVars, history
<1>6. ASSUME NEW l \in loads, loadAnswer(l)
      PROVE  Typed'
  <2>1. l \in Load /\ loads' \subseteq Load /\ opening' = opening /\ overtaken' \in BOOLEAN
    BY <1>1, <1>6 DEF loadAnswer
  <2>2. CASE l.answer = Absent
    BY <1>1, <1>3, <1>6, <2>1, <2>2 DEF loadAnswer
  <2>3. CASE l.answer # Absent
    BY <1>1, <1>6, <2>1, <2>3, FilledForm DEF loadAnswer
  <2> QED BY <2>2, <2>3
<1>7. ASSUME NEW l \in loads, loadFails(l)
      PROVE  Typed'
  BY <1>1, <1>3, <1>7 DEF loadFails, history
<1>8. CASE UserStep
  <2>1. UserStep =>
           \/ open
           \/ /\ UNCHANGED <<loads, opening, overtaken>>
              /\ close \/ (modal' = modal /\ front' \in {front, "page", "question"})
    BY DEF UserStep, onClickRefresh, filter, changeDirectory, onRowSelected, userCloses, doEdit,
       doDelete, confirmDelete, pageVars, netVars, history
  <2> QED BY <1>1, <1>3, <1>4, <1>8, <2>1
<1>9. CASE ServerStep
  <2>1. ServerStep => \/ \E l \in loads : loadRecord(l)
                      \/ UNCHANGED <<front, modal, loads, opening, overtaken>>
    BY DEF ServerStep, readList, cacheList, otherCaches, saveRecord, batchDelete, pageVars, history
  <2> QED BY <1>1, <1>5, <1>9, <2>1
<1>10. CASE AnswerStep
  <2>1. AnswerStep =>
           \/ \E l \in loads : loadAnswer(l)
           \/ /\ UNCHANGED <<loads, opening, overtaken>>
              /\ close \/ (modal' = modal /\ front' = front)
    BY DEF AnswerStep, loadItemsAnswer, doEditAnswer, doBatchAnswer, history
  <2> QED BY <1>1, <1>3, <1>6, <1>10, <2>1
<1>11. CASE TroubleStep
  <2>1. TroubleStep => \/ \E l \in loads : loadFails(l)
                       \/ UNCHANGED <<front, modal, loads, opening, overtaken>>
    BY DEF TroubleStep, loadItemsError, loadItemsNoResponse, otherReads, cacheExpires, pageVars,
       netVars, history
  <2> QED BY <1>1, <1>7, <1>11, <2>1
<1> QED BY <1>8, <1>9, <1>10, <1>11 DEF Next

\* The forms and the delete requests under way, and the bounds.
LEMMA ToolTypeStep ==
  ASSUME TypeInv, ModalInv, Next
  PROVE  /\ puts' \subseteq Put /\ batches' \subseteq Batch /\ question' \in SUBSET Files
         /\ user' \in 0 .. MaxUser /\ trouble' \in 0 .. MaxTrouble
<1> DEFINE Typed == puts \subseteq Put /\ batches \subseteq Batch /\ question \in SUBSET Files
           Counted == user \in 0 .. MaxUser /\ trouble \in 0 .. MaxTrouble
<1> SUFFICES Typed' /\ Counted'
  OBVIOUS
<1>1. /\ Typed /\ Counted /\ table.selected \in SUBSET Files
      /\ modal \in Modal /\ opening \in 0 .. MaxUser
  BY DEF TypeInv, TypeOK, Put, Batch, Modal, Rows, Table
<1>2. /\ Quiet => Counted'
      /\ UserActs => Counted'
      /\ Troubled => Counted'
  BY <1>1, MediaPageAssumption DEF Quiet, UserActs, Troubled
<1>3. CASE doEdit
  <2>1. PICK p : /\ p = [opening |-> opening, record |-> modal.record,
                         form |-> modal.form, at |-> "sent"]
                 /\ puts' = puts \cup {p}
    BY <1>3 DEF doEdit
  <2>2. opening \in Openings /\ modal.record \in Files /\ modal.form \in Form
    BY <1>1, <1>3 DEF doEdit, ModalInv, Modal
  <2>3. p \in Put
    BY <2>1, <2>2 DEF Put
  <2> QED BY <1>1, <1>2, <1>3, <2>1, <2>3 DEF doEdit, pageVars
<1>4. ASSUME NEW p \in puts, saveRecord(p)
      PROVE  Typed' /\ Counted'
  <2>1. PICK q : /\ q = [p EXCEPT !.at = "saved"] \/ q = [p EXCEPT !.at = "refused"]
                 /\ puts' = (puts \ {p}) \cup {q}
    BY <1>4 DEF saveRecord
  <2>2. q \in Put
    BY <1>1, <2>1 DEF Put
  <2> QED BY <1>1, <1>2, <1>4, <2>1, <2>2 DEF saveRecord, pageVars
<1>5. CASE confirmDelete
  <2>1. batches' \subseteq Batch
    BY <1>1, <1>5 DEF confirmDelete, Batch
  <2> QED BY <1>1, <1>2, <1>5, <2>1 DEF confirmDelete
<1>6. ASSUME NEW b \in batches, batchDelete(b)
      PROVE  Typed' /\ Counted'
  <2>1. PICK c : c = [b EXCEPT !.at = "done"] /\ batches' = (batches \ {b}) \cup {c}
    BY <1>6 DEF batchDelete
  <2>2. c \in Batch
    BY <1>1, <2>1 DEF Batch
  <2> QED BY <1>1, <1>2, <1>6, <2>1, <2>2 DEF batchDelete, pageVars
<1>7. CASE UserStep
  <2>1. UserStep => \/ doEdit \/ confirmDelete
                    \/ UNCHANGED <<puts, batches>> /\ question' \in {question, table.selected}
    BY DEF UserStep, onClickRefresh, filter, changeDirectory, onRowSelected, open, userCloses,
       doDelete, netVars
  <2>2. UserStep => Counted'
    BY <1>2 DEF UserStep, onClickRefresh, filter, changeDirectory, onRowSelected, open, userCloses,
       doEdit, doDelete, confirmDelete
  <2> QED BY <1>1, <1>3, <1>5, <1>7, <2>1, <2>2
<1>8. CASE ServerStep
  <2>1. ServerStep => \/ \E p \in puts : saveRecord(p)
                      \/ \E b \in batches : batchDelete(b)
                      \/ UNCHANGED <<puts, batches, question>> /\ Quiet
    BY DEF ServerStep, readList, cacheList, otherCaches, loadRecord, pageVars
  <2> QED BY <1>1, <1>2, <1>4, <1>6, <1>8, <2>1
<1>9. CASE AnswerStep
  <2>1. AnswerStep => puts' \subseteq puts /\ batches' \subseteq batches /\ question' = question /\ Quiet
    BY DEF AnswerStep, loadItemsAnswer, loadAnswer, doEditAnswer, doBatchAnswer
  <2> QED BY <1>1, <1>2, <1>9, <2>1
<1>10. CASE TroubleStep
  <2>1. TroubleStep => UNCHANGED <<puts, batches, question>> /\ Troubled
    BY DEF TroubleStep, loadItemsError, loadItemsNoResponse, otherReads, cacheExpires, loadFails,
       pageVars, netVars
  <2> QED BY <1>1, <1>2, <1>10, <2>1
<1> QED BY <1>7, <1>8, <1>9, <1>10 DEF Next

LEMMA TypeStep ==
  ASSUME TypeInv, BoundInv, ModalInv, Next
  PROVE  TypeInv'
<1>1. ListTypeOK'
  BY LibStep
<1>2. /\ table' \in Table(Rows) /\ listing' \in Listing /\ other' \in Other
      /\ due' \in [key : Key, list : List] /\ unheard' \in BOOLEAN /\ raced' \in BOOLEAN
  BY TableTypeStep
<1>3. /\ front' \in {"page", "modal", "question"} /\ modal' \in Modal /\ loads' \subseteq Load
      /\ opening' \in 0 .. MaxUser /\ overtaken' \in BOOLEAN
  BY ModalTypeStep
<1>4. /\ puts' \subseteq Put /\ batches' \subseteq Batch /\ question' \in SUBSET Files
      /\ user' \in 0 .. MaxUser /\ trouble' \in 0 .. MaxTrouble
  BY ToolTypeStep
<1>5. listing' = Idle \/ (listing'.at \in {"sent", "read", "answered"} /\ listing'.list \in List)
  BY <1>2, ListingTypes
<1>6. other' = Idle \/ (other'.key \in Key /\ other'.list \in List)
  BY <1>2 DEF Other
<1>7. TypeOK'
  BY <1>1, <1>2, <1>3, <1>4, <1>5, <1>6 DEF TypeOK, Rows, Modal, Load, Put, Batch
<1> QED BY <1>2, <1>7 DEF TypeInv

-----------------------------------------------------------------------------
(* The table shows what was asked for, the question what will be deleted     *)

\* What any step does to the table.
LEMMA TableSteps ==
  ASSUME TypeInv, Next
  PROVE  \/ TableAsked
         \/ (loadItemsAnswer \/ loadItemsError) /\ \E list \in List : TableFilled(list)
         \/ onRowSelected
         \/ loadItemsNoResponse
         \/ table' = table /\ (listing' = Idle <=> listing = Idle)
<1>1. table \in Table(Rows) /\ listing \in Listing
  BY DEF TypeInv, TypeOK, Rows
<1>2. Relist => TableAsked
  BY <1>1, RelistStep
<1>3. CASE UserStep
  <2>1. onClickRefresh \/ filter \/ changeDirectory => TableAsked
    BY <1>1, UserAsks
  <2>2. UserStep => \/ onClickRefresh \/ filter \/ changeDirectory \/ onRowSelected
                    \/ UNCHANGED <<table, listing>>
    BY DEF UserStep, open, userCloses, doEdit, doDelete, confirmDelete, pageVars, netVars
  <2> QED BY <1>3, <2>1, <2>2
<1>4. CASE ServerStep
  <2>1. readList \/ cacheList => listing # Idle /\ listing' # Idle /\ table' = table
    <3>1. readList => listing'.at \in {"answered", "read"} /\ listing # Idle /\ table' = table
      BY DEF readList, pageVars
    <3>2. cacheList => listing'.at = "answered" /\ listing # Idle /\ table' = table
      BY <1>1 DEF cacheList, pageVars, Listing
    <3> QED BY <3>1, <3>2, ListingTypes
  <2>2. ServerStep => readList \/ cacheList \/ UNCHANGED <<table, listing>>
    BY DEF ServerStep, otherCaches, loadRecord, saveRecord, batchDelete, pageVars
  <2> QED BY <1>4, <2>1, <2>2
<1>5. CASE AnswerStep
  <2>1. AnswerStep => loadItemsAnswer \/ Relist \/ UNCHANGED <<table, listing>>
    BY DEF AnswerStep, loadAnswer, doEditAnswer, doBatchAnswer
  <2> QED BY <1>2, <1>5, <2>1, AnswersFill
<1>6. CASE TroubleStep
  <2>1. TroubleStep => loadItemsError \/ loadItemsNoResponse \/ UNCHANGED <<table, listing>>
    BY DEF TroubleStep, otherReads, cacheExpires, loadFails, pageVars, netVars
  <2> QED BY <1>6, <2>1, AnswersFill
<1> QED BY <1>3, <1>4, <1>5, <1>6 DEF Next

LEMMA TableInvStep ==
  ASSUME TypeInv, TableInv, Next
  PROVE  TableInv'
<1>1. /\ table \in Table(Rows) /\ table.busy \in BOOLEAN /\ table.again \in BOOLEAN
      /\ listing # Idle => table.busy
  BY DEF TypeInv, TypeOK, Rows, Table, TableInv
<1>2. CASE TableAsked
  <2>1. table' \in Table(Rows) /\ table'.busy /\ table'.busy \in BOOLEAN
    BY <1>2 DEF TableAsked, Asked, Table
  <2>2. table'.again \/ table'.sent.key = table'.key
    BY <1>1, <1>2 DEF TableAsked, Asked
  <2> QED BY <2>1, <2>2 DEF TableInv, IdleShowsView
<1>3. ASSUME loadItemsAnswer \/ loadItemsError, NEW list \in List, TableFilled(list)
      PROVE  TableInv'
  <2>1. /\ table' \in Table(Rows) /\ table'.key = table.key /\ table'.busy = table.again
        /\ table'.busy => table'.sent.key = table'.key
        /\ ~table'.busy => table'.rows.key = table.sent.key
        /\ listing' = IF table'.busy THEN SentListing ELSE Idle
    BY <1>3 DEF TableFilled, Filled
  <2>2. table.busy
    BY <1>1, <1>3 DEF loadItemsAnswer, loadItemsError
  <2>3. ~table'.busy => table.sent.key = table.key
    BY <2>1, <2>2 DEF TableInv
  <2> QED BY <1>1, <2>1, <2>3 DEF TableInv, IdleShowsView
<1>4. CASE onRowSelected
  <2>1. PICK fs \in SUBSET Files : table' = [table EXCEPT !.selected = fs] /\ listing' = listing
    BY <1>4, SelectedStep DEF TableSelected
  <2> QED BY <1>1, <2>1 DEF TableInv, IdleShowsView, Table
<1>5. CASE loadItemsNoResponse
  BY <1>1, <1>5 DEF loadItemsNoResponse, TableInv, IdleShowsView, Table
<1>6. CASE table' = table /\ (listing' = Idle <=> listing = Idle)
  BY <1>6 DEF TableInv, IdleShowsView
<1> QED BY <1>2, <1>3, <1>4, <1>5, <1>6, TableSteps

\* No step but the user's on the page selects anything.
LEMMA QuestionInvStep ==
  ASSUME TypeInv, QuestionInv, Next
  PROVE  QuestionInv'
<1>1. table \in Table(Rows) /\ question \in SUBSET Files
      /\ batches \subseteq Batch
  BY DEF TypeInv, TypeOK, Rows, Batch
<1>2. front # "page" => table'.selected \in {table.selected, {}}
  <2>1. TableAsked => table'.selected \in {table.selected, {}}
    BY DEF TableAsked, Asked
  <2>2. ASSUME NEW list, TableFilled(list) PROVE table'.selected \in {table.selected, {}}
    BY <2>2 DEF TableFilled, Filled
  <2>3. loadItemsNoResponse => table'.selected = table.selected
    BY <1>1 DEF loadItemsNoResponse, Table
  <2> QED BY <2>1, <2>2, <2>3, TableSteps DEF onRowSelected
<1>3. CASE doDelete
  <2>1. question' = table.selected /\ table' = table /\ batches' = batches
    BY <1>3 DEF doDelete, netVars
  <2> QED BY <2>1 DEF QuestionInv, DeletesWhatWasAsked
<1>4. CASE confirmDelete
  <2>1. PICK b : b = [files |-> table.selected, asked |-> question, at |-> "sent"]
    OBVIOUS
  <2>2. front' = "page" /\ (batches' = batches \/ (table.selected # {} /\ batches' = batches \cup {b}))
    BY <1>4, <2>1 DEF confirmDelete
  <2>3. table.selected \in {question, {}}
    BY <1>4 DEF confirmDelete, QuestionInv
  <2>4. b.files = table.selected /\ b.asked = question
    BY <2>1
  <2> QED BY <2>2, <2>3, <2>4 DEF QuestionInv, DeletesWhatWasAsked
<1>5. ASSUME front' = "question" => front = "question", question' = question,
             \A b \in batches' : b \in batches \/ b.files = b.asked
      PROVE  QuestionInv'
  BY <1>2, <1>5 DEF QuestionInv, DeletesWhatWasAsked
<1>6. ASSUME NEW b \in batches, batchDelete(b)
      PROVE  QuestionInv'
  <2>1. PICK c : c = [b EXCEPT !.at = "done"] /\ batches' = (batches \ {b}) \cup {c}
    BY <1>6 DEF batchDelete
  <2>2. c.files = b.files /\ c.asked = b.asked /\ b.files = b.asked
    BY <1>1, <2>1 DEF Batch, QuestionInv, DeletesWhatWasAsked
  <2> QED BY <1>5, <1>6, <2>1, <2>2 DEF batchDelete, pageVars
<1>7. close => (front' = "question" => front = "question")
  BY DEF close
<1>8. UserStep => \/ doDelete \/ confirmDelete
                  \/ /\ front' = "question" => front = "question"
                     /\ question' = question /\ batches' = batches
  BY <1>7 DEF UserStep, onClickRefresh, filter, changeDirectory, onRowSelected, open, userCloses,
     doEdit, pageVars, netVars
<1>9. ServerStep => \/ \E b \in batches : batchDelete(b)
                    \/ UNCHANGED <<front, question, batches>>
  BY DEF ServerStep, readList, cacheList, otherCaches, loadRecord, saveRecord, pageVars
<1>10. AnswerStep => /\ front' = "question" => front = "question"
                     /\ question' = question /\ batches' \subseteq batches
  BY <1>7 DEF AnswerStep, loadItemsAnswer, loadAnswer, doEditAnswer, doBatchAnswer
<1>11. TroubleStep => /\ front' = "question" => front = "question"
                      /\ question' = question /\ batches' = batches
  BY <1>7 DEF TroubleStep, loadItemsError, loadItemsNoResponse, otherReads, cacheExpires, loadFails,
     pageVars, netVars
<1> QED BY <1>3, <1>4, <1>5, <1>6, <1>8, <1>9, <1>10, <1>11 DEF Next

-----------------------------------------------------------------------------
(* The modal's record and its form                                           *)

LEMMA ModalInvStep ==
  ASSUME TypeInv, BoundInv, ModalInv, Next
  PROVE  ModalInv'
<1>1. loads \subseteq Load /\ opening \in Nat /\ modal \in Modal
  BY DEF TypeInv, TypeOK, Load, Modal
<1>2. \A l \in loads : l.opening <= opening /\ l.opening \in Nat
  BY <1>1, MediaPageAssumption DEF ModalInv, Load, Openings
<1>3. CASE open
  <2>0. PICK f \in Files :
          /\ modal' = [record |-> f, form |-> Nothing, loading |-> TRUE]
          /\ loads' = loads \cup {[opening |-> opening + 1, record |-> f,
                                   at |-> "sent", answer |-> Absent]}
          /\ opening' = opening + 1
    BY <1>3 DEF open, Clickable
  <2>1. PICK l : /\ l = [opening |-> opening + 1, record |-> f,
                         at |-> "sent", answer |-> Absent]
                 /\ loads' = loads \cup {l}
    BY <2>0
  <2>2. l.opening = opening + 1 /\ l.record = f /\ modal'.record = f
    BY <2>0, <2>1
  <2>3. \A k \in loads : k.opening <= opening + 1 /\ k.opening # opening + 1
    BY <1>1, <1>2
  <2>4. opening + 1 \in Openings
    BY <1>3, OpeningLeft
  <2> QED BY <1>1, <2>0, <2>1, <2>2, <2>3, <2>4 DEF ModalInv
<1>4. ASSUME front' = "modal" => front = "modal" /\ modal'.record = modal.record,
             opening' = opening,
             \A l \in loads' : \E k \in loads : l.opening = k.opening /\ l.record = k.record
      PROVE  ModalInv'
  BY <1>4 DEF ModalInv
<1>5. close => (front' = "modal" => front = "modal" /\ modal' = modal)
  BY DEF close
<1>6. ASSUME NEW l \in loads, loadRecord(l)
      PROVE  ModalInv'
  <2>1. PICK n : /\ n = [l EXCEPT !.at = "answered", !.answer = lib[l.record]]
                 /\ loads' = (loads \ {l}) \cup {n}
    BY <1>6 DEF loadRecord
  <2>2. n.opening = l.opening /\ n.record = l.record
    BY <1>1, <2>1 DEF Load
  <2> QED BY <1>4, <1>6, <2>1, <2>2 DEF loadRecord, pageVars, history
<1>7. ASSUME NEW l \in loads, loadAnswer(l)
      PROVE  ModalInv'
  <2>1. l \in Load /\ loads' = loads \ {l} /\ opening' = opening
    BY <1>1, <1>7 DEF loadAnswer
  <2>2. CASE l.answer = Absent
    BY <1>4, <1>5, <1>7, <2>1, <2>2 DEF loadAnswer
  <2>3. CASE l.answer # Absent
    BY <1>1, <1>4, <1>7, <2>1, <2>3, FilledForm DEF loadAnswer
  <2> QED BY <2>2, <2>3
<1>8. ASSUME NEW l \in loads, loadFails(l)
      PROVE  ModalInv'
  BY <1>4, <1>5, <1>8 DEF loadFails, history
<1>9. CASE UserStep
  <2>1. UserStep => \/ open
                    \/ /\ UNCHANGED <<loads, opening>>
                       /\ front' = "modal" => front = "modal" /\ modal' = modal
    BY <1>5 DEF UserStep, onClickRefresh, filter, changeDirectory, onRowSelected, userCloses, doEdit,
       doDelete, confirmDelete, pageVars, netVars, history
  <2> QED BY <1>3, <1>4, <1>9, <2>1
<1>10. CASE ServerStep
  <2>1. ServerStep => \/ \E l \in loads : loadRecord(l)
                      \/ UNCHANGED <<front, modal, loads, opening>>
    BY DEF ServerStep, readList, cacheList, otherCaches, saveRecord, batchDelete, pageVars, history
  <2> QED BY <1>4, <1>6, <1>10, <2>1
<1>11. CASE AnswerStep
  <2>1. AnswerStep => \/ \E l \in loads : loadAnswer(l)
                      \/ /\ UNCHANGED <<loads, opening>>
                         /\ front' = "modal" => front = "modal" /\ modal' = modal
    BY <1>5 DEF AnswerStep, loadItemsAnswer, doEditAnswer, doBatchAnswer, history
  <2> QED BY <1>4, <1>7, <1>11, <2>1
<1>12. CASE TroubleStep
  <2>1. TroubleStep => \/ \E l \in loads : loadFails(l)
                       \/ UNCHANGED <<front, modal, loads, opening>>
    BY DEF TroubleStep, loadItemsError, loadItemsNoResponse, otherReads, cacheExpires, pageVars,
       netVars, history
  <2> QED BY <1>4, <1>8, <1>12, <2>1
<1> QED BY <1>9, <1>10, <1>11, <1>12 DEF Next

\* A form gets another record's data only from an answer that came late.
LEMMA RecordInvStep ==
  ASSUME TypeInv, ModalInv, RecordInv, Next
  PROVE  RecordInv'
<1> DEFINE LibOK == \A f \in Files : lib[f] # Absent => lib[f].of = f
           LoadsOK == \A l \in loads : l.at = "answered" /\ l.answer # Absent
                                           => l.answer.of = l.record
           FormOK == front = "modal" /\ modal.form # Nothing => modal.form.of = modal.record
           PutsOK == \A p \in puts : p.form.of = p.record
<1>1. /\ loads \subseteq Load /\ modal \in Modal /\ puts \subseteq Put /\ lib \in List
      /\ overtaken \in BOOLEAN
  BY DEF TypeInv, TypeOK, ListTypeOK, Load, Modal, Put
<1>2. ~overtaken => LibOK /\ LoadsOK /\ FormOK /\ PutsOK
  BY DEF RecordInv
<1>3. ~overtaken' => ~overtaken
  <2>1. UserStep \/ ServerStep \/ TroubleStep => overtaken' = overtaken
    BY DEF UserStep, onClickRefresh, filter, changeDirectory, onRowSelected, open, userCloses, doEdit,
       doDelete, confirmDelete, pageVars, netVars, history, ServerStep, readList, cacheList,
       otherCaches, loadRecord, saveRecord, batchDelete, TroubleStep, loadItemsError,
       loadItemsNoResponse, otherReads, cacheExpires, loadFails
  <2>2. AnswerStep => (~overtaken' => ~overtaken)
    BY DEF AnswerStep, loadItemsAnswer, loadAnswer, doEditAnswer, doBatchAnswer, history
  <2> QED BY <2>1, <2>2 DEF Next
<1> SUFFICES ASSUME ~overtaken, ~overtaken' PROVE LibOK' /\ LoadsOK' /\ FormOK' /\ PutsOK'
  BY <1>3 DEF RecordInv
<1>4. LibOK /\ LoadsOK /\ FormOK /\ PutsOK
  BY <1>2
<1>5. close => FormOK'
  BY <1>4 DEF close
<1>6. CASE open
  <2>0. PICK f \in Files :
          /\ modal' = [record |-> f, form |-> Nothing, loading |-> TRUE]
          /\ loads' = loads \cup {[opening |-> opening + 1, record |-> f,
                                   at |-> "sent", answer |-> Absent]}
    BY <1>6 DEF open, Clickable
  <2>1. PICK l : /\ l = [opening |-> opening + 1, record |-> f,
                         at |-> "sent", answer |-> Absent]
                 /\ loads' = loads \cup {l}
    BY <2>0
  <2>2. l.at # "answered" /\ modal'.form = Nothing
    BY <2>0, <2>1
  <2> QED BY <1>4, <1>6, <2>0, <2>1, <2>2 DEF open, listVars
<1>7. CASE doEdit
  <2>1. PICK p : /\ p = [opening |-> opening, record |-> modal.record,
                         form |-> modal.form, at |-> "sent"]
                 /\ puts' = puts \cup {p}
    BY <1>7 DEF doEdit
  <2>2. p.form.of = p.record
    BY <1>4, <1>7, <2>1 DEF doEdit
  <2> QED BY <1>4, <1>7, <2>1, <2>2 DEF doEdit, listVars, pageVars
<1>8. ASSUME NEW l \in loads, loadRecord(l)
      PROVE  LibOK' /\ LoadsOK' /\ FormOK' /\ PutsOK'
  <2>1. PICK n : /\ n = [l EXCEPT !.at = "answered", !.answer = lib[l.record]]
                 /\ loads' = (loads \ {l}) \cup {n}
    BY <1>8 DEF loadRecord
  <2>2. n.answer = lib[l.record] /\ n.record = l.record /\ l.record \in Files
    BY <1>1, <2>1 DEF Load
  <2>3. n.answer # Absent => n.answer.of = n.record
    BY <1>4, <2>2
  <2>4. LoadsOK'
    BY <1>4, <2>1, <2>3
  <2> QED BY <1>4, <1>8, <2>4 DEF loadRecord, pageVars, listVars
<1>9. ASSUME NEW l \in loads, loadAnswer(l)
      PROVE  LibOK' /\ LoadsOK' /\ FormOK' /\ PutsOK'
  <2>1. /\ l \in Load /\ l.at = "answered" /\ loads' = loads \ {l} /\ l.opening = opening
        /\ UNCHANGED <<lib, puts>>
    BY <1>1, <1>9 DEF loadAnswer, Load, listVars
  <2>2. CASE l.answer = Absent
    BY <1>4, <1>5, <1>9, <2>1, <2>2 DEF loadAnswer
  <2>3. CASE l.answer # Absent
    <3>1. modal'.record = modal.record /\ modal'.form = l.answer /\ front' = front
      BY <1>1, <1>9, <2>1, <2>3, FilledForm DEF loadAnswer
    <3>2. front = "modal" => l.record = modal.record
      BY <2>1 DEF ModalInv
    <3>3. l.answer.of = l.record
      BY <1>4, <2>1, <2>3
    <3> QED BY <1>4, <2>1, <3>1, <3>2, <3>3
  <2> QED BY <2>2, <2>3
<1>10. ASSUME NEW p \in puts, saveRecord(p)
       PROVE  LibOK' /\ LoadsOK' /\ FormOK' /\ PutsOK'
  <2>1. PICK q : /\ q = [p EXCEPT !.at = "saved"] \/ q = [p EXCEPT !.at = "refused"]
                 /\ puts' = (puts \ {p}) \cup {q}
    BY <1>10 DEF saveRecord
  <2>2. p.form.of = p.record /\ q.form = p.form /\ q.record = p.record
    BY <1>1, <1>4, <2>1 DEF Put
  <2>3. PutsOK'
    BY <1>4, <2>1, <2>2
  <2>4. LibOK'
    <3>1. CASE lib[p.record] = Absent
      BY <1>4, <1>10, <3>1 DEF saveRecord, listVars
    <3>2. CASE lib[p.record] # Absent
      <4>1. PICK e : e.of = p.record /\ lib' = [lib EXCEPT ![p.record] = e]
        <5>1. PICK e : e = [of |-> p.form.of, ver |-> edits + 1]
          OBVIOUS
        <5> QED BY <1>10, <2>2, <3>2, <5>1 DEF saveRecord, SaveRecord
      <4> QED BY <1>1, <1>4, <4>1 DEF List
    <3> QED BY <3>1, <3>2
  <2> QED BY <1>4, <1>10, <2>3, <2>4 DEF saveRecord, pageVars
<1>11. ASSUME NEW b \in batches, batchDelete(b)
       PROVE  LibOK' /\ LoadsOK' /\ FormOK' /\ PutsOK'
  BY <1>4, <1>11 DEF batchDelete, RemoveFiles, pageVars
<1>12. ASSUME UNCHANGED lib, loads' \subseteq loads, puts' \subseteq puts,
              close \/ (front' = "modal" => front = "modal" /\ modal' = modal)
       PROVE  LibOK' /\ LoadsOK' /\ FormOK' /\ PutsOK'
  BY <1>4, <1>5, <1>12
<1>13. CASE UserStep
  <2>1. UserStep => \/ open \/ doEdit
                    \/ /\ UNCHANGED <<lib, loads, puts>>
                       /\ close \/ (front' = "modal" => front = "modal" /\ modal' = modal)
    BY DEF UserStep, onClickRefresh, filter, changeDirectory, onRowSelected, userCloses, doDelete,
       confirmDelete, pageVars, netVars, listVars
  <2> QED BY <1>6, <1>7, <1>12, <1>13, <2>1
<1>14. CASE ServerStep
  <2>1. ServerStep => \/ \E l \in loads : loadRecord(l)
                      \/ \E p \in puts : saveRecord(p)
                      \/ \E b \in batches : batchDelete(b)
                      \/ UNCHANGED <<lib, loads, puts, front, modal>>
    BY DEF ServerStep, readList, cacheList, otherCaches, StoreList, pageVars, listVars
  <2> QED BY <1>8, <1>10, <1>11, <1>12, <1>14, <2>1
<1>15. CASE AnswerStep
  <2>1. AnswerStep => \/ \E l \in loads : loadAnswer(l)
                      \/ /\ UNCHANGED <<lib, loads>> /\ puts' \subseteq puts
                         /\ close \/ (front' = front /\ modal' = modal)
    BY DEF AnswerStep, loadItemsAnswer, doEditAnswer, doBatchAnswer, listVars
  <2> QED BY <1>9, <1>12, <1>15, <2>1
<1>16. CASE TroubleStep
  <2>1. TroubleStep => /\ UNCHANGED <<lib, puts>> /\ loads' \subseteq loads
                       /\ close \/ (front' = front /\ modal' = modal)
    BY DEF TroubleStep, loadItemsError, loadItemsNoResponse, otherReads, cacheExpires, loadFails,
       ListExpires, pageVars, netVars, listVars
  <2> QED BY <1>12, <1>16, <2>1
<1> QED BY <1>13, <1>14, <1>15, <1>16 DEF Next

-----------------------------------------------------------------------------
(* Lists as new as the library was                                           *)

LEMMA FreshTransitive ==
  ASSUME NEW a \in List, NEW b \in List, NEW c \in List, AsFresh(a, b), AsFresh(b, c)
  PROVE  AsFresh(a, c)
<1>1. SUFFICES ASSUME NEW f \in Files, a[f] # Absent
               PROVE  c[f] # Absent /\ a[f].ver >= c[f].ver
  BY DEF AsFresh
<1>2. /\ b[f] # Absent /\ a[f].ver >= b[f].ver
      /\ c[f] # Absent /\ b[f].ver >= c[f].ver
  BY <1>1 DEF AsFresh
<1>3. a[f].ver \in Int /\ b[f].ver \in Int /\ c[f].ver \in Int
  BY <1>1, <1>2, MediaListAssumption DEF List, Entry
<1> QED BY <1>2, <1>3

LEMMA FreshReflexive ==
  ASSUME NEW a \in List
  PROVE  AsFresh(a, a) /\ AsFresh(Empty, a)
<1>1. \A f \in Files : a[f] = Absent \/ a[f].ver \in Int
  BY MediaListAssumption DEF List, Entry
<1> QED BY <1>1 DEF AsFresh, Empty

\* A change of the library is as new as everything before it.
LEMMA LibRenewed ==
  ASSUME TypeInv, BoundInv, Next
  PROVE  AsFresh(lib', lib)
<1>1. lib \in List /\ edits \in Nat
  BY DEF TypeInv, TypeOK, ListTypeOK
<1>2. CASE lib' = lib
  BY <1>1, <1>2, FreshReflexive
<1>3. ASSUME NEW p \in puts, saveRecord(p), lib[p.record] # Absent
      PROVE  AsFresh(lib', lib)
  <2>1. PICK e : e = [of |-> p.form.of, ver |-> edits + 1]
    OBVIOUS
  <2>2. e.ver = edits + 1 /\ lib' = [lib EXCEPT ![p.record] = e]
    BY <1>3, <2>1 DEF saveRecord, SaveRecord
  <2> SUFFICES ASSUME NEW f \in Files, lib'[f] # Absent
               PROVE  lib[f] # Absent /\ lib'[f].ver >= lib[f].ver
    BY DEF AsFresh
  <2>3. CASE f = p.record
    <3>1. lib'[f] = e
      BY <1>1, <2>2, <2>3 DEF List
    <3>2. lib[f] # Absent /\ lib[f].ver \in Nat /\ lib[f].ver <= edits
      BY <1>1, <1>3, <2>3 DEF List, Entry, BoundInv
    <3> QED BY <1>1, <2>2, <3>1, <3>2
  <2>4. CASE f # p.record
    <3>1. lib'[f] = lib[f]
      BY <1>1, <2>2, <2>4 DEF List
    <3>2. lib[f].ver \in Nat
      BY <1>1, <3>1 DEF List, Entry
    <3> QED BY <3>1, <3>2
  <2> QED BY <2>3, <2>4
<1>4. ASSUME NEW b \in batches, batchDelete(b)
      PROVE  AsFresh(lib', lib)
  <2>1. \A f \in Files : lib'[f] = Absent \/ lib'[f] = lib[f]
    BY <1>4 DEF batchDelete, RemoveFiles
  <2>2. \A f \in Files : lib[f] = Absent \/ lib[f].ver \in Nat
    BY <1>1 DEF List, Entry
  <2> QED BY <2>1, <2>2 DEF AsFresh
<1>5. UserStep \/ AnswerStep \/ TroubleStep => lib' = lib
  BY DEF UserStep, AnswerStep, onClickRefresh, filter, changeDirectory, onRowSelected, open,
         userCloses, doEdit, doDelete, confirmDelete, loadItemsAnswer, loadAnswer, doEditAnswer,
         doBatchAnswer, TroubleStep, loadItemsError, loadItemsNoResponse, otherReads, cacheExpires,
         loadFails, ListExpires, listVars
<1>6. ServerStep => \/ \E p \in puts : saveRecord(p) /\ lib[p.record] # Absent
                    \/ \E b \in batches : batchDelete(b)
                    \/ lib' = lib
  BY DEF ServerStep, readList, cacheList, otherCaches, loadRecord, saveRecord, StoreList, listVars
<1> QED BY <1>2, <1>3, <1>4, <1>5, <1>6 DEF Next

\* The due library changes only to the one of now, with a relist.
LEMMA DueStep ==
  ASSUME TypeInv, BoundInv, ListInv, Next
  PROVE  AsFresh(lib', due'.list)
<1>1. /\ table \in Table(Rows) /\ table.busy \in BOOLEAN /\ lib \in List /\ due.list \in List
      /\ lib' \in List
  BY LibStep DEF TypeInv, TypeOK, ListTypeOK, Rows, Table
<1>2. AsFresh(lib', lib) /\ AsFresh(lib, due.list)
  BY LibRenewed DEF ListInv, Due
<1>3. CASE due' = due
  BY <1>1, <1>2, <1>3, FreshTransitive
<1>4. CASE Relist
  <2>1. due' = due \/ due'.list = lib
    BY <1>4 DEF Relist
  <2> QED BY <1>1, <1>2, <1>3, <2>1
<1>5. Relist \/ due' = due
  <2>1. onClickRefresh \/ filter \/ changeDirectory => Relist \/ due' = due
    BY <1>1, UserAsks
  <2>2. UserStep => Relist \/ due' = due
    BY <2>1 DEF UserStep, onRowSelected, open, userCloses, doEdit, doDelete, confirmDelete, history
  <2>3. ServerStep \/ TroubleStep => due' = due
    BY DEF ServerStep, readList, cacheList, otherCaches, loadRecord, saveRecord, batchDelete,
       TroubleStep, loadItemsError, loadItemsNoResponse, otherReads, cacheExpires, loadFails, history
  <2>4. AnswerStep => Relist \/ due' = due
    BY DEF AnswerStep, loadItemsAnswer, loadAnswer, doEditAnswer, doBatchAnswer, history
  <2> QED BY <2>2, <2>3, <2>4 DEF Next
<1> QED BY <1>3, <1>4, <1>5

\* What decides whether the table shows what is due, unchanged.
dueVars == <<cache, table, listing, due>>

\* An idle table asked to load what is due passes the cache by; any other load
\* leaves the due lists as they are.
LEMMA AskedDue ==
  ASSUME TypeInv, TableInv, Dead \/ ShowsDue, TableAsked, UNCHANGED <<cache, lib>>,
         \/ Relist /\ ~unheard'
         \/ due' = due
  PROVE  Dead' \/ ShowsDue'
<1>1. /\ table \in Table(Rows) /\ table.busy \in BOOLEAN /\ listing \in Listing
      /\ Asked(table, table') /\ listing' = IF table.busy THEN listing ELSE SentListing
  BY DEF TypeInv, TypeOK, Rows, Table, TableAsked
<1>2. CASE table.busy
  <2>1. /\ due' = due
        /\ listing' = listing /\ table'.sent = table.sent /\ table'.busy
    BY <1>1, <1>2 DEF Asked, Relist
  <2>2. Dead => Dead'
    BY <2>1 DEF Dead
  <2>3. ShowsDue => ShowsDue'
    BY <2>1 DEF ShowsDue, CacheDue, LoadDue, Due
  <2> QED BY <2>2, <2>3
<1>3. CASE ~table.busy
  <2>1. listing' = SentListing /\ table'.busy
    BY <1>1, <1>3 DEF Asked
  <2>2. CacheDue' \/ LoadDue'
    <3>1. CASE Relist
      <4>1. due'.key = table.key /\ table'.sent.key = table.key /\ table'.sent.flush
        BY <1>1, <1>3, <3>1, RelistStep
      <4> QED BY <2>1, <4>1, ListingTypes DEF LoadDue
    <3>2. CASE due' = due
      <4>1. listing = Idle
        BY <1>3 DEF TableInv
      <4>2. CacheDue
        BY <1>3, <4>1, ListingTypes DEF Dead, ShowsDue, LoadDue
      <4> QED BY <3>2, <4>2 DEF CacheDue, Due
    <3> QED BY <3>1, <3>2
  <2> QED BY <2>1, <2>2, ListingTypes DEF ShowsDue
<1> QED BY <1>2, <1>3

\* What is answered is as new as what is due, or is an error of another load.
LEMMA FilledDue ==
  ASSUME TypeInv, TableInv, Dead \/ ShowsDue, loadItemsAnswer \/ loadItemsError, ~unheard'
  PROVE  ShowsDue'
<1>1. /\ listing # Idle /\ table.sent.flush \in BOOLEAN
      /\ cache' = cache /\ due' = due /\ due.list \in List
  BY DEF loadItemsAnswer, loadItemsError, history, listVars, TypeInv, TypeOK, Table
<1>2. ShowsDue
  BY <1>1 DEF Dead
<1>3. PICK list \in List : /\ TableFilled(list)
                           /\ list = IF loadItemsAnswer THEN listing.list ELSE Empty
  BY AnswersFill
<1>4. CacheDue
  <2>1. CASE loadItemsAnswer
    BY <1>2, <2>1 DEF loadItemsAnswer, ShowsDue, LoadDue
  <2>2. CASE ~loadItemsAnswer
    <3>1. ~table.sent.flush
      BY <1>1, <2>2 DEF loadItemsError
    <3> QED BY <1>2, <3>1 DEF ShowsDue, LoadDue
  <2> QED BY <2>1, <2>2
<1>5. table.sent.key = due.key => Due(list)
  <2>1. CASE loadItemsAnswer
    BY <1>2, <1>3, <2>1 DEF loadItemsAnswer, ShowsDue
  <2>2. CASE ~loadItemsAnswer
    BY <1>1, <1>3, <2>2, FreshReflexive DEF Due
  <2> QED BY <2>1, <2>2
<1>6. /\ listing' = IF table'.busy THEN SentListing ELSE Idle
      /\ ~table'.busy => table'.rows.key = table.sent.key /\ table'.rows.of = list
  BY <1>3 DEF TableFilled, Filled
<1>7. listing'.at \in {"sent", "idle"}
  BY <1>6, ListingTypes
<1> QED BY <1>1, <1>4, <1>5, <1>6, <1>7 DEF ShowsDue, CacheDue, Due

\* The server reads a list: of the cache, unless the load passes it by.
LEMMA ReadDue ==
  ASSUME TypeInv, ListInv, Dead \/ ShowsDue, readList
  PROVE  ShowsDue'
<1>1. /\ listing # Idle /\ listing.at = "sent" /\ table' = table /\ due' = due /\ cache' = cache
      /\ table.sent.flush \in BOOLEAN
  BY DEF readList, pageVars, history, listVars, TypeInv, TypeOK, Table
<1>2. ShowsDue
  BY <1>1 DEF Dead
<1>3. CASE Cached(table.sent.key, table.sent.flush)
  <2>1. listing'.at = "answered" /\ listing'.list = cache[table.sent.key]
    BY <1>3 DEF readList
  <2>2. ~table.sent.flush /\ cache[table.sent.key] # Absent
    BY <1>3 DEF Cached
  <2>3. CacheDue
    BY <1>2, <2>2 DEF ShowsDue, LoadDue
  <2> QED BY <1>1, <1>2, <2>1, <2>2, <2>3 DEF ShowsDue, CacheDue, Due
<1>4. CASE ~Cached(table.sent.key, table.sent.flush)
  <2>1. listing'.at = "read" /\ listing'.list = lib
    BY <1>4 DEF readList
  <2>2. CacheDue' \/ LoadDue'
    BY <1>1, <1>2, <2>1 DEF ShowsDue, CacheDue, LoadDue, Due
  <2> QED BY <1>1, <1>2, <2>1, <2>2 DEF ShowsDue, Due, ListInv
<1> QED BY <1>3, <1>4

\* A list goes to the cache.
LEMMA CachedDue ==
  ASSUME TypeInv, ListInv, Dead \/ ShowsDue, cacheList \/ otherCaches, ~raced'
  PROVE  Dead' \/ ShowsDue'
<1>1. /\ cache \in [Key -> List \cup {Absent}] /\ listing \in Listing /\ other \in Other
      /\ table.sent.key \in Key /\ due.key \in Key /\ due.list \in List /\ lib \in List
      /\ raced \in BOOLEAN
  BY DEF TypeInv, TypeOK, ListTypeOK, Table
<1>2. table' = table /\ due' = due /\ AsFresh(lib, due.list)
  BY DEF cacheList, otherCaches, pageVars, history, ListInv, Due
<1>3. CASE cacheList
  <2>1. /\ cache' = [cache EXCEPT ![table.sent.key] = listing.list]
        /\ listing.at = "read" /\ listing # Idle
        /\ listing'.at = "answered" /\ listing'.list = listing.list
    BY <1>1, <1>3 DEF cacheList, StoreList, Listing
  <2>2. ShowsDue
    BY <2>1 DEF Dead
  <2>3. CacheDue'
    <3>1. CASE table.sent.key = due.key
      BY <1>1, <1>2, <2>1, <2>2, <3>1 DEF ShowsDue, CacheDue, Due
    <3>2. CASE table.sent.key # due.key
      BY <1>1, <1>2, <2>1, <2>2, <3>2 DEF ShowsDue, CacheDue, LoadDue, Due
    <3> QED BY <3>1, <3>2
  <2> QED BY <1>2, <2>1, <2>2, <2>3 DEF ShowsDue, Due
<1>4. CASE otherCaches
  <2>1. /\ cache' = [cache EXCEPT ![other.key] = other.list] /\ listing' = listing
        /\ other.key \in Key /\ other.list \in List
        /\ AsFresh(other.list, lib)
    BY <1>1, <1>4 DEF otherCaches, StoreList, Other
  <2>2. AsFresh(other.list, due.list)
    BY <1>1, <1>2, <2>1, FreshTransitive
  <2>3. CacheDue => CacheDue'
    BY <1>1, <1>2, <2>1, <2>2 DEF CacheDue, Due
  <2> QED BY <1>2, <2>1, <2>3 DEF Dead, ShowsDue, LoadDue, Due
<1> QED BY <1>3, <1>4

LEMMA ListInvStep ==
  ASSUME TypeInv, BoundInv, TableInv, ListInv, Next
  PROVE  ListInv'
<1>1. Due(lib)'
  BY DueStep DEF Due
<1>2. /\ table \in Table(Rows) /\ unheard \in BOOLEAN /\ raced \in BOOLEAN
      /\ cache \in [Key -> List \cup {Absent}]
  BY DEF TypeInv, TypeOK, ListTypeOK, Rows
<1>3. Relist \/ loadItemsError \/ unheard' = unheard
  <2>1. onClickRefresh \/ filter \/ changeDirectory => Relist \/ unheard' = unheard
    BY <1>2, UserAsks
  <2>2. UserStep => Relist \/ unheard' = unheard
    BY <2>1 DEF UserStep, onRowSelected, open, userCloses, doEdit, doDelete, confirmDelete, history
  <2>3. ServerStep => unheard' = unheard
    BY DEF ServerStep, readList, cacheList, otherCaches, loadRecord, saveRecord, batchDelete, history
  <2>4. AnswerStep => Relist \/ unheard' = unheard
    BY DEF AnswerStep, loadItemsAnswer, loadAnswer, doEditAnswer, doBatchAnswer, history
  <2>5. TroubleStep => loadItemsError \/ unheard' = unheard
    BY DEF TroubleStep, loadItemsNoResponse, otherReads, cacheExpires, loadFails, history
  <2> QED BY <2>2, <2>3, <2>4, <2>5 DEF Next
<1>4. ~unheard' => ~unheard
  BY <1>2, <1>3 DEF Relist, loadItemsError
<1>5. ~raced' => ~raced
  <2>1. UserStep \/ AnswerStep \/ TroubleStep => raced' = raced
    BY DEF UserStep, AnswerStep, onClickRefresh, filter, changeDirectory, onRowSelected, open,
       userCloses, doEdit, doDelete, confirmDelete, loadItemsAnswer, loadAnswer, doEditAnswer,
       doBatchAnswer, TroubleStep, loadItemsError, loadItemsNoResponse, otherReads, cacheExpires,
       loadFails, history
  <2>2. ServerStep => (~raced' => ~raced)
    BY DEF ServerStep, readList, cacheList, otherCaches, loadRecord, saveRecord, batchDelete, history
  <2> QED BY <2>1, <2>2 DEF Next
<1> SUFFICES ASSUME ~unheard', ~raced' PROVE Dead' \/ ShowsDue'
  BY <1>1 DEF ListInv
<1>6. Dead \/ ShowsDue
  BY <1>4, <1>5 DEF ListInv
<1>7. ASSUME Relist, UNCHANGED listVars PROVE Dead' \/ ShowsDue'
  <2>1. TableAsked /\ cache' = cache /\ lib' = lib
    BY <1>2, <1>7, RelistStep DEF listVars
  <2> QED BY <1>6, <1>7, <2>1, AskedDue
<1>8. ASSUME UNCHANGED dueVars PROVE Dead' \/ ShowsDue'
  BY <1>6, <1>8 DEF dueVars, Dead, ShowsDue, CacheDue, LoadDue, Due
<1>9. CASE UserStep
  <2>1. CASE onClickRefresh \/ filter \/ changeDirectory
    <3>1. TableAsked /\ (Relist \/ due' = due) /\ cache' = cache /\ lib' = lib
      BY <1>2, <2>1, UserAsks DEF onClickRefresh, filter, changeDirectory, listVars
    <3> QED BY <1>6, <3>1, AskedDue
  <2>2. CASE onRowSelected
    <3>1. /\ \E fs \in SUBSET Files : table' = [table EXCEPT !.selected = fs]
          /\ UNCHANGED <<cache, listing, due>>
      BY <2>2, SelectedStep DEF TableSelected, onRowSelected, listVars, history
    <3>2. table'.busy = table.busy /\ table'.sent = table.sent /\ table'.rows = table.rows
      BY <1>2, <3>1 DEF Table
    <3> QED BY <1>6, <3>1, <3>2 DEF Dead, ShowsDue, CacheDue, LoadDue, Due
  <2>3. UserStep => \/ onClickRefresh \/ filter \/ changeDirectory \/ onRowSelected
                    \/ UNCHANGED dueVars
    BY DEF UserStep, open, userCloses, doEdit, doDelete, confirmDelete, pageVars, netVars, listVars,
       history, dueVars
  <2> QED BY <1>8, <1>9, <2>1, <2>2, <2>3
<1>10. CASE ServerStep
  <2>1. ServerStep => readList \/ cacheList \/ otherCaches \/ UNCHANGED dueVars
    BY DEF ServerStep, loadRecord, saveRecord, batchDelete, SaveRecord, RemoveFiles, pageVars,
       listVars, history, dueVars
  <2> QED BY <1>6, <1>8, <1>10, <2>1, ReadDue, CachedDue
<1>11. CASE AnswerStep
  <2>1. AnswerStep => loadItemsAnswer \/ (Relist /\ UNCHANGED listVars) \/ UNCHANGED dueVars
    BY DEF AnswerStep, loadAnswer, doEditAnswer, doBatchAnswer, listVars, dueVars
  <2> QED BY <1>6, <1>7, <1>8, <1>11, <2>1, FilledDue
<1>12. CASE TroubleStep
  <2>1. CASE loadItemsNoResponse
    <3>1. listing # Idle /\ listing' = Idle /\ table'.busy = table.busy
      BY <1>2, <2>1 DEF loadItemsNoResponse, Table
    <3> QED BY <3>1 DEF Dead, TableInv
  <2>2. CASE cacheExpires
    <3>1. PICK k \in Key : /\ cache' = [cache EXCEPT ![k] = Absent]
                           /\ UNCHANGED <<table, listing, due>>
      BY <2>2 DEF cacheExpires, ListExpires, pageVars, netVars, history
    <3>2. due.key \in Key
      BY DEF TypeInv, TypeOK
    <3>3. CacheDue => CacheDue'
      BY <1>2, <3>1, <3>2 DEF CacheDue, Due
    <3> QED BY <1>6, <3>1, <3>3 DEF Dead, ShowsDue, LoadDue, Due
  <2>3. TroubleStep => \/ loadItemsError \/ loadItemsNoResponse \/ cacheExpires
                       \/ UNCHANGED dueVars
    BY DEF TroubleStep, otherReads, loadFails, pageVars, netVars, listVars, history, dueVars
  <2> QED BY <1>6, <1>8, <1>12, <2>1, <2>2, <2>3, FilledDue
<1> QED BY <1>9, <1>10, <1>11, <1>12 DEF Next

-----------------------------------------------------------------------------
\* The page loads its first list when it opens.
LEMMA InitInv == Init => IInv
<1> SUFFICES ASSUME Init PROVE IInv
  OBVIOUS
<1>1. PICK k : k = [dir |-> FirstDir, filter |-> NoFilter]
  OBVIOUS
<1>2. k \in Key
  BY <1>1, MediaPageAssumption, DataTableAssumption DEF Key
<1>3. Empty \in List /\ lib \in List /\ edits = 0 /\ cache \in [Key -> List \cup {Absent}]
      /\ cache = [i \in Key |-> Absent] /\ lib = [f \in Files |-> [of |-> f, ver |-> 0]]
  <2>1. \A f \in Files : [of |-> f, ver |-> 0] \in Entry
    BY MediaListAssumption DEF Entry
  <2> QED BY <2>1, ListingTypes DEF Init, ListInit, List
<1>4. PICK t : t = [key |-> k, flush |-> FALSE, busy |-> FALSE, again |-> FALSE,
                    sent |-> [key |-> k, flush |-> FALSE],
                    rows |-> [key |-> k, of |-> Empty], selected |-> {}]
  OBVIOUS
<1>5. t \in Table(Rows) /\ t.key = k
  BY <1>2, <1>3, <1>4 DEF Table, Rows, Shown, List
<1>6. table = loadItems(t)
  BY <1>1, <1>4 DEF Init
<1>7. /\ table = [t EXCEPT !.busy = TRUE, !.sent = [key |-> t.key, flush |-> t.flush]]
      /\ table \in Table(Rows)
  BY <1>5, <1>6, LoadItemsLemma
<1>8. table.key = k /\ table.sent.key = k /\ table.busy = TRUE
  BY <1>5, <1>7 DEF Table
<1>9. /\ listing = SentListing /\ other = Idle /\ front = "page" /\ modal = NoModal
      /\ loads = {} /\ puts = {} /\ batches = {} /\ question = {} /\ opening = 0
      /\ due = [key |-> k, list |-> lib] /\ user = 0 /\ trouble = 0
      /\ unheard = FALSE /\ raced = FALSE /\ overtaken = FALSE
  BY <1>8 DEF Init, SentListing
<1>10. TypeInv
  <2>1. ListTypeOK
    BY <1>3, MediaListAssumption DEF ListTypeOK
  <2>2. listing \in Listing /\ listing # Idle /\ listing.at = "sent" /\ listing.list \in List
    BY <1>9, ListingTypes
  <2>3. modal \in Modal
    BY <1>9 DEF Modal, NoModal
  <2>4. due \in [key : Key, list : List] /\ other \in Other
    BY <1>2, <1>3, <1>9 DEF Other
  <2>5. opening \in 0 .. MaxUser /\ user \in 0 .. MaxUser /\ trouble \in 0 .. MaxTrouble
    BY <1>9, MediaPageAssumption
  <2>6. TypeOK
    BY <1>7, <1>9, <2>1, <2>2, <2>3, <2>4, <2>5 DEF TypeOK, Rows, Modal
  <2> QED BY <2>2, <2>4, <2>6 DEF TypeInv
<1>11. BoundInv
  <2>1. Unsaved = {} /\ IsFiniteSet(puts)
    BY <1>9, FS_EmptySet DEF Unsaved
  <2>2. Cardinality(Unsaved) = 0
    BY <2>1, FS_EmptySet
  <2> QED BY <1>3, <1>9, <2>1, <2>2 DEF BoundInv
<1>12. TableInv
  BY <1>8 DEF TableInv, IdleShowsView
<1>13. QuestionInv /\ ModalInv
  BY <1>9 DEF QuestionInv, ModalInv, DeletesWhatWasAsked
<1>14. RecordInv
  BY <1>3, <1>9 DEF RecordInv
<1>15. ListInv
  <2>1. Due(lib)
    BY <1>3, <1>9, FreshReflexive DEF Due
  <2>2. CacheDue
    BY <1>2, <1>3, <1>9 DEF CacheDue
  <2>3. listing.at = "sent"
    BY <1>9, ListingTypes
  <2> QED BY <1>8, <2>1, <2>2, <2>3 DEF ListInv, ShowsDue
<1> QED BY <1>10, <1>11, <1>12, <1>13, <1>14, <1>15 DEF IInv

\* Every step keeps the invariant.
LEMMA NextInv == IInv /\ [Next]_vars => IInv'
<1> SUFFICES ASSUME IInv, [Next]_vars PROVE IInv'
  OBVIOUS
<1>1. CASE Next
  BY <1>1, TypeStep, BoundStep, TableInvStep, QuestionInvStep, ModalInvStep, RecordInvStep,
     ListInvStep DEF IInv
<1>2. CASE UNCHANGED vars
  <2>1. UNCHANGED <<lib, edits, cache, table, front, modal, question, listing, other, loads, puts,
                    batches, opening, due, unheard, raced, overtaken, user, trouble>>
    BY <1>2 DEF vars, listVars, pageVars, netVars, history
  <2>2. TypeInv'
    BY <2>1 DEF IInv, TypeInv, TypeOK, ListTypeOK
  <2>3. BoundInv' /\ TableInv'
    BY <2>1 DEF IInv, BoundInv, Unsaved, TableInv, IdleShowsView
  <2>4. QuestionInv' /\ ModalInv' /\ RecordInv'
    BY <2>1 DEF IInv, QuestionInv, DeletesWhatWasAsked, ModalInv, RecordInv
  <2>5. ListInv'
    BY <2>1 DEF IInv, ListInv, Dead, ShowsDue, CacheDue, LoadDue, Due
  <2> QED BY <2>2, <2>3, <2>4, <2>5 DEF IInv
<1> QED BY <1>1, <1>2

\* The inductive invariant holds throughout.
THEOREM InvariantHolds == Spec => []IInv
BY InitInv, NextInv, PTL DEF Spec

\* The page, its requests and the server's lists have their types.
THEOREM TypesHold == Spec => []TypeOK
<1>1. IInv => TypeOK
  BY DEF IInv, TypeInv
<1> QED BY <1>1, InvariantHolds, PTL

\* An idle table shows the directory and filter the page has: a change that came
\* during an older load is not lost (DataTable.vue over b-table).
THEOREM ViewShown == Spec => []IdleShowsView
<1>1. IInv => IdleShowsView
  BY DEF IInv, TableInv
<1> QED BY <1>1, InvariantHolds, PTL

\* An idle table shows at least what the library held at the last relist of its
\* view, whatever was loaded, cached or expired since, unless that relist met a
\* busy table, a load failed, another page's older list was cached late, or the
\* table shows nothing.
THEOREM ChangesShown == Spec => []RelistShowsChanges
<1>1. IInv => RelistShowsChanges
  BY DEF IInv, ListInv, ShowsDue, Dead, Due, RelistShowsChanges
<1> QED BY <1>1, InvariantHolds, PTL

\* A delete request removes the files the user was asked about (MediaToolbar.vue).
THEOREM DeletesAsked == Spec => []DeletesWhatWasAsked
<1>1. IInv => DeletesWhatWasAsked
  BY DEF IInv, QuestionInv
<1> QED BY <1>1, InvariantHolds, PTL

\* A record only ever gets another record's data if an answer for an earlier
\* opening of the modal came after a later one (BaseEditModal.vue).
THEOREM DataKept == Spec => []RecordsKeepTheirData
<1>1. IInv => RecordsKeepTheirData
  BY DEF IInv, RecordInv, RecordsKeepTheirData
<1> QED BY <1>1, InvariantHolds, PTL
=============================================================================
