----------------------------- MODULE MediaPage -----------------------------
(* The media page of a station: its table of files, the modal that edits one *)
(* of them, the toolbar that deletes the selected ones, and the server's     *)
(* list.  Every request is answered late, in any order, or not at all; the   *)
(* user goes on meanwhile wherever the page lets them.                       *)
EXTENDS MediaList, FiniteSets

CONSTANTS FirstDir,
          Nothing,      \* no file, no record
          MaxUser,      \* bound: the user's actions, without closing and answering
          MaxTrouble    \* bound: failing requests, other users' lists and
                        \* changes, lists that expire

ASSUME MediaPageAssumption == /\ FirstDir \in Dirs
                              /\ Nothing \notin Files
                              /\ MaxUser \in Nat /\ MaxTrouble \in Nat
                              /\ MaxUser <= MaxEdits

VARIABLES table,     \* the table
          listing,   \* the server's work on its request
          other,     \* another page's list request, at the server
          front,     \* what is in front: the page, the modal, the question
          modal,     \* the modal: recordUrl, form, loading
          loads,     \* record requests of the modal, with their openings
          puts,      \* submitted forms under way
          question,  \* the files the user was asked about, when asked
          batches,   \* delete requests under way
          opening,   \* history: how often the modal was opened
          due,       \* history: the last relist of an idle table, and the library then
          unheard,   \* history: a relist met a busy table, or its load failed
          raced,     \* history: an older list went to the cache late
          overtaken, \* history: a record's answer met a later opening
          user, trouble

pageVars == <<table, front, modal, question>>
netVars == <<listing, other, loads, puts, batches>>
history == <<opening, due, unheard, raced, overtaken>>
vars == <<listVars, pageVars, netVars, history, user, trouble>>

Idle == [at |-> "idle"]
Form == [of : Files, ver : 0 .. MaxEdits]
Openings == 1 .. MaxUser

TypeOK ==
    /\ ListTypeOK
    /\ table \in Table(Shown(Entry))
    /\ listing = Idle \/ (/\ listing.at \in {"sent", "read", "answered"}
                          /\ listing.list \in List)
    /\ other = Idle \/ (other.key \in Key /\ other.list \in List)
    /\ front \in {"page", "modal", "question"}
    /\ modal \in [record : Files \cup {Nothing}, form : Form \cup {Nothing},
                  loading : BOOLEAN]
    /\ loads \subseteq [opening : Openings, record : Files, at : {"sent", "answered"},
                        answer : Entry]
    /\ puts \subseteq [opening : Openings, record : Files, form : Form,
                       at : {"sent", "saved", "refused"}]
    /\ question \in SUBSET Files
    /\ batches \subseteq [files : SUBSET Files, asked : SUBSET Files,
                          at : {"sent", "done"}]
    /\ opening \in 0 .. MaxUser
    /\ due \in [key : Key, list : List]
    /\ {unheard, raced, overtaken} \subseteq BOOLEAN
    /\ user \in 0 .. MaxUser
    /\ trouble \in 0 .. MaxTrouble

Empty == [f \in Files |-> Absent]
NoModal == [record |-> Nothing, form |-> Nothing, loading |-> FALSE]

Init ==
    /\ ListInit
    /\ table = loadItems([key |-> [dir |-> FirstDir, filter |-> NoFilter],
                          flush |-> FALSE, busy |-> FALSE, again |-> FALSE,
                          sent |-> [key |-> [dir |-> FirstDir, filter |-> NoFilter],
                                    flush |-> FALSE],
                          rows |-> [key |-> [dir |-> FirstDir, filter |-> NoFilter],
                                    of |-> Empty],
                          selected |-> {}])
    /\ listing = [at |-> "sent", list |-> Empty]
    /\ other = Idle
    /\ front = "page"
    /\ modal = NoModal
    /\ loads = {} /\ puts = {} /\ batches = {}
    /\ question = {}
    /\ opening = 0 /\ due = [key |-> table.key, list |-> lib]
    /\ unheard = FALSE /\ raced = FALSE /\ overtaken = FALSE
    /\ user = 0 /\ trouble = 0

UserActs == user < MaxUser /\ user' = user + 1 /\ UNCHANGED trouble
Troubled == trouble < MaxTrouble /\ trouble' = trouble + 1 /\ UNCHANGED user
Quiet == UNCHANGED <<user, trouble>>

(* The table's next state t, with the request it sends if it does.           *)
TableTo(t) ==
    /\ table' = t
    /\ listing' = IF ~table.busy /\ t.busy THEN [at |-> "sent", list |-> Empty]
                                           ELSE listing

(* A reload past the cache, as the widgets of the page ask for it.           *)
Relist ==
    /\ TableTo(relist(table))
    /\ due' = IF table.busy THEN due ELSE [key |-> table.key, list |-> lib]
    /\ unheard' = (unheard \/ table.busy)

-----------------------------------------------------------------------------
(* The user and the table                                                    *)

(* Rows can be clicked when the table shows them.                            *)
Clickable == {f \in Files : ~table.busy /\ table.rows.of[f] # Absent}

onClickRefresh ==
    /\ front = "page" /\ UserActs
    /\ \/ Relist                                        \* with the shift key
       \/ TableTo(refresh(table)) /\ UNCHANGED <<due, unheard>>
    /\ UNCHANGED <<listVars, front, modal, question, other, loads, puts, batches,
                   opening, raced, overtaken>>

filter ==
    /\ front = "page" /\ UserActs
    /\ \E f \in Filters \ {table.key.filter} : TableTo(setFilter(table, f))
    /\ UNCHANGED <<listVars, front, modal, question, other, loads, puts, batches,
                   history>>

changeDirectory ==
    /\ front = "page" /\ UserActs
    /\ \E d \in Dirs \ {table.key.dir} : TableTo(navigate(table, d))
    /\ UNCHANGED <<listVars, front, modal, question, other, loads, puts, batches,
                   history>>

\* BUG variant: the question leaves the rows clickable.
onRowSelected_Behind ==
    /\ front # "modal" /\ UserActs
    /\ \E fs \in SUBSET Clickable :
          fs # table.selected /\ table' = [table EXCEPT !.selected = fs]
    /\ UNCHANGED <<listVars, front, modal, question, netVars, history>>

onRowSelected ==
    /\ front = "page" /\ UserActs
    /\ \E fs \in SUBSET Clickable :
          fs # table.selected /\ table' = [table EXCEPT !.selected = fs]
    /\ UNCHANGED <<listVars, front, modal, question, netVars, history>>

(* The page takes the answer of the list request.                            *)
loadItemsAnswer ==
    /\ listing # Idle /\ listing.at = "answered"
    /\ LET t == loaded(table, [key |-> table.sent.key, of |-> listing.list])
       IN  /\ table' = t
           /\ listing' = IF t.busy THEN [at |-> "sent", list |-> Empty] ELSE Idle
    /\ Quiet
    /\ UNCHANGED <<listVars, front, modal, question, other, loads, puts, batches,
                   history>>

(* An error answer empties the table; the flag of its request goes with it.  *)
loadItemsError ==
    /\ listing # Idle /\ listing.at = "sent" /\ Troubled
    /\ LET t == loaded(table, [key |-> table.sent.key, of |-> Empty])
       IN  /\ table' = t
           /\ listing' = IF t.busy THEN [at |-> "sent", list |-> Empty] ELSE Idle
    /\ unheard' = (unheard \/ table.sent.flush)
    /\ UNCHANGED <<listVars, front, modal, question, other, loads, puts, batches,
                   opening, due, raced, overtaken>>

(* No answer at all: the handler has no response to report, stops there, and *)
(* never tells the table, which stays busy for good.                         *)
loadItemsNoResponse ==
    /\ listing # Idle /\ listing.at = "sent" /\ Troubled
    /\ table' = [table EXCEPT !.flush = FALSE]
    /\ listing' = Idle
    /\ UNCHANGED <<listVars, front, modal, question, other, loads, puts, batches,
                   history>>

-----------------------------------------------------------------------------
(* The server's lists                                                        *)

readList ==
    /\ listing # Idle /\ listing.at = "sent"
    /\ LET k == table.sent.key
       IN  listing' = IF Cached(k, table.sent.flush)
                      THEN [at |-> "answered", list |-> cache[k]]
                      ELSE [at |-> "read", list |-> lib]
    /\ Quiet
    /\ UNCHANGED <<listVars, pageVars, other, loads, puts, batches, history>>

cacheList ==
    /\ listing # Idle /\ listing.at = "read"
    /\ StoreList(table.sent.key, listing.list)
    /\ listing' = [listing EXCEPT !.at = "answered"]
    /\ Quiet
    /\ UNCHANGED <<pageVars, other, loads, puts, batches, history>>

(* Another page asks for a list and finds none in the cache.                 *)
otherReads ==
    /\ other = Idle /\ Troubled
    /\ \E k \in Key : /\ ~Cached(k, FALSE)
                      /\ other' = [key |-> k, list |-> lib]
    /\ UNCHANGED <<listVars, pageVars, listing, loads, puts, batches, history>>

otherCaches ==
    /\ other # Idle
    /\ StoreList(other.key, other.list)
    /\ raced' = (raced \/ ~AsFresh(other.list, lib))
    /\ other' = Idle
    /\ Quiet
    /\ UNCHANGED <<pageVars, listing, loads, puts, batches,
                   opening, due, unheard, overtaken>>

cacheExpires ==
    /\ Troubled
    /\ \E k \in Key : ListExpires(k)
    /\ UNCHANGED <<pageVars, netVars, history>>

-----------------------------------------------------------------------------
(* The edit modal                                                            *)

\* BUG variant: the form is not reset and can be sent at once.
open_KeepsForm ==
    /\ front = "page" /\ UserActs
    /\ \E f \in Clickable :
          /\ front' = "modal"
          /\ modal' = [modal EXCEPT !.record = f, !.loading = FALSE]
          /\ opening' = opening + 1
          /\ loads' = loads \cup {[opening |-> opening + 1, record |-> f,
                                   at |-> "sent", answer |-> Absent]}
    /\ UNCHANGED <<listVars, table, question, listing, other, puts, batches,
                   due, unheard, raced, overtaken>>

open ==
    /\ front = "page" /\ UserActs
    /\ \E f \in Clickable :
          /\ front' = "modal"
          /\ modal' = [record |-> f, form |-> Nothing, loading |-> TRUE]
          /\ opening' = opening + 1
          /\ loads' = loads \cup {[opening |-> opening + 1, record |-> f,
                                   at |-> "sent", answer |-> Absent]}
    /\ UNCHANGED <<listVars, table, question, listing, other, puts, batches,
                   due, unheard, raced, overtaken>>

(* The modal is hidden, by the user or because something ended, and its      *)
(* contents are cleared.                                                     *)
close == IF front = "modal" THEN front' = "page" /\ modal' = NoModal
                            ELSE UNCHANGED <<front, modal>>

userCloses ==
    /\ front = "modal" /\ Quiet
    /\ close
    /\ UNCHANGED <<listVars, table, question, netVars, history>>

loadRecord(l) ==
    /\ l.at = "sent"
    /\ loads' = (loads \ {l}) \cup {[l EXCEPT !.at = "answered", !.answer = lib[l.record]]}
    /\ Quiet
    /\ UNCHANGED <<listVars, pageVars, listing, other, puts, batches, history>>

\* BUG variant: a record that is gone fills the form as well.
loadAnswer_Unchecked(l) ==
    /\ l.at # "sent"
    /\ loads' = loads \ {l}
    /\ modal' = [modal EXCEPT !.form = l.answer, !.loading = FALSE]
    /\ overtaken' = (overtaken \/ l.opening # opening)
    /\ Quiet
    /\ UNCHANGED <<listVars, table, front, question, listing, other, puts, batches,
                   opening, due, unheard, raced>>

(* The record fills the form, whichever record the modal is open for by now; *)
(* a record that is gone closes the modal.                                   *)
loadAnswer(l) ==
    /\ l.at # "sent"
    /\ loads' = loads \ {l}
    /\ IF l.answer = Absent
       THEN close
       ELSE /\ modal' = [modal EXCEPT !.form = l.answer, !.loading = FALSE]
            /\ UNCHANGED front
    /\ overtaken' = (overtaken \/ l.opening # opening)
    /\ Quiet
    /\ UNCHANGED <<listVars, table, question, listing, other, puts, batches,
                   opening, due, unheard, raced>>

\* BUG variant: no handler for a failing request.
loadFails_Silent(l) ==
    /\ l.at = "sent" /\ Troubled
    /\ loads' = loads \ {l}
    /\ UNCHANGED <<listVars, pageVars, listing, other, puts, batches, history>>

(* No connection, or an error.                                               *)
loadFails(l) ==
    /\ l.at = "sent" /\ Troubled
    /\ loads' = loads \ {l}
    /\ close
    /\ UNCHANGED <<listVars, table, question, listing, other, puts, batches, history>>

(* The form can be sent once it is filled (its path is required).            *)
doEdit ==
    /\ front = "modal" /\ UserActs
    /\ ~modal.loading /\ modal.form # Nothing
    /\ puts' = puts \cup {[opening |-> opening, record |-> modal.record,
                           form |-> modal.form, at |-> "sent"]}
    /\ UNCHANGED <<listVars, pageVars, listing, other, loads, batches, history>>

(* The server saves the form under the record it was sent to.                *)
saveRecord(p) ==
    /\ p.at = "sent"
    /\ IF lib[p.record] = Absent
       THEN puts' = (puts \ {p}) \cup {[p EXCEPT !.at = "refused"]} /\ UNCHANGED listVars
       ELSE puts' = (puts \ {p}) \cup {[p EXCEPT !.at = "saved"]}
            /\ SaveRecord(p.record, p.form.of)
    /\ Quiet
    /\ UNCHANGED <<pageVars, listing, other, loads, batches, history>>

(* A saved form has the list loaded again and closes the modal; a refused    *)
(* one leaves it open.                                                       *)
doEditAnswer(p) ==
    /\ p.at # "sent"
    /\ puts' = puts \ {p}
    /\ IF p.at = "saved"
       THEN Relist /\ close
       ELSE UNCHANGED <<table, listing, due, unheard, front, modal>>
    /\ Quiet
    /\ UNCHANGED <<listVars, question, other, loads, batches, opening, raced, overtaken>>

-----------------------------------------------------------------------------
(* The toolbar                                                               *)

doDelete ==
    /\ front = "page" /\ UserActs
    /\ front' = "question"
    /\ question' = table.selected
    /\ UNCHANGED <<listVars, table, modal, netVars, history>>

(* doBatch takes the selection of now, not of when the user was asked.       *)
confirmDelete ==
    /\ front = "question" /\ Quiet
    /\ front' = "page"
    /\ \/ UNCHANGED batches                              \* cancelled, or no selection
       \/ /\ table.selected # {}
          /\ batches' = batches \cup {[files |-> table.selected, asked |-> question,
                                       at |-> "sent"]}
    /\ question' = {}
    /\ UNCHANGED <<listVars, table, modal, listing, other, loads, puts, history>>

batchDelete(b) ==
    /\ b.at = "sent"
    /\ RemoveFiles(b.files)
    /\ batches' = (batches \ {b}) \cup {[b EXCEPT !.at = "done"]}
    /\ Quiet
    /\ UNCHANGED <<pageVars, listing, other, loads, puts, history>>

doBatchAnswer(b) ==
    /\ b.at = "done"
    /\ batches' = batches \ {b}
    /\ Relist
    /\ Quiet
    /\ UNCHANGED <<listVars, front, modal, question, other, loads, puts,
                   opening, raced, overtaken>>

-----------------------------------------------------------------------------

UserStep == \/ onClickRefresh \/ filter \/ changeDirectory \/ onRowSelected
            \/ open \/ userCloses \/ doEdit \/ doDelete \/ confirmDelete

ServerStep == \/ readList \/ cacheList \/ otherCaches
              \/ \E l \in loads : loadRecord(l)
              \/ \E p \in puts : saveRecord(p)
              \/ \E b \in batches : batchDelete(b)

AnswerStep == \/ loadItemsAnswer
              \/ \E l \in loads : loadAnswer(l)
              \/ \E p \in puts : doEditAnswer(p)
              \/ \E b \in batches : doBatchAnswer(b)

TroubleStep == \/ loadItemsError \/ loadItemsNoResponse \/ otherReads \/ cacheExpires
               \/ \E l \in loads : loadFails(l)

Next == UserStep \/ ServerStep \/ AnswerStep \/ TroubleStep

Spec == Init /\ [][Next]_vars

(* Requests are served and answered; nobody has to do or lose anything.      *)
FairSpec == Spec /\ WF_vars(ServerStep) /\ WF_vars(AnswerStep)

-----------------------------------------------------------------------------
(* Properties                                                                *)

(* A table that is not loading shows the directory and filter the page has:  *)
(* a change that came while an older load was under way is not lost.         *)
IdleShowsView == ~table.busy => table.rows.key = table.key

(* A relist exists to show a change that was just made.  An idle table shows *)
(* at least what the library held at the last relist of its directory and    *)
(* filter that an idle table was asked for, whatever was loaded, cached or   *)
(* expired since.  The exceptions: the flag of a relist that met a loading   *)
(* table goes with the older answer, that of a load that fails with the      *)
(* error (both unheard), another page's older list reaches the cache last    *)
(* (raced), and a table that shows nothing, as after an error.               *)
RelistShowsChanges ==
    (/\ ~table.busy /\ table.rows.of # Empty /\ table.rows.key = due.key
     /\ ~unheard /\ ~raced) => AsFresh(table.rows.of, due.list)

(* What a delete request removes is what the user was asked about: a reload  *)
(* while the question is open can only empty the selection.                  *)
DeletesWhatWasAsked == \A b \in batches : b.files = b.asked

(* A record only ever gets another record's data if an answer for an earlier *)
(* opening of the modal came after a later one.                              *)
RecordsKeepTheirData ==
    overtaken \/ \A f \in Files : lib[f] # Absent => lib[f].of = f

(* Every load of the table ends, and with it the ones wanted meanwhile,      *)
(* unless a load gets no answer at all.                                      *)
TableSettles == table.busy ~> (~table.busy \/ listing = Idle)

(* The modal does not load for ever: it gets its form or is closed.          *)
ModalSettles == modal.loading ~> ~modal.loading
=============================================================================
