----------------------------- MODULE DataTable -----------------------------
(* The table component of every list page (DataTable.vue around b-table), as *)
(* operators on a table's state.  BootstrapVue never has two loads of one    *)
(* table under way: asked for another one it remembers that, and starts it   *)
(* when the answer is in.                                                    *)
CONSTANTS Dirs,        \* what the page adds to the query (requestConfig)
          Filters,     \* search terms, with
          NoFilter,    \* the empty one
          Files        \* rows

ASSUME DataTableAssumption == NoFilter \in Filters

Key == [dir : Dirs, filter : Filters]

\* Rows as an answer brings them: what the list had of each file.
Shown(Entry) == [key : Key, of : [Files -> Entry]]

Table(Rows) == [key : Key,             \* directory of the page, filter
                flush : BOOLEAN,       \* flushCache
                busy : BOOLEAN,        \* a load is under way
                again : BOOLEAN,       \* another one is wanted after it
                sent : [key : Key, flush : BOOLEAN],  \* the load under way
                rows : Rows,
                selected : SUBSET Files]

(* b-table asks its provider: the request takes the filter and directory of  *)
(* now, and the flag.                                                        *)
loadItems(t) == [t EXCEPT !.busy = TRUE,
                          !.sent = [key |-> t.key, flush |-> t.flush]]

refresh(t) == IF t.busy THEN [t EXCEPT !.again = TRUE]
                        ELSE loadItems([t EXCEPT !.selected = {}])

relist(t) == refresh([t EXCEPT !.flush = TRUE])

(* A change of the filter is a change of b-table's context: a load without   *)
(* the selection being dropped.                                              *)
setFilter(t, f) == LET u == [t EXCEPT !.key.filter = f]
                   IN  IF t.busy THEN [u EXCEPT !.again = TRUE] ELSE loadItems(u)

(* Another directory: the filter is dropped, which is a change of context of *)
(* its own if there was one, so that a second load follows.                  *)
navigate(t, d) ==
    LET u == refresh([t EXCEPT !.key = [dir |-> d, filter |-> NoFilter],
                               !.flush = TRUE])
    IN  [u EXCEPT !.again = @ \/ t.key.filter # NoFilter]

\* BUG variant: a load that was wanted meanwhile is forgotten.
loaded_Forgets(t, rows) == [t EXCEPT !.flush = FALSE, !.busy = FALSE, !.again = FALSE,
                                     !.rows = rows, !.selected = {}]

\* BUG variant: every answer asks for another load.
loaded_Always(t, rows) == refresh([t EXCEPT !.flush = FALSE, !.busy = FALSE,
                                            !.again = FALSE, !.rows = rows])

(* The answer: the flag goes, whatever the answered request had; other rows  *)
(* than before drop the selection; a load wanted meanwhile starts.           *)
loaded(t, rows) ==
    LET u == [t EXCEPT !.flush = FALSE, !.busy = FALSE, !.again = FALSE,
                       !.rows = rows,
                       !.selected = IF rows = t.rows THEN @ ELSE {}]
    IN  IF t.again THEN refresh(u) ELSE u
=============================================================================
