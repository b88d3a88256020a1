----------------------------- MODULE PageFacts -----------------------------
(***************************************************************************)
(* The vocabulary of the page tables (CompanyPages, ConsolePages).  A   *)
(* dashboard page is a set of queries, a set of mutations and the controls *)
(* that start them.  A table entry says, for one page, what its source     *)
(* says about each of these; ListCache and ListView give them meaning.     *)
(***************************************************************************)

(***************************************************************************)
(* A useQuery: the parts of the view its queryKey holds, the parts its     *)
(* queryFn sends, whether it keeps the previous rows while a new key loads *)
(* (placeholderData: keepPreviousData) and whether it has a                *)
(* refetchInterval.                                                        *)
(***************************************************************************)
Query(root, key, asks) ==
  [root |-> root, key |-> key, asks |-> asks,
   keep |-> FALSE, poll |-> FALSE, loader |-> FALSE,
   feed |-> "none", rests |-> FALSE, tabs |-> FALSE]

Keeping(q) == [q EXCEPT !.keep = TRUE]
Polling(q) == [q EXCEPT !.poll = TRUE]
\* A list held in useState and filled by an async function on a setInterval:
\* nothing cancels an older call when a newer one starts.
Loader(root) == [Query(root, {}, {}) EXCEPT !.poll = TRUE, !.loader = TRUE]

\* A list with a WebSocket beside it: what a message does (its event is put
\* in front of the rows, or the query is invalidated), whether the poll rests
\* while the socket is connected, and whether a filter tab opens a new socket.
Prepending(q) == [q EXCEPT !.feed = "prepend"]
Refetching(q) == [q EXCEPT !.feed = "refetch"]
Resting(q) == [q EXCEPT !.rests = TRUE]
Tabbed(q) == [q EXCEPT !.tabs = TRUE]

\* How the table pages its rows: by the server, by slicing what was fetched
\* (with the dependencies of the useMemo around the slice), or not at all.
AllDeps == {"data", "page", "limit"}
ServerPaged == [mode |-> "server", deps |-> AllDeps]
Sliced(deps) == [mode |-> "client", deps |-> deps]
Unpaged == [mode |-> "none", deps |-> AllDeps]

(***************************************************************************)
(* A useMutation: what it does to the rows, the queries of this page whose *)
(* answer it changes on the server, the roots its onSuccess invalidates,   *)
(* and the dialogs its onSuccess closes.                                   *)
(***************************************************************************)
Save(effect, changes, refreshes, closes) ==
  [effect |-> effect, changes |-> changes, refreshes |-> refreshes,
   closes |-> closes, unticks |-> FALSE, first |-> FALSE, each |-> FALSE,
   settles |-> FALSE]

Settling(s) == [s EXCEPT !.settles = TRUE]   \* onSettled instead of onSuccess
Unticking(s) == [s EXCEPT !.unticks = TRUE]  \* setSelected(new Set())
ToFirst(s) == [s EXCEPT !.first = TRUE]      \* setPage(1)
EachAlone(s) == [s EXCEPT !.each = TRUE]     \* Promise.all of single calls

(***************************************************************************)
(* How the mutation op is started: from a button or switch (of a row, or   *)
(* of the page), or from a dialog opened for a new row, for one row or for *)
(* the ticked rows.  A button is disabled while its mutation isPending     *)
(* ("once"), in a dialog while any mutation of it is ("guard"); a dialog   *)
(* can be left while it saves ("leave").                                   *)
(***************************************************************************)
Dialog(op, name, on) ==
  [op |-> op, dialog |-> name, on |-> on, once |-> TRUE, leave |-> TRUE, guard |-> name]
\* A dialog with several mutations, each disabling its own button only.
Alone(d) == [d EXCEPT !.guard = d.op]
Button(op) == Alone(Dialog(op, "none", {"row"}))
PageButton(op) == Alone(Dialog(op, "none", {"new"}))
Free(d) == [d EXCEPT !.once = FALSE]

(***************************************************************************)
(* The table: its filters, whether rows are ticked, how it is paged.  A    *)
(* filter control goes to page 1 with the change ("first"), does so when   *)
(* typed but is applied by a timer later ("late"), or leaves the page      *)
(* ("stay").                                                               *)
(***************************************************************************)
Table(filters, paging) == [filters |-> filters, paging |-> paging, ticks |-> FALSE]
Ticking(t) == [t EXCEPT !.ticks = TRUE]

Page(queries, table, saves, dialogs) ==
  [queries |-> queries, table |-> table, saves |-> saves, dialogs |-> dialogs]

NoSaves == [op \in {} |-> Save("change", {}, {}, {})]

\* The view: every filter control together, the page, the rows per page.
All == {"filter", "page", "limit"}

=============================================================================
