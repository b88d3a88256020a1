------------------------------ MODULE ListView ------------------------------
(***************************************************************************)
(* The table of one dashboard page: the rows it shows, the pagination bar, *)
(* the ticked rows, the dialogs and the mutations they start.  The page is *)
(* chosen at the start from the page tables.  How its rows are fetched is  *)
(* ListCache's subject; here a fetch is one step that may come any time.   *)
(***************************************************************************)
EXTENDS Naturals, FiniteSets

CONSTANTS
  Pages,      \* facts of the pages: [table, acts], see MCListView
  NumRows,    \* bound: rows ever created; the odd ones match the narrow filter
  Limits,     \* the rows-per-page options
  MaxClicks,  \* bound: changes of the screen's view, and ticks
  MaxOpens,   \* bound: dialogs opened and row buttons pressed
  MaxOthers   \* bound: changes made by someone else

ASSUME ViewAssumption ==
  /\ NumRows \in Nat \ {0}
  /\ Limits \subseteq Nat \ {0} /\ \E l, m \in Limits : l # m
  /\ MaxClicks \in Nat /\ MaxOpens \in Nat /\ MaxOthers \in Nat

\* A success that closes a dialog of another mutation is one that a dialog was
\* submitted for, and of which at most one is in flight.
Strays(a, acts) == \E b \in acts : b.dialog \in a.closes \ {"none"} /\ b.guard # a.guard

\* Every slice is cut again when the rows or the page change.
ASSUME PagesAssumption == \A x \in Pages :
  /\ {"data", "page"} \subseteq x.table.paging.deps
  /\ \A a \in x.acts : Strays(a, x.acts) =>
       a.dialog # "none" /\ \A b \in x.acts : b.guard = a.guard => b.once

Rows == 1..NumRows
MaxFlight == 2  \* bound: requests in flight

VARIABLES
  p,       \* the page's facts
  srv,     \* rows that exist on the server
  screen,  \* filter, page and rows per page selected
  data,    \* rows last fetched, of all pages of the current filter
  slice,   \* page, limit and data the memoised slice was computed from
  ticked,  \* ids ticked for a bulk action
  dlg,     \* the dialog open: [id, name, act, rows]
  reqs,    \* mutations in flight: [id, act, rows, stage]
  opens, clicks, others,
  born,    \* rows 1..born exist or existed
  left     \* a dialog was closed while its mutation was in flight

tableVars == <<p, srv, screen, data, slice, ticked, dlg, reqs, opens, clicks, others, born, left>>

Closed == [id |-> 0, name |-> "none", act |-> "none", rows |-> {}]

Matching(rows, filter) ==
  IF filter = "all" THEN rows ELSE {r \in rows : r % 2 = 1}

Rank(r, rows) == Cardinality({s \in rows : s < r})
OnPage(rows, page, limit) == {r \in rows : Rank(r, rows) \div limit = page - 1}

\* Math.ceil(total / limit)
TotalPages == (Cardinality(data) + screen.limit - 1) \div screen.limit

Listed == OnPage(slice.data, slice.page, slice.limit)

\* useMemo: computed again when one of its dependencies has changed.
Memo(d, v) ==
  LET now == [data |-> d, page |-> v.page, limit |-> v.limit]
  IN  IF \E x \in p.table.paging.deps : now[x] # slice[x] THEN now ELSE slice

Render(d, v) == screen' = v /\ data' = d /\ slice' = Memo(d, v)

TableInit ==
  /\ p \in Pages
  /\ born \in {NumRows - 1, NumRows}
  /\ srv = 1..born
  /\ screen = [filter |-> "all", page |-> 1,
                limit |-> CHOOSE l \in Limits : \A m \in Limits : l <= m]
  /\ data = srv
  /\ slice = [data |-> srv, page |-> 1, limit |-> screen.limit]
  /\ ticked = {} /\ dlg = Closed /\ reqs = {}
  /\ opens = 0 /\ clicks = 0 /\ others = 0 /\ left = FALSE

-----------------------------------------------------------------------------
(* The pagination bar.                                                     *)

\* The numbered buttons.
pageItems(page, totalPages) ==
  IF totalPages <= 7 THEN 1..totalPages
  ELSE {1, totalPages} \cup {n \in 2..(totalPages - 1) : page - 1 <= n /\ n <= page + 1}

\* What a click on the bar can select: nothing while it is hidden, the
\* numbers and the arrows when there is more than one page.
Bar ==
  IF TotalPages <= 1 THEN {}
  ELSE pageItems(screen.page, TotalPages)
         \cup {n \in {screen.page - 1} : screen.page # 1}
         \cup {n \in {screen.page + 1} : screen.page < TotalPages}

Paged == p.table.paging.mode # "none"

Click == clicks < MaxClicks /\ clicks' = clicks + 1
Rest == UNCHANGED <<p, srv, ticked, dlg, reqs, opens, others, born, left>>

SetPage(n) ==
  /\ Paged /\ dlg = Closed /\ n \in Bar
  /\ n # screen.page
  /\ Click
  /\ Render(data, [screen EXCEPT !.page = n])
  /\ Rest

\* A plausible mistake: the page number survives a new page size.
ResizedInPlace(l) == [screen EXCEPT !.limit = l]

Resized(l) == [screen EXCEPT !.limit = l, !.page = 1]

\* The selector is part of the bar, which is hidden while there are no rows.
SetLimit(l) ==
  /\ Paged /\ dlg = Closed /\ data # {} /\ l # screen.limit
  /\ Click
  /\ Render(data, Resized(l))
  /\ Rest

\* A filter control; with "late" the page may have been turned between the
\* keystroke and the timer.
SetFilter(x, how) ==
  /\ dlg = Closed /\ x # screen.filter
  /\ Click
  /\ Render(Matching(srv, x),
            [screen EXCEPT !.filter = x, !.page = IF how = "first" THEN 1 ELSE @])
  /\ Rest

\* A poll, a refetch after an invalidation, on focus or on mount.
Refetch ==
  /\ data # Matching(srv, screen.filter)
  /\ Render(Matching(srv, screen.filter), screen)
  /\ UNCHANGED <<p, srv, ticked, dlg, reqs, opens, clicks, others, born, left>>

-----------------------------------------------------------------------------
(* Ticking.                                                                *)

Ticks(t) ==
  /\ p.table.ticks /\ dlg = Closed /\ Click /\ ticked' = t
  /\ UNCHANGED <<p, srv, screen, data, slice, dlg, reqs, opens, others, born, left>>

toggleSelect(r) ==
  /\ r \in Listed
  /\ Ticks(IF r \in ticked THEN ticked \ {r} ELSE ticked \cup {r})

toggleAll ==
  Ticks(IF Cardinality(ticked) = Cardinality(Listed) THEN {} ELSE Listed)

\* "Clear" in the bar of bulk actions.
ClearTicks == ticked # {} /\ Ticks({})

-----------------------------------------------------------------------------
(* Dialogs and the mutations behind them.                                  *)

Busy(a) == \E q \in reqs : q.act.guard = a.guard

Targets(a) ==
  LET on == a.on
  IN  {t \in {{r} : r \in Listed} : "row" \in on}
        \cup {t \in {ticked} : "ticked" \in on /\ t # {}}
        \cup {t \in {{}} : "new" \in on}

OpenDialog(a, t) ==
  /\ a.dialog # "none"
  /\ dlg = Closed /\ opens < MaxOpens
  /\ t \in Targets(a)
  /\ opens' = opens + 1
  /\ dlg' = [id |-> opens + 1, name |-> a.dialog, act |-> a, rows |-> t]
  /\ UNCHANGED <<p, srv, screen, data, slice, ticked, reqs, clicks, others, born, left>>

Cancel ==
  /\ dlg # Closed
  /\ ~Busy(dlg.act) \/ dlg.act.leave
  /\ left' = (left \/ \E q \in reqs : q.id = dlg.id)
  /\ dlg' = Closed
  /\ UNCHANGED <<p, srv, screen, data, slice, ticked, reqs, opens, clicks, others, born>>

\* Requests are told apart by a number; MaxFlight bounds them.
Request(id, a, t) ==
  \E n \in 1..MaxFlight :
    /\ n = CHOOSE k \in 1..(MaxFlight + 1) : \A q \in reqs : q.n # k
    /\ reqs' = reqs \cup {[id |-> id, act |-> a, rows |-> t, stage |-> "sent", n |-> n]}

\* The submit button of the dialog, disabled while its mutation isPending.
SubmitDialog ==
  /\ dlg # Closed
  /\ dlg.act.once => ~Busy(dlg.act)
  /\ Request(dlg.id, dlg.act, dlg.rows)
  /\ UNCHANGED <<p, srv, screen, data, slice, ticked, dlg, opens, clicks, others, born, left>>

\* A button or switch of a row.
Press(a, t) ==
  /\ a.dialog = "none"
  /\ dlg = Closed /\ opens < MaxOpens
  /\ a.once => ~Busy(a)
  /\ t \in Targets(a)
  /\ opens' = opens + 1
  /\ Request(opens + 1, a, t)
  /\ UNCHANGED <<p, srv, screen, data, slice, ticked, dlg, clicks, others, born, left>>

Adding == born + 1 \in Rows /\ born' = born + 1 /\ srv' = srv \cup {born + 1}

Effect(q, done) ==
  CASE q.act.effect = "add" -> Adding
    [] q.act.effect = "remove" -> srv' = srv \ done /\ UNCHANGED born
    [] OTHER -> UNCHANGED <<srv, born>>

\* The server carries the request out; single calls made together may be
\* carried out for some of the rows only.
CarryOut(q) ==
  /\ q.stage = "sent"
  /\ \E done \in IF q.act.each THEN SUBSET q.rows ELSE {q.rows} :
       /\ Effect(q, done)
       /\ reqs' = (reqs \ {q})
            \cup {[q EXCEPT !.stage = IF done = q.rows THEN "done" ELSE "partly"]}
  /\ UNCHANGED <<p, screen, data, slice, ticked, dlg, opens, clicks, others, left>>

\* A plausible mistake: every success closes whatever is open.
OnSuccessClosesAll(q) ==
  /\ q.stage = "done"
  /\ reqs' = reqs \ {q}
  /\ dlg' = Closed
  /\ UNCHANGED <<p, srv, screen, data, slice, ticked, opens, clicks, others, born, left>>

\* onSuccess: the dialogs it closes, the selection it clears, setPage(1).
OnSuccess(q) ==
  LET s == q.act
  IN  /\ q.stage = "done"
      /\ reqs' = reqs \ {q}
      /\ dlg' = IF dlg.name \in s.closes THEN Closed ELSE dlg
      /\ ticked' = IF s.unticks THEN {} ELSE ticked
      /\ Render(data, IF s.first THEN [screen EXCEPT !.page = 1] ELSE screen)
      /\ UNCHANGED <<p, srv, opens, clicks, others, born, left>>

\* onError: a message; the dialog, the selection and the list stay.
OnError(q) ==
  /\ reqs' = reqs \ {q}
  /\ UNCHANGED <<p, srv, screen, data, slice, ticked, dlg, opens, clicks, others, born, left>>

ByOthers ==
  /\ others < MaxOthers
  /\ others' = others + 1
  /\ Adding \/ (\E r \in srv : srv' = srv \ {r} /\ UNCHANGED born)
  /\ UNCHANGED <<p, screen, data, slice, ticked, dlg, reqs, opens, clicks, left>>

TableNext ==
  \/ \E n \in 0..(NumRows + 1) : SetPage(n)
  \/ \E l \in Limits : SetLimit(l)
  \/ \E x \in {"all", "odd"}, how \in p.table.filters : SetFilter(x, how)
  \/ Refetch
  \/ \E r \in Rows : toggleSelect(r)
  \/ toggleAll
  \/ ClearTicks
  \/ \E a \in p.acts : \E t \in Targets(a) : OpenDialog(a, t) \/ Press(a, t)
  \/ Cancel
  \/ SubmitDialog
  \/ \E q \in reqs : CarryOut(q) \/ OnSuccess(q) \/ OnError(q)
  \/ ByOthers

TableSpec == TableInit /\ [][TableNext]_tableVars

-----------------------------------------------------------------------------

Acts == UNION {q.acts : q \in Pages}
Names == {a.dialog : a \in Acts}

\* Every variable holds a value of its kind.
TableTypeOK ==
  /\ p \in Pages
  /\ born \in 0..NumRows /\ srv \subseteq 1..born
  /\ screen \in [filter : {"all", "odd"}, page : 1..(NumRows + 1), limit : Limits]
  /\ data \subseteq Rows /\ ticked \subseteq Rows
  /\ slice \in [data : SUBSET Rows, page : 1..(NumRows + 1), limit : Limits]
  /\ dlg = Closed \/ dlg \in [id : 1..MaxOpens, name : Names, act : Acts, rows : SUBSET Rows]
  /\ reqs \subseteq [id : 1..MaxOpens, act : Acts, rows : SUBSET Rows,
                     stage : {"sent", "done", "partly"}, n : 1..MaxFlight]
  /\ opens \in 0..MaxOpens /\ clicks \in 0..MaxClicks /\ others \in 0..MaxOthers
  /\ left \in BOOLEAN

\* Rows that were fetched can be brought on the screen: they are listed, or
\* the bar offers a page or a page size that lists some, also when deletions
\* have left the table on a page past the last one.
RowsReachable ==
  Paged /\ data # {} =>
    \/ Listed # {}
    \/ \E n \in Bar : OnPage(data, n, screen.limit) # {}
    \/ \E l \in Limits \ {screen.limit} : OnPage(data, Resized(l).page, l) # {}

\* The rows listed are cut from the rows last fetched, at the page and by the
\* page size selected: no page shows a slice it should have cut again.  One
\* exception: where the size is not among the useMemo's dependencies (devices,
\* categories), a size chosen on the first page, to which the selector would
\* go, leaves the slice as it was until rows or page change.
SliceHoldsData ==
  /\ slice.data = data /\ slice.page = screen.page
  /\ \/ slice.limit = screen.limit
     \/ "limit" \notin p.table.paging.deps /\ screen.page = 1

\* The table lists the rows it has, and no row is out of reach.
TableSound == SliceHoldsData /\ RowsReachable

\* A mutation that succeeds closes the dialog it was submitted from, or one
\* for the same mutation (a ticket's "Yes" closes the comment under its
\* "No"), and no other, so a draft opened meanwhile survives; unless a dialog
\* was left while it was saving, which every page allows.
KeepsDrafts ==
  [][dlg # Closed /\ dlg' # dlg /\ reqs' # reqs /\ ~left =>
       \E q \in reqs \ reqs' : q.id = dlg.id \/ q.act.guard = dlg.act.guard]_tableVars

=============================================================================
