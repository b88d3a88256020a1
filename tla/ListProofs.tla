----------------------------- MODULE ListProofs -----------------------------
(***************************************************************************)
(* Proofs about the lists of the portals: about LiveFeed, for any queries, *)
(* bounds and cap, and about the table on the screen, ListView, for any    *)
(* pages, rows and page sizes that keep its assumptions.                   *)
(***************************************************************************)
EXTENDS LiveFeed, ListView, FiniteSetTheorems, WellFoundedInduction, TLAPS

\* The callbacks of the socket belong to the tab selected.
SameTab ==
  /\ sock \in [st : {"opening", "open", "dead", "gone"}, tab : {0, 1}] /\ tab \in {0, 1}
  /\ sock.tab = tab /\ closing \in Nat

-----------------------------------------------------------------------------
(* The socket.                                                             *)

\* Every step keeps the socket's callbacks and the live rows the tab's.
LEMMA FeedStep ==
  ASSUME SameTab, LiveSound, [Next]_allVars
  PROVE  SameTab' /\ LiveSound'
<1>0. SameTab /\ LiveSound
  OBVIOUS
<1> USE DEF SameTab, LiveSound, LiveIsHonest, LiveRowsMatchTheTab
<1>1. CASE Turn \/ FeedPoll \/ (Asks /\ UNCHANGED feedVars) \/ Broadcast \/ UNCHANGED allVars
  <2>1. UNCHANGED <<sock, closing, connected, tab, live>>
    BY <1>1 DEF Turn, FeedPoll, Broadcast, allVars, feedVars
  <2> QED BY <1>0, <2>1
<1>2. CASE SelectTab
  <2>1. /\ sock' = Opening(1 - tab) /\ tab' = 1 - tab /\ live' = {} /\ connected' = connected
        /\ closing' = IF sock.st = "gone" THEN closing ELSE closing + 1
    BY <1>2 DEF SelectTab, RunEffect
  <2> QED BY <1>0, <2>1 DEF Opening
<1>3. CASE RenewToken
  <2>1. /\ sock' = Opening(tab) /\ tab' = tab /\ live' = live /\ connected' = connected
        /\ closing' = IF sock.st = "gone" THEN closing ELSE closing + 1
    BY <1>3 DEF RenewToken, RunEffect
  <2> QED BY <1>0, <2>1 DEF Opening
<1>4. CASE Clear
  BY <1>0, <1>4 DEF Clear
<1>5. CASE Open \/ Lose \/ OnClose
  <2>1. /\ sock' \in [st : {"opening", "open", "dead", "gone"}, tab : {0, 1}]
        /\ sock'.tab = sock.tab /\ UNCHANGED <<tab, live, closing>>
        /\ sock'.st \in {"open", "dead"} \/ connected' = FALSE
    BY <1>0, <1>5 DEF Open, Lose, OnClose
  <2> QED BY <1>0, <2>1
<1>6. CASE Register
  BY <1>0, <1>6 DEF Register
<1>7. CASE Connect
  BY <1>0, <1>7 DEF Connect, Opening
<1>8. CASE LateClose
  BY <1>0, <1>8 DEF LateClose
<1>9. CASE OnMessage
  <2>1. UNCHANGED <<sock, closing, connected, tab>> /\ (live' = live \/ live' = Prepend(First(msgs)))
    BY <1>9 DEF OnMessage
  <2>2. \A l \in Prepend(First(msgs)) : l \in live \/ l.tab = sock.tab
    BY DEF Prepend
  <2> QED BY <1>0, <2>1, <2>2
<1> QED BY <1>1, <1>2, <1>3, <1>4, <1>5, <1>6, <1>7, <1>8, <1>9 DEF Next

\* The first render opens a socket for its tab.
LEMMA FeedStarts == Init => SameTab /\ LiveSound
BY DEF Init, FeedInit, Opening, SameTab, LiveSound, LiveIsHonest, LiveRowsMatchTheTab

\* "Live" is claimed only of a socket that is open or whose close event is on
\* its way, and a pushed row is shown under the tab it was judged for.
THEOREM FeedNeverLies == Spec => []LiveSound
<1>1. SameTab /\ LiveSound /\ [Next]_allVars => SameTab' /\ LiveSound'
  BY FeedStep
<1> QED BY <1>1, FeedStarts, PTL DEF Spec

-----------------------------------------------------------------------------
(* The table on the screen: paging.                                        *)

\* A set of numbers that is not empty has a least one.
LEMMA Smallest ==
  ASSUME NEW S, S \subseteq Nat, S # {}
  PROVE  \E m \in S : \A n \in S : m <= n
<1> DEFINE R == OpToRel(<, Nat)
<1>1. IsWellFoundedOn(R, Nat)
  BY NatLessThanWellFounded
<1>2. \A y \in S, x \in S : y < x => <<y, x>> \in R
  BY DEF OpToRel
<1> HIDE DEF R
<1>3. PICK x \in S : \A y \in S : ~(<<y, x>> \in R)
  BY <1>1, WFMin
<1>4. ASSUME NEW y \in S
      PROVE  x <= y
  <2>1. ~(y < x) /\ x \in Nat /\ y \in Nat
    BY <1>2, <1>3
  <2> QED BY <2>1
<1> QED BY <1>4

\* Where there are rows, some are on the first page, whatever its size.
LEMMA FirstPage ==
  ASSUME NEW rows, rows \subseteq Nat, rows # {}, NEW l \in Nat \ {0}
  PROVE  OnPage(rows, 1, l) # {}
<1>1. PICK m \in rows : \A n \in rows : m <= n
  BY Smallest
<1>2. \A s \in rows : ~(s < m)
  <2> SUFFICES ASSUME NEW s \in rows PROVE ~(s < m)
    OBVIOUS
  <2>1. m \in Nat /\ s \in Nat /\ m <= s
    BY <1>1
  <2> QED BY <2>1
<1>3. {s \in rows : s < m} = {}
  BY <1>2
<1>4. Rank(m, rows) = 0
  BY <1>3, FS_EmptySet DEF Rank
<1>5. 0 \div l = 0
  OBVIOUS
<1> QED BY <1>1, <1>4, <1>5 DEF OnPage

Screens == [filter : {"all", "odd"}, page : 1..(NumRows + 1), limit : Limits]
Slices == [data : SUBSET Rows, page : 1..(NumRows + 1), limit : Limits]

\* The part of TableTypeOK about the rows and the page of them selected.
ScreenTyped ==
  /\ p \in Pages
  /\ born \in 0..NumRows /\ srv \subseteq 1..born
  /\ screen \in Screens /\ slice \in Slices
  /\ data \subseteq Rows /\ ticked \subseteq Rows

\* Page and page size count from 1, and the number of pages is a number.
LEMMA ScreenTypes ==
  ASSUME ScreenTyped
  PROVE  /\ screen.page \in Nat \ {0} /\ screen.limit \in Limits /\ screen.limit \in Nat \ {0}
         /\ data \subseteq Nat /\ slice.limit \in Nat \ {0} /\ TotalPages \in Int
<1>1. NumRows \in Nat /\ Limits \subseteq Nat \ {0}
  BY ViewAssumption
<1>2. /\ screen.page \in 1..(NumRows + 1) /\ screen.limit \in Limits /\ slice.limit \in Limits
      /\ data \subseteq 1..NumRows
  BY DEF ScreenTyped, Screens, Slices, Rows
<1>3. screen.limit \in Nat \ {0} /\ slice.limit \in Nat \ {0}
  BY <1>1, <1>2
<1>4. \A n \in 1..(NumRows + 1) : n \in Nat \ {0}
  BY <1>1
<1>5. data \subseteq Nat
  BY <1>1, <1>2
<1>6. IsFiniteSet(1..NumRows)
  BY <1>1, FS_Interval
<1>7. Cardinality(data) \in Nat
  BY <1>2, <1>6, FS_Subset, FS_CardinalityType
<1>8. TotalPages \in Int
  BY <1>3, <1>7 DEF TotalPages
<1> QED BY <1>2, <1>3, <1>4, <1>5, <1>8

\* Rendering leaves a slice of the rows and the page rendered: both are among
\* the dependencies of every useMemo.  The size is, or is not; then a slice cut
\* by an old size is one of the first page, if a new size goes there.
LEMMA RenderEffect ==
  ASSUME ScreenTyped, SliceHoldsData, NEW d \in SUBSET Rows, NEW v \in Screens, Render(d, v),
         v.limit = screen.limit \/ v.page = 1
  PROVE  /\ screen' = v /\ data' = d
         /\ slice' \in Slices /\ slice'.data = d /\ slice'.page = v.page
         /\ slice'.limit = v.limit \/ ("limit" \notin p.table.paging.deps /\ v.page = 1)
<1> DEFINE now == [data |-> d, page |-> v.page, limit |-> v.limit]
<1>1. now \in Slices /\ now.data = d /\ now.page = v.page /\ now.limit = v.limit
  BY DEF Screens, Slices
<1>2. {"data", "page"} \subseteq p.table.paging.deps
  BY PagesAssumption DEF ScreenTyped
<1>3. screen' = v /\ data' = d /\ slice' = Memo(d, v)
  BY DEF Render
<1>4. slice' = now \/ (slice' = slice /\ \A x \in p.table.paging.deps : now[x] = slice[x])
  BY <1>3 DEF Memo
<1> HIDE DEF now
<1>5. \/ slice' = now
      \/ /\ slice' = slice /\ now.data = slice.data /\ now.page = slice.page
         /\ "limit" \in p.table.paging.deps => now.limit = slice.limit
  BY <1>2, <1>4
<1>6. slice'.limit = v.limit \/ ("limit" \notin p.table.paging.deps /\ v.page = 1)
  BY <1>1, <1>5 DEF SliceHoldsData
<1> QED BY <1>1, <1>3, <1>5, <1>6 DEF ScreenTyped

\* The bar counts pages from 1.
LEMMA BarCounts ==
  ASSUME ScreenTyped, NEW n \in Bar
  PROVE  n # 0
<1>1. screen.page \in Nat \ {0} /\ TotalPages \in Int
  BY ScreenTypes
<1>2. TotalPages > 1
  BY <1>1 DEF Bar
<1>3. CASE n \in pageItems(screen.page, TotalPages)
  BY <1>1, <1>2, <1>3 DEF pageItems
<1>4. CASE n = screen.page - 1 /\ screen.page # 1
  BY <1>1, <1>4
<1>5. CASE n = screen.page + 1
  BY <1>1, <1>5
<1> QED BY <1>2, <1>3, <1>4, <1>5 DEF Bar

\* While there are rows, those of the first page at least can be listed.
LEMMA RowsAreReachable ==
  ASSUME ScreenTyped
  PROVE  RowsReachable
<1> SUFFICES ASSUME data # {}
             PROVE  \/ \E n \in Bar : OnPage(data, n, screen.limit) # {}
                    \/ \E l \in Limits \ {screen.limit} : OnPage(data, Resized(l).page, l) # {}
  BY DEF RowsReachable
<1>1. CASE TotalPages <= 1
  <2>1. PICK l \in Limits : l # screen.limit
    BY ViewAssumption
  <2>2. Resized(l).page = 1
    BY DEF Resized, ScreenTyped, Screens
  <2>3. l \in Nat \ {0}
    BY ViewAssumption
  <2> QED BY <2>1, <2>2, <2>3, ScreenTypes, FirstPage
<1>2. CASE ~(TotalPages <= 1)
  <2>1. 1 \in pageItems(screen.page, TotalPages)
    BY <1>2, ScreenTypes DEF pageItems
  <2>2. 1 \in Bar
    BY <1>2, <2>1 DEF Bar
  <2> QED BY <2>2, ScreenTypes, FirstPage
<1> QED BY <1>1, <1>2

\* What the slice lists are rows.
LEMMA ListedTypes ==
  ASSUME ScreenTyped
  PROVE  Listed \subseteq Rows
BY DEF ScreenTyped, Slices, Listed, OnPage

\* What a filter leaves of the server's rows are rows.
LEMMA MatchingTypes ==
  ASSUME ScreenTyped, NEW x
  PROVE  Matching(srv, x) \subseteq Rows
<1>1. srv \subseteq Rows
  BY ViewAssumption DEF ScreenTyped, Rows
<1> QED BY <1>1 DEF Matching

\* A step that renders, or leaves the screen alone, keeps the slice the rows'.
LEMMA RenderKeeps ==
  ASSUME ScreenTyped, SliceHoldsData, NEW d \in SUBSET Rows, NEW v \in Screens, Render(d, v),
         v.limit = screen.limit \/ v.page = 1,
         UNCHANGED <<p, srv, born>>, ticked' \subseteq Rows
  PROVE  ScreenTyped' /\ SliceHoldsData'
<1>1. /\ screen' = v /\ data' = d
      /\ slice' \in Slices /\ slice'.data = d /\ slice'.page = v.page
      /\ slice'.limit = v.limit \/ ("limit" \notin p.table.paging.deps /\ v.page = 1)
  BY RenderEffect
<1> QED BY <1>1 DEF ScreenTyped, SliceHoldsData

\* A step that leaves the screen and the rows alone keeps the slice theirs.
LEMMA StillKeeps ==
  ASSUME ScreenTyped, SliceHoldsData, UNCHANGED <<p, srv, screen, data, slice, born>>,
         ticked' \subseteq Rows
  PROVE  ScreenTyped' /\ SliceHoldsData'
BY DEF ScreenTyped, SliceHoldsData

\* Rows added or removed on the server do not touch the screen.
LEMMA ServerKeeps ==
  ASSUME ScreenTyped, SliceHoldsData, UNCHANGED <<p, screen, data, slice, ticked>>,
         \/ Adding
         \/ srv' \subseteq srv /\ UNCHANGED born
  PROVE  ScreenTyped' /\ SliceHoldsData'
<1>1. srv \subseteq 1..born /\ born \in 0..NumRows /\ NumRows \in Nat
  BY ViewAssumption DEF ScreenTyped
<1>2. CASE Adding
  <2>1. born + 1 \in 1..NumRows /\ born' = born + 1 /\ srv' = srv \cup {born + 1}
    BY <1>2 DEF Adding, Rows
  <2>2. \A r \in srv' : r \in 1..(born + 1)
    BY <1>1, <2>1
  <2> QED BY <1>1, <2>1, <2>2 DEF ScreenTyped, SliceHoldsData
<1>3. CASE srv' \subseteq srv /\ UNCHANGED born
  BY <1>3 DEF ScreenTyped, SliceHoldsData
<1> QED BY <1>2, <1>3

\* Every control of the bar, a filter and a refetch render what they select.
LEMMA BarStep ==
  ASSUME ScreenTyped, SliceHoldsData,
         \/ \E n \in 0..(NumRows + 1) : SetPage(n)
         \/ \E l \in Limits : SetLimit(l)
         \/ \E x \in {"all", "odd"}, how \in p.table.filters : SetFilter(x, how)
         \/ Refetch
  PROVE  ScreenTyped' /\ SliceHoldsData'
<1>0. screen \in Screens /\ data \in SUBSET Rows /\ ticked \subseteq Rows
  BY DEF ScreenTyped
<1>1. ASSUME NEW n \in 0..(NumRows + 1), SetPage(n)
      PROVE  ScreenTyped' /\ SliceHoldsData'
  <2>1. n \in Bar /\ Render(data, [screen EXCEPT !.page = n]) /\ UNCHANGED <<p, srv, born, ticked>>
    BY <1>1 DEF SetPage, Rest
  <2>2. n \in 1..(NumRows + 1)
    BY <2>1, BarCounts, ViewAssumption
  <2>3. [screen EXCEPT !.page = n] \in Screens /\ [screen EXCEPT !.page = n].limit = screen.limit
    BY <1>0, <2>2 DEF Screens
  <2> QED BY <1>0, <2>1, <2>3, RenderKeeps
<1>2. ASSUME NEW l \in Limits, SetLimit(l)
      PROVE  ScreenTyped' /\ SliceHoldsData'
  <2>1. Render(data, Resized(l)) /\ UNCHANGED <<p, srv, born, ticked>>
    BY <1>2 DEF SetLimit, Rest
  <2>2. 1 \in 1..(NumRows + 1)
    BY ViewAssumption
  <2>3. Resized(l) \in Screens /\ Resized(l).page = 1
    BY <1>0, <2>2 DEF Screens, Resized
  <2> QED BY <1>0, <2>1, <2>3, RenderKeeps
<1>3. ASSUME NEW x \in {"all", "odd"}, NEW how \in p.table.filters, SetFilter(x, how)
      PROVE  ScreenTyped' /\ SliceHoldsData'
  <2> DEFINE v == [screen EXCEPT !.filter = x, !.page = IF how = "first" THEN 1 ELSE @]
  <2>1. Render(Matching(srv, x), v) /\ UNCHANGED <<p, srv, born, ticked>>
    BY <1>3 DEF SetFilter, Rest
  <2>2. 1 \in 1..(NumRows + 1)
    BY ViewAssumption
  <2>3. v \in Screens /\ v.limit = screen.limit
    BY <1>0, <2>2 DEF Screens
  <2> HIDE DEF v
  <2> QED BY <1>0, <2>1, <2>3, RenderKeeps, MatchingTypes
<1>4. CASE Refetch
  <2>1. Render(Matching(srv, screen.filter), screen) /\ UNCHANGED <<p, srv, born, ticked>>
    BY <1>4 DEF Refetch
  <2> QED BY <1>0, <2>1, RenderKeeps, MatchingTypes
<1> QED BY <1>1, <1>2, <1>3, <1>4

\* toggleSelect and toggleAll tick listed rows, and only tick.
LEMMA TickStep ==
  ASSUME ScreenTyped, SliceHoldsData,
         \/ \E r \in Rows : toggleSelect(r)
         \/ toggleAll
         \/ ClearTicks
  PROVE  ScreenTyped' /\ SliceHoldsData'
<1>0. ticked \subseteq Rows /\ Listed \subseteq Rows
  BY ListedTypes DEF ScreenTyped
<1>1. \E t \in SUBSET Rows : Ticks(t)
  BY <1>0 DEF toggleSelect, toggleAll, ClearTicks
<1>2. UNCHANGED <<p, srv, screen, data, slice, born>> /\ ticked' \subseteq Rows
  BY <1>1 DEF Ticks
<1> QED BY <1>2, StillKeeps

\* Dialogs, and a mutation started or failed, leave the screen alone.
LEMMA DialogStep ==
  ASSUME ScreenTyped, SliceHoldsData,
         \/ \E a \in p.acts : \E t \in Targets(a) : OpenDialog(a, t) \/ Press(a, t)
         \/ Cancel
         \/ SubmitDialog
         \/ \E q \in reqs : OnError(q)
  PROVE  ScreenTyped' /\ SliceHoldsData'
<1>1. UNCHANGED <<p, srv, screen, data, slice, born, ticked>>
  BY DEF OpenDialog, Press, Cancel, SubmitDialog, OnError
<1>2. ticked' \subseteq Rows
  BY <1>1 DEF ScreenTyped
<1> QED BY <1>1, <1>2, StillKeeps

\* onSuccess may go back to page 1, by rendering it.
LEMMA SuccessStep ==
  ASSUME ScreenTyped, SliceHoldsData, NEW q \in reqs, OnSuccess(q)
  PROVE  ScreenTyped' /\ SliceHoldsData'
<1> DEFINE v == IF q.act.first THEN [screen EXCEPT !.page = 1] ELSE screen
<1>1. screen \in Screens /\ data \in SUBSET Rows /\ ticked \subseteq Rows
  BY DEF ScreenTyped
<1>2. Render(data, v) /\ UNCHANGED <<p, srv, born>> /\ (ticked' = {} \/ ticked' = ticked)
  BY DEF OnSuccess
<1>3. 1 \in 1..(NumRows + 1)
  BY ViewAssumption
<1>4. v \in Screens /\ v.limit = screen.limit
  BY <1>1, <1>3 DEF Screens
<1> HIDE DEF v
<1> QED BY <1>1, <1>2, <1>4, RenderKeeps

\* A mutation carried out, or a change by others, is on the server only.
LEMMA ServerStep ==
  ASSUME ScreenTyped, SliceHoldsData, (\E q \in reqs : CarryOut(q)) \/ ByOthers
  PROVE  ScreenTyped' /\ SliceHoldsData'
<1>1. UNCHANGED <<p, screen, data, slice, ticked>>
  BY DEF CarryOut, ByOthers
<1>2. Adding \/ (srv' \subseteq srv /\ UNCHANGED born)
  BY DEF CarryOut, Effect, ByOthers
<1> QED BY <1>1, <1>2, ServerKeeps

\* Every step keeps the slice one of the rows and the page on the screen.
LEMMA ScreenStep ==
  ASSUME ScreenTyped, SliceHoldsData, [TableNext]_tableVars
  PROVE  ScreenTyped' /\ SliceHoldsData'
<1>1. CASE UNCHANGED tableVars
  <2>1. UNCHANGED <<p, srv, screen, data, slice, born>> /\ ticked' = ticked
    BY <1>1 DEF tableVars
  <2> QED BY <2>1 DEF ScreenTyped, SliceHoldsData
<1>2. CASE TableNext
  BY <1>2, BarStep, TickStep, DialogStep, SuccessStep, ServerStep DEF TableNext
<1> QED BY <1>1, <1>2

\* The first render slices the first page of the rows.
LEMMA ScreenInit == TableInit => ScreenTyped /\ SliceHoldsData
<1> SUFFICES ASSUME TableInit PROVE ScreenTyped /\ SliceHoldsData
  OBVIOUS
<1> DEFINE small == CHOOSE l \in Limits : \A m \in Limits : l <= m
<1>1. small \in Limits
  <2>1. Limits \subseteq Nat /\ Limits # {}
    BY ViewAssumption
  <2> QED BY <2>1, Smallest
<1> HIDE DEF small
<1>2. /\ p \in Pages /\ born \in {NumRows - 1, NumRows} /\ srv = 1..born
      /\ screen = [filter |-> "all", page |-> 1, limit |-> small]
      /\ data = srv /\ slice = [data |-> srv, page |-> 1, limit |-> screen.limit] /\ ticked = {}
  BY DEF TableInit, small
<1>3. born \in 0..NumRows /\ 1 \in 1..(NumRows + 1) /\ srv \subseteq Rows
  BY <1>2, ViewAssumption DEF Rows
<1>4. screen \in Screens
  BY <1>1, <1>2, <1>3 DEF Screens
<1>5. slice \in Slices
  BY <1>1, <1>2, <1>3 DEF Slices
<1> QED BY <1>2, <1>3, <1>4, <1>5 DEF ScreenTyped, SliceHoldsData

\* What the table lists is cut from the rows last fetched at the page and, but
\* for a size chosen on the first page of a table whose useMemo leaves it out,
\* by the size selected; and no fetched row is out of reach, however rows are added and
\* removed under the page, the filter and the page size selected.
THEOREM TableStaysSound == TableSpec => []TableSound
<1>1. ScreenTyped /\ SliceHoldsData /\ [TableNext]_tableVars => ScreenTyped' /\ SliceHoldsData'
  BY ScreenStep
<1>2. ScreenTyped /\ SliceHoldsData => TableSound
  BY RowsAreReachable DEF TableSound
<1> QED BY <1>1, <1>2, ScreenInit, PTL DEF TableSpec

-----------------------------------------------------------------------------
(* The table on the screen: dialogs and the mutations behind them.         *)

Dialogs == [id : 1..MaxOpens, name : Names, act : Acts, rows : SUBSET Rows]
Mutations == [id : 1..MaxOpens, act : Acts, rows : SUBSET Rows,
              stage : {"sent", "done", "partly"}, n : 1..MaxFlight]

\* The rest of TableTypeOK.
DialogsTyped ==
  /\ dlg = Closed \/ dlg \in Dialogs
  /\ reqs \subseteq Mutations
  /\ opens \in 0..MaxOpens /\ clicks \in 0..MaxClicks /\ others \in 0..MaxOthers
  /\ left \in BOOLEAN

\* The dialog and the mutations are the page's, numbered by the openings; the
\* mutations submitted from the dialog open are of its kind.
Known ==
  /\ dlg # Closed =>
       /\ dlg.act \in p.acts /\ dlg.name = dlg.act.dialog /\ dlg.name # "none"
       /\ dlg.id <= opens
       /\ \A q \in reqs : q.id = dlg.id => q.act = dlg.act
  /\ \A q \in reqs : q.act \in p.acts /\ q.id <= opens

\* A button disabled while its mutation is pending starts one at a time.
OneAtATime ==
  \A q, r \in reqs : q.act.guard = r.act.guard /\ q.act.once /\ r.act.once => q = r

\* While no dialog was left, a mutation that would close the dialog of
\* another is in flight only under the dialog it was submitted from.
StillOpen ==
  ~left => \A q \in reqs : Strays(q.act, p.acts) => dlg # Closed /\ dlg.id = q.id

DialogsSound == Known /\ OneAtATime /\ StillOpen

\* A dialog or a button is about listed rows, ticked rows or none.
LEMMA TargetTypes ==
  ASSUME ScreenTyped, NEW a, NEW t \in Targets(a)
  PROVE  t \in SUBSET Rows
<1>1. Listed \subseteq Rows /\ ticked \subseteq Rows
  BY ListedTypes DEF ScreenTyped
<1>2. t = {} \/ t = ticked \/ \E r \in Listed : t = {r}
  BY DEF Targets
<1> QED BY <1>1, <1>2

\* An action of the page is one of the tables', as is the name of its dialog.
LEMMA ActTypes ==
  ASSUME ScreenTyped, NEW a \in p.acts
  PROVE  a \in Acts /\ a.dialog \in Names
BY DEF ScreenTyped, Acts, Names

\* A mutation started joins those in flight.
LEMMA RequestEffect ==
  ASSUME NEW id \in 1..MaxOpens, NEW a \in Acts, NEW t \in SUBSET Rows, Request(id, a, t)
  PROVE  \E q \in Mutations : reqs' = reqs \cup {q} /\ q.id = id /\ q.act = a
<1>1. PICK n \in 1..MaxFlight :
        reqs' = reqs \cup {[id |-> id, act |-> a, rows |-> t, stage |-> "sent", n |-> n]}
  BY DEF Request
<1> DEFINE q == [id |-> id, act |-> a, rows |-> t, stage |-> "sent", n |-> n]
<1>2. q \in Mutations /\ q.id = id /\ q.act = a
  BY DEF Mutations
<1> QED BY <1>1, <1>2

\* A dialog opens over none, under a number no mutation has.
LEMMA OpenStep ==
  ASSUME ScreenTyped, DialogsTyped, DialogsSound, NEW a \in p.acts, NEW t \in Targets(a),
         OpenDialog(a, t)
  PROVE  DialogsTyped' /\ DialogsSound'
<1>1. a.dialog # "none" /\ dlg = Closed /\ opens < MaxOpens /\ opens' = opens + 1
  BY DEF OpenDialog
<1>2. dlg' = [id |-> opens + 1, name |-> a.dialog, act |-> a, rows |-> t]
  BY DEF OpenDialog
<1>3. UNCHANGED <<p, reqs, clicks, others, left>>
  BY DEF OpenDialog
<1>4. opens + 1 \in 1..MaxOpens /\ opens \in Nat /\ opens' \in 0..MaxOpens
  BY <1>1, ViewAssumption DEF DialogsTyped
<1>5. \A q \in reqs : q.act \in p.acts /\ q.id <= opens /\ q.id \in Nat
  <2>1. \A q \in reqs : q.id \in 1..MaxOpens
    BY DEF DialogsTyped, Mutations
  <2> QED BY <2>1, ViewAssumption DEF DialogsSound, Known
<1>6. DialogsTyped'
  <2>1. dlg' \in Dialogs
    BY <1>2, <1>4, TargetTypes, ActTypes DEF Dialogs
  <2> QED BY <1>3, <1>4, <2>1 DEF DialogsTyped
<1>7. \A q \in reqs : q.id # opens + 1 /\ q.id <= opens + 1
  BY <1>4, <1>5
<1>8. Known'
  <2>1. dlg'.act = a /\ dlg'.name = a.dialog /\ dlg'.id = opens + 1
    BY <1>2
  <2>2. opens + 1 <= opens'
    BY <1>1, <1>4
  <2> QED BY <1>1, <1>3, <1>5, <1>7, <2>1, <2>2 DEF Known
<1>9. OneAtATime' /\ StillOpen'
  BY <1>1, <1>3 DEF DialogsSound, OneAtATime, StillOpen
<1> QED BY <1>6, <1>8, <1>9 DEF DialogsSound

\* A dialog left while its mutation is in flight is remembered in left.
LEMMA CancelStep ==
  ASSUME DialogsTyped, DialogsSound, Cancel
  PROVE  DialogsTyped' /\ DialogsSound'
<1>1. /\ dlg # Closed /\ dlg' = Closed /\ UNCHANGED <<p, reqs, opens, clicks, others>>
      /\ left' = (left \/ \E q \in reqs : q.id = dlg.id)
  BY DEF Cancel
<1>2. DialogsTyped'
  BY <1>1 DEF DialogsTyped
<1>3. Known' /\ OneAtATime'
  BY <1>1 DEF DialogsSound, Known, OneAtATime
<1>4. StillOpen'
  BY <1>1 DEF DialogsSound, StillOpen
<1> QED BY <1>2, <1>3, <1>4 DEF DialogsSound

\* A submit button starts a mutation under the dialog open.
LEMMA SubmitStep ==
  ASSUME DialogsTyped, DialogsSound, SubmitDialog
  PROVE  DialogsTyped' /\ DialogsSound'
<1>1. /\ dlg # Closed /\ UNCHANGED <<p, dlg, opens, clicks, others, left>>
      /\ dlg.act.once => ~Busy(dlg.act)
      /\ Request(dlg.id, dlg.act, dlg.rows)
  BY DEF SubmitDialog
<1>2. dlg \in Dialogs
  BY <1>1 DEF DialogsTyped
<1>3. PICK q \in Mutations : reqs' = reqs \cup {q} /\ q.id = dlg.id /\ q.act = dlg.act
  BY <1>1, <1>2, RequestEffect DEF Dialogs
<1>4. DialogsTyped'
  BY <1>1, <1>3 DEF DialogsTyped
<1>5. Known'
  BY <1>1, <1>3 DEF DialogsSound, Known
<1>6. OneAtATime'
  <2>1. q.act.once => \A r \in reqs : r.act.guard # q.act.guard
    BY <1>1, <1>3 DEF Busy
  <2> QED BY <1>3, <2>1 DEF DialogsSound, OneAtATime
<1>7. StillOpen'
  BY <1>1, <1>3 DEF DialogsSound, StillOpen
<1> QED BY <1>4, <1>5, <1>6, <1>7 DEF DialogsSound

\* A button of a row starts a mutation that closes no dialog of another.
LEMMA PressStep ==
  ASSUME ScreenTyped, DialogsTyped, DialogsSound, NEW a \in p.acts, NEW t \in Targets(a),
         Press(a, t)
  PROVE  DialogsTyped' /\ DialogsSound'
<1>1. /\ a.dialog = "none" /\ dlg = Closed /\ opens < MaxOpens /\ opens' = opens + 1
      /\ UNCHANGED <<p, dlg, clicks, others, left>>
      /\ a.once => ~Busy(a)
      /\ Request(opens + 1, a, t)
  BY DEF Press
<1>2. opens + 1 \in 1..MaxOpens /\ opens \in Nat /\ opens' \in 0..MaxOpens
  BY <1>1, ViewAssumption DEF DialogsTyped
<1>3. PICK q \in Mutations : reqs' = reqs \cup {q} /\ q.id = opens + 1 /\ q.act = a
  BY <1>1, <1>2, RequestEffect, TargetTypes, ActTypes
<1>4. DialogsTyped'
  BY <1>1, <1>2, <1>3 DEF DialogsTyped
<1>5. Known'
  <2>1. \A r \in reqs : r.act \in p.acts /\ r.id <= opens /\ r.id \in Nat
    <3>1. \A r \in reqs : r.id \in 1..MaxOpens
      BY DEF DialogsTyped, Mutations
    <3> QED BY <3>1, ViewAssumption DEF DialogsSound, Known
  <2>2. \A r \in reqs : r.id <= opens'
    BY <1>1, <1>2, <2>1
  <2>3. q.id <= opens'
    BY <1>1, <1>2, <1>3
  <2> QED BY <1>1, <1>3, <2>1, <2>2, <2>3 DEF Known
<1>6. OneAtATime'
  <2>1. q.act.once => \A r \in reqs : r.act.guard # q.act.guard
    BY <1>1, <1>3 DEF Busy
  <2> QED BY <1>3, <2>1 DEF DialogsSound, OneAtATime
<1>7. ~Strays(a, p.acts)
  BY <1>1, PagesAssumption DEF ScreenTyped
<1>8. StillOpen'
  BY <1>1, <1>3, <1>7 DEF DialogsSound, StillOpen
<1> QED BY <1>4, <1>5, <1>6, <1>8 DEF DialogsSound

\* Carrying a mutation out changes its stage only.
LEMMA CarryOutStep ==
  ASSUME DialogsTyped, DialogsSound, NEW q \in reqs, CarryOut(q)
  PROVE  DialogsTyped' /\ DialogsSound'
<1>1. UNCHANGED <<p, dlg, opens, clicks, others, left>>
  BY DEF CarryOut
<1>2. PICK r \in Mutations : reqs' = (reqs \ {q}) \cup {r} /\ r.id = q.id /\ r.act = q.act
  <2>1. PICK st \in {"done", "partly"} : reqs' = (reqs \ {q}) \cup {[q EXCEPT !.stage = st]}
    BY DEF CarryOut
  <2>2. q \in Mutations
    BY DEF DialogsTyped
  <2>3. [q EXCEPT !.stage = st] \in Mutations
    BY <2>2 DEF Mutations
  <2>4. [q EXCEPT !.stage = st].id = q.id /\ [q EXCEPT !.stage = st].act = q.act
    BY <2>2 DEF Mutations
  <2> QED BY <2>1, <2>3, <2>4
<1>3. DialogsTyped'
  BY <1>1, <1>2 DEF DialogsTyped
<1>4. Known'
  BY <1>1, <1>2 DEF DialogsSound, Known
<1>5. OneAtATime'
  BY <1>2 DEF DialogsSound, OneAtATime
<1>6. StillOpen'
  BY <1>1, <1>2 DEF DialogsSound, StillOpen
<1> QED BY <1>3, <1>4, <1>5, <1>6 DEF DialogsSound

\* The dialog a success closes is the one it was submitted from, or one of
\* the same mutation.
LEMMA ClosesItsOwn ==
  ASSUME DialogsSound, NEW q \in reqs, dlg # Closed, dlg.name \in q.act.closes, ~left
  PROVE  q.id = dlg.id \/ q.act.guard = dlg.act.guard
<1>1. dlg.act \in p.acts /\ dlg.act.dialog = dlg.name /\ dlg.name # "none"
  BY DEF DialogsSound, Known
<1>2. q.act.guard # dlg.act.guard => Strays(q.act, p.acts)
  BY <1>1 DEF Strays
<1> QED BY <1>2 DEF DialogsSound, StillOpen

\* A success that closes a dialog leaves no mutation that needs it open.
LEMMA OnSuccessStep ==
  ASSUME ScreenTyped, DialogsTyped, DialogsSound, NEW q \in reqs, OnSuccess(q)
  PROVE  DialogsTyped' /\ DialogsSound'
<1>1. /\ reqs' = reqs \ {q} /\ UNCHANGED <<p, opens, clicks, others, left>>
      /\ dlg' = IF dlg.name \in q.act.closes THEN Closed ELSE dlg
  BY DEF OnSuccess
<1>2. DialogsTyped'
  BY <1>1 DEF DialogsTyped
<1>3. Known' /\ OneAtATime'
  BY <1>1 DEF DialogsSound, Known, OneAtATime
<1>4. StillOpen'
  <2> SUFFICES ASSUME ~left, NEW r \in reqs \ {q}, Strays(r.act, p.acts)
               PROVE  dlg' # Closed /\ dlg'.id = r.id
    BY <1>1 DEF StillOpen
  <2>1. dlg # Closed /\ dlg.id = r.id
    BY DEF DialogsSound, StillOpen
  <2>2. r.act = dlg.act /\ r.act \in p.acts /\ q.act \in p.acts
    BY <2>1 DEF DialogsSound, Known
  <2>3. ASSUME dlg.name \in q.act.closes
        PROVE  FALSE
    <3>1. q.id = dlg.id \/ q.act.guard = r.act.guard
      BY <2>1, <2>2, <2>3, ClosesItsOwn
    <3>2. q.act.guard = r.act.guard
      BY <2>1, <2>2, <3>1 DEF DialogsSound, Known
    <3>3. q.act.once /\ r.act.once
      BY <2>2, <3>2, PagesAssumption DEF ScreenTyped
    <3> QED BY <3>2, <3>3 DEF DialogsSound, OneAtATime
  <2> QED BY <1>1, <2>1, <2>3
<1> QED BY <1>2, <1>3, <1>4 DEF DialogsSound

\* A failed mutation leaves the dialog open.
LEMMA OnErrorStep ==
  ASSUME DialogsTyped, DialogsSound, NEW q \in reqs, OnError(q)
  PROVE  DialogsTyped' /\ DialogsSound'
<1>1. reqs' = reqs \ {q} /\ UNCHANGED <<p, dlg, opens, clicks, others, left>>
  BY DEF OnError
<1> QED BY <1>1 DEF DialogsTyped, DialogsSound, Known, OneAtATime, StillOpen

\* Steps that touch neither the dialog nor the mutations.
LEMMA ElsewhereStep ==
  ASSUME DialogsTyped, DialogsSound, UNCHANGED <<p, dlg, reqs, opens, left>>,
         clicks' \in 0..MaxClicks, others' \in 0..MaxOthers
  PROVE  DialogsTyped' /\ DialogsSound'
BY DEF DialogsTyped, DialogsSound, Known, OneAtATime, StillOpen

\* Every step keeps dialogs and mutations typed and tied to each other.
LEMMA DialogsStep ==
  ASSUME ScreenTyped, DialogsTyped, DialogsSound, [TableNext]_tableVars
  PROVE  DialogsTyped' /\ DialogsSound'
<1>0. clicks \in 0..MaxClicks /\ others \in 0..MaxOthers
  BY DEF DialogsTyped
<1>1. CASE UNCHANGED tableVars
  <2>1. UNCHANGED <<p, dlg, reqs, opens, left, clicks, others>>
    BY <1>1 DEF tableVars
  <2> QED BY <1>0, <2>1, ElsewhereStep
<1>2. ASSUME Click, UNCHANGED <<p, dlg, reqs, opens, others, left>>
      PROVE  DialogsTyped' /\ DialogsSound'
  <2>1. clicks' \in 0..MaxClicks
    BY <1>0, <1>2, ViewAssumption DEF Click
  <2> QED BY <1>0, <1>2, <2>1, ElsewhereStep
<1>3. CASE \/ \E n \in 0..(NumRows + 1) : SetPage(n)
           \/ \E l \in Limits : SetLimit(l)
           \/ \E x \in {"all", "odd"}, how \in p.table.filters : SetFilter(x, how)
  <2>1. Click /\ UNCHANGED <<p, dlg, reqs, opens, others, left>>
    BY <1>3 DEF SetPage, SetLimit, SetFilter, Rest
  <2> QED BY <1>2, <2>1
<1>4. CASE (\E r \in Rows : toggleSelect(r)) \/ toggleAll \/ ClearTicks
  <2>1. Click /\ UNCHANGED <<p, dlg, reqs, opens, others, left>>
    BY <1>4 DEF toggleSelect, toggleAll, ClearTicks, Ticks
  <2> QED BY <1>2, <2>1
<1>5. CASE Refetch
  BY <1>0, <1>5, ElsewhereStep DEF Refetch
<1>6. CASE ByOthers
  <2>1. others < MaxOthers /\ others' = others + 1 /\ UNCHANGED <<p, dlg, reqs, opens, clicks, left>>
    BY <1>6 DEF ByOthers
  <2>2. others' \in 0..MaxOthers
    BY <1>0, <2>1, ViewAssumption
  <2> QED BY <1>0, <2>1, <2>2, ElsewhereStep
<1>7. ASSUME NEW a \in p.acts, NEW t \in Targets(a), OpenDialog(a, t) \/ Press(a, t)
      PROVE  DialogsTyped' /\ DialogsSound'
  BY <1>7, OpenStep, PressStep
<1>8. CASE Cancel \/ SubmitDialog
  BY <1>8, CancelStep, SubmitStep
<1>9. ASSUME NEW q \in reqs, CarryOut(q) \/ OnSuccess(q) \/ OnError(q)
      PROVE  DialogsTyped' /\ DialogsSound'
  BY <1>9, CarryOutStep, OnSuccessStep, OnErrorStep
<1> QED BY <1>1, <1>3, <1>4, <1>5, <1>6, <1>7, <1>8, <1>9 DEF TableNext

\* At first no dialog is open and nothing is in flight.
LEMMA DialogsInit == TableInit => DialogsTyped /\ DialogsSound
<1> SUFFICES ASSUME TableInit PROVE DialogsTyped /\ DialogsSound
  OBVIOUS
<1>1. dlg = Closed /\ reqs = {} /\ opens = 0 /\ clicks = 0 /\ others = 0 /\ left = FALSE
  BY DEF TableInit
<1>2. DialogsTyped
  <2>1. 0 \in 0..MaxOpens /\ 0 \in 0..MaxClicks /\ 0 \in 0..MaxOthers
    BY ViewAssumption
  <2> QED BY <1>1, <2>1 DEF DialogsTyped
<1>3. DialogsSound
  BY <1>1 DEF DialogsSound, Known, OneAtATime, StillOpen
<1> QED BY <1>2, <1>3

\* Every variable of a table holds a value of its kind: a dialog names an
\* action of the pages, and rows on the screen are rows that were created.
THEOREM TableTypeCorrect == TableSpec => []TableTypeOK
<1>1. ScreenTyped /\ SliceHoldsData /\ [TableNext]_tableVars => ScreenTyped' /\ SliceHoldsData'
  BY ScreenStep
<1>2. ScreenTyped /\ DialogsTyped /\ DialogsSound /\ [TableNext]_tableVars
        => DialogsTyped' /\ DialogsSound'
  BY DialogsStep
<1>3. ScreenTyped /\ DialogsTyped => TableTypeOK
  BY DEF ScreenTyped, DialogsTyped, TableTypeOK, Screens, Slices, Dialogs, Mutations
<1> QED BY <1>1, <1>2, <1>3, ScreenInit, DialogsInit, PTL DEF TableSpec

\* The only step that both ends a mutation and closes a dialog is a success.
LEMMA ClosingStep ==
  ASSUME DialogsSound, [TableNext]_tableVars, dlg # Closed, dlg' # dlg, reqs' # reqs, ~left
  PROVE  \E q \in reqs \ reqs' : q.id = dlg.id \/ q.act.guard = dlg.act.guard
<1>1. PICK q \in reqs : OnSuccess(q)
  <2>1. ~UNCHANGED dlg /\ ~UNCHANGED reqs
    OBVIOUS
  <2> QED BY <2>1 DEF TableNext, tableVars, SetPage, SetLimit, SetFilter, Rest, Refetch,
                      toggleSelect, toggleAll, ClearTicks, Ticks, OpenDialog, Press, Cancel,
                      SubmitDialog, CarryOut, OnError, ByOthers
<1>2. reqs' = reqs \ {q} /\ dlg' = IF dlg.name \in q.act.closes THEN Closed ELSE dlg
  BY <1>1 DEF OnSuccess
<1>3. dlg.name \in q.act.closes /\ q \in reqs \ reqs'
  BY <1>2
<1> QED BY <1>3, ClosesItsOwn

\* A mutation that succeeds late closes the dialog it was submitted from, or
\* one for the same mutation, and no other: a draft opened meanwhile survives,
\* unless a dialog was left while it was saving.
THEOREM DraftsSurvive == TableSpec => KeepsDrafts
<1> DEFINE Own == dlg # Closed /\ dlg' # dlg /\ reqs' # reqs /\ ~left =>
             \E q \in reqs \ reqs' : q.id = dlg.id \/ q.act.guard = dlg.act.guard
<1>1. ScreenTyped /\ SliceHoldsData /\ [TableNext]_tableVars => ScreenTyped' /\ SliceHoldsData'
  BY ScreenStep
<1>2. ScreenTyped /\ DialogsTyped /\ DialogsSound /\ [TableNext]_tableVars
        => DialogsTyped' /\ DialogsSound'
  BY DialogsStep
<1>3. DialogsSound /\ [TableNext]_tableVars => [Own]_tableVars
  BY ClosingStep
<1> QED BY <1>1, <1>2, <1>3, ScreenInit, DialogsInit, PTL DEF TableSpec, KeepsDrafts

=============================================================================
