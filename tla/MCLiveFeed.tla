---------------------------- MODULE MCLiveFeed ----------------------------
EXTENDS LiveFeed, CompanyPages, ConsolePages

\* Queries that show what a mutation of their page changes and are neither
\* invalidated by it nor polled: their rows are old until the page is opened
\* again (README, "Where the passing runs stop").
NotRefreshed == {"departments", "all-employees-assign", "revenue-analytics"}

MCPages == CompanyPages \cup ConsolePages

\* For each mutation that changes what q shows: does it invalidate q, also
\* when it fails.
Acts(page, q) ==
  LET saves == {page.saves[op] : op \in DOMAIN page.saves}
  IN  {[refreshes |-> q.root \in s.refreshes, settles |-> q.root \in s.refreshes /\ s.settles] :
         s \in {t \in saves : q.root \in t.changes}}

\* A page size that is in the request and in the key acts as a filter does;
\* a list with a socket is checked without it.
Sizeless(q) ==
  IF q.feed # "none" /\ "limit" \in q.key
    THEN [q EXCEPT !.key = @ \ {"limit"}, !.asks = @ \ {"limit"}] ELSE q

Facts(page) ==
  {[q |-> [Sizeless(q) EXCEPT !.root = "any"], acts |-> Acts(page, q)] :
     q \in {r \in page.queries : r.root \notin NotRefreshed}}

MCQueries == UNION {Facts(page) : page \in MCPages}

=============================================================================
