----------------------------- MODULE MCListView -----------------------------
EXTENDS ListView, CompanyPages, ConsolePages

Act(d, s) ==
  [dialog |-> d.dialog, on |-> d.on, once |-> d.once, leave |-> d.leave, guard |-> d.guard,
   effect |-> s.effect, closes |-> s.closes, unticks |-> s.unticks,
   first |-> s.first, each |-> s.each]

Facts(page) ==
  [table |-> [paging |-> page.table.paging, ticks |-> page.table.ticks,
              filters |-> {page.table.filters[c] : c \in DOMAIN page.table.filters}],
   acts |-> {Act(d, page.saves[d.op]) : d \in page.dialogs}]

MCPages == {Facts(page) : page \in CompanyPages \cup ConsolePages}

=============================================================================
