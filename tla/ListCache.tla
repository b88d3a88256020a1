----------------------------- MODULE ListCache -----------------------------
(***************************************************************************)
(* One query of one dashboard page and the cache behind it: the keys the   *)
(* view goes through, the requests in flight, the mutations of the page    *)
(* and their invalidations, the poll, the rows on the screen.  Which query *)
(* it is, is chosen at the start from the page tables; the cache itself is *)
(* @tanstack/react-query, modelled as the pages use it.  LiveFeed adds the *)
(* WebSocket some pages have and gives the specification.                  *)
(*                                                                         *)
(* Rows are abstracted to the version of the server they were read at.     *)
(***************************************************************************)
EXTENDS Naturals, FiniteSets

CONSTANTS
  Queries,     \* facts of the queries: [q, acts], see MCLiveFeed
  MaxChanges,  \* bound: changes of the server's rows, by anyone
  MaxMoves     \* bound: changes of the view, saves, upsets of the socket

ASSUME BoundsAssumption == MaxChanges \in Nat /\ MaxMoves \in Nat

Parts == {"filter", "page", "limit"}
Views == [Parts -> {0, 1}]

ASSUME QueryAssumption == \A x \in Queries : x.q.asks \subseteq Parts /\ x.q.key \subseteq Parts

None == [none |-> TRUE]

VARIABLES
  f,         \* the facts: f.q the query, f.acts its refreshing behaviours
  ver,       \* version of the rows on the server
  view,      \* filter, page and rows per page selected
  cache,     \* key -> answer held, with its "invalidated" mark
  flight,    \* requests in flight: [key, ver]
  prev,      \* the answer on the screen when the key last changed
  save,      \* the mutation in flight
  acked,     \* version the page was told of by a successful mutation
  overtaken, \* keys whose request was in flight, off screen, at an invalidation
  failed,    \* keys whose last request was given up
  moves

list == <<f, ver, view, cache, flight, prev, save, acked, overtaken, failed>>
vars == <<list, moves>>

\* What is bounded by MaxMoves.
Upset == moves < MaxMoves /\ moves' = moves + 1

Key(v) == [x \in f.q.key |-> v[x]]
Keys == {Key(v) : v \in Views}
Here == Key(view)
InFlight(k) == \E r \in flight : r.key = k
Unanswered == MaxChanges + 1

\* What the table renders: the key's own answer, else the rows kept from the
\* key before it.
Placeholder == cache[Here] = None /\ f.q.keep /\ InFlight(Here)
Shown == IF Placeholder THEN prev ELSE cache[Here]

\* A request for view v.  A query cancels the request it supersedes; a loader
\* does not.
Asking(v, fl) ==
  (IF f.q.loader THEN fl ELSE {r \in fl : r.key # Key(v)})
    \cup {[key |-> Key(v), ver |-> Unanswered]}

CacheInit ==
  /\ f \in Queries
  /\ ver = 0
  /\ view = [x \in Parts |-> 0]
  /\ cache = [k \in Keys |-> None]
  /\ flight = Asking(view, {})
  /\ prev = None
  /\ save = None
  /\ acked = 0
  /\ overtaken = {} /\ failed = {}
  /\ moves = 0

-----------------------------------------------------------------------------
(* The view.  A key that is not cached or is invalidated is fetched; one   *)
(* that is cached is fetched again if its staleTime has run out.  A filter *)
(* or a page size may take the view to its first page, 0.                  *)

Move(v) ==
  /\ Upset
  /\ \E x \in f.q.asks :
       \/ v = [view EXCEPT ![x] = 1 - @]
       \/ v = [view EXCEPT ![x] = 1 - @, !["page"] = 0]
  /\ view' = v
  /\ IF Key(v) = Here
       THEN UNCHANGED <<flight, prev>>
       ELSE /\ prev' = IF f.q.keep /\ Shown # None THEN Shown ELSE prev
            /\ \/ flight' = IF InFlight(Key(v)) THEN flight ELSE Asking(v, flight)
               \/ /\ cache[Key(v)] # None /\ ~cache[Key(v)].stale
                  /\ UNCHANGED flight
  /\ UNCHANGED <<f, ver, cache, save, acked, overtaken, failed>>

\* A plausible mistake: the interval is not armed again after the first change.
PollOnce ==
  /\ f.q.poll
  /\ ver = 0
  /\ ~InFlight(Here)
  /\ flight' = Asking(view, flight)
  /\ UNCHANGED <<f, ver, view, cache, prev, save, acked, overtaken, failed, moves>>

\* refetchInterval of the query on screen, or the setInterval of a loader.
Poll ==
  /\ f.q.poll
  /\ IF f.q.loader THEN Cardinality(flight) < 2 ELSE ~InFlight(Here)
  /\ flight' = Asking(view, flight)
  /\ UNCHANGED <<f, ver, view, cache, prev, save, acked, overtaken, failed, moves>>

-----------------------------------------------------------------------------
(* Requests: answered by the server, then landed in the cache.  A query's  *)
(* request that fails is sent again once (retry: 1), and is in flight all  *)
(* the while: the retry's answer is a later one.                           *)

Serve(r) ==
  /\ r.ver = Unanswered
  /\ flight' = (flight \ {r}) \cup {[r EXCEPT !.ver = ver]}
  /\ UNCHANGED <<f, ver, view, cache, prev, save, acked, overtaken, failed, moves>>

Land(r) ==
  /\ r.ver # Unanswered
  /\ flight' = flight \ {r}
  /\ cache' = [cache EXCEPT ![r.key] =
                 [ver |-> r.ver, stale |-> FALSE]]
  /\ failed' = failed \ {r.key}
  /\ UNCHANGED <<f, ver, view, prev, save, acked, overtaken, moves>>

\* The retry fails too, or the one request of a loader: the rows held, and
\* the mark on them, stay as they are.
GiveUp(r) ==
  /\ Upset
  /\ flight' = flight \ {r}
  /\ failed' = failed \cup {r.key}
  /\ UNCHANGED <<f, ver, view, cache, prev, save, acked, overtaken>>

-----------------------------------------------------------------------------
(* The page's mutations.  onSuccess invalidates the roots it names: every  *)
(* cached key of the root is marked and the one on screen is fetched anew; *)
(* a request in flight for a key off screen is left alone.  onError shows  *)
(* a message and refreshes nothing.                                        *)

Submit ==
  /\ save = None
  /\ ver < MaxChanges
  /\ Upset
  /\ \E a \in f.acts : save' = [act |-> a, ver |-> Unanswered]
  /\ UNCHANGED <<f, ver, view, cache, flight, prev, acked, overtaken, failed>>

Apply ==
  /\ save # None
  /\ save.ver = Unanswered
  /\ ver < MaxChanges
  /\ ver' = ver + 1
  /\ save' = [save EXCEPT !.ver = ver + 1]
  /\ UNCHANGED <<f, view, cache, flight, prev, acked, overtaken, failed, moves>>


Invalidate ==
  /\ cache' = [k \in DOMAIN cache |->
                 IF cache[k] = None THEN None ELSE [cache[k] EXCEPT !.stale = TRUE]]
  /\ flight' = Asking(view, flight)
  /\ overtaken' = overtaken \cup {r.key : r \in {s \in flight : s.key # Here}}

Succeed ==
  /\ save # None
  /\ save.ver # Unanswered
  /\ acked' = save.ver
  /\ save' = None
  /\ IF save.act.refreshes THEN Invalidate ELSE UNCHANGED <<cache, flight, overtaken>>
  /\ UNCHANGED <<f, ver, view, prev, failed, moves>>

\* Refused, or done and the answer lost.  Only onSettled refreshes then.
Fail ==
  /\ save # None
  /\ save' = None
  /\ IF save.act.settles THEN Invalidate ELSE UNCHANGED <<cache, flight, overtaken>>
  /\ UNCHANGED <<f, ver, view, prev, acked, failed, moves>>

\* Another administrator, a device or the server itself.
Elsewhere ==
  /\ ver < MaxChanges
  /\ ver' = ver + 1
  /\ UNCHANGED <<f, view, cache, flight, prev, save, acked, overtaken, failed, moves>>

Answering == \E r \in flight : r.key = Here /\ Serve(r)
Landing == \E r \in flight : r.key = Here /\ Land(r)

\* What the page does about its query, whatever makes it do so.
Asks == (\E r \in flight : Serve(r) \/ Land(r) \/ GiveUp(r)) \/ Submit \/ Apply \/ Succeed \/ Fail

-----------------------------------------------------------------------------

Answers == [ver : 0..MaxChanges, stale : BOOLEAN]

\* Every variable holds a value of its kind.
TypeOK ==
  /\ f \in Queries
  /\ ver \in 0..MaxChanges /\ acked \in 0..MaxChanges /\ moves \in 0..MaxMoves
  /\ view \in Views
  /\ cache \in [Keys -> Answers \cup {None}]
  /\ flight \subseteq [key : Keys, ver : 0..Unanswered]
  /\ prev \in Answers \cup {None}
  /\ save \in [act : f.acts, ver : 0..Unanswered] \cup {None}
  /\ overtaken \subseteq Keys /\ failed \subseteq Keys


=============================================================================
