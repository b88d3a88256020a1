------------------------------ MODULE LiveFeed ------------------------------
(***************************************************************************)
(* The WebSocket beside a list: the effect that opens it, its callbacks,   *)
(* the flag that slows or stops the poll, and the hub that serves it       *)
(* (admin-api handlers/websocket.go).  A list without a feed is ListCache  *)
(* with the feed variables at rest.                                        *)
(*                                                                         *)
(* Event n is the change that made the server's version n; it is told to   *)
(* the sockets registered with the hub at that moment.                     *)
(***************************************************************************)
EXTENDS ListCache

CONSTANT
  LiveCap  \* rows kept in front of the list (50, in the bell 20)

ASSUME FeedAssumption == LiveCap \in Nat \ {0}

VARIABLES
  sock,       \* the effect's socket: [st, tab], tab the filter its callbacks saw
  hub,        \* the hub has it registered
  msgs,       \* events on their way to it
  closing,    \* sockets the effect closed whose onclose has not run
  connected,  \* the wsConnected flag
  tab,        \* the filter tab selected
  live        \* rows put in front of the list: [n, tab]

feedVars == <<sock, hub, msgs, closing, connected, tab, live>>
allVars == <<vars, feedVars>>

Feeds == f.q.feed # "none"
Opening(t) == [st |-> "opening", tab |-> t]

FeedInit ==
  /\ sock = IF Feeds THEN Opening(0) ELSE [st |-> "gone", tab |-> 0]
  /\ hub = FALSE /\ msgs = {} /\ closing = 0 /\ connected = FALSE
  /\ tab = 0 /\ live = {}

-----------------------------------------------------------------------------
(* The socket's life.                                                      *)

\* Upgrade is answered before Register, so onopen and the registration come
\* in either order.
Open ==
  /\ sock.st = "opening" /\ Feeds
  /\ sock' = [sock EXCEPT !.st = "open"]
  /\ connected' = TRUE
  /\ UNCHANGED <<vars, hub, msgs, closing, tab, live>>

Register ==
  /\ sock.st \in {"opening", "open"} /\ ~hub /\ Feeds
  /\ hub' = TRUE
  /\ UNCHANGED <<vars, sock, msgs, closing, connected, tab, live>>

\* The server restarts, the network goes, or the client's buffer of 256
\* messages is full and the hub unregisters it; the browser knows later.
Lose ==
  /\ sock.st \in {"opening", "open"} /\ Feeds
  /\ Upset
  /\ sock' = [sock EXCEPT !.st = "dead"]
  /\ hub' = FALSE /\ msgs' = {}
  /\ UNCHANGED <<list, closing, connected, tab, live>>

\* A plausible mistake: only the retry, the flag is left.
OnCloseRetries ==
  /\ sock.st = "dead"
  /\ sock' = [sock EXCEPT !.st = "gone"]
  /\ UNCHANGED <<vars, hub, msgs, closing, connected, tab, live>>

\* onclose (onerror closes): the flag goes down, a retry is 5 s away.
OnClose ==
  /\ sock.st = "dead"
  /\ sock' = [sock EXCEPT !.st = "gone"]
  /\ connected' = FALSE
  /\ UNCHANGED <<vars, hub, msgs, closing, tab, live>>

\* The timer: connect, with the token and filters the effect was run with.
Connect ==
  /\ sock.st = "gone" /\ Feeds
  /\ sock' = Opening(sock.tab)
  /\ UNCHANGED <<vars, hub, msgs, closing, connected, tab, live>>

\* The cleanup closes the socket and the effect runs anew.  The old socket's
\* onclose is still to come; with no socket open the cancelled timer connects
\* to nothing.
RunEffect(t) ==
  /\ closing' = IF sock.st = "gone" THEN closing ELSE closing + 1
  /\ sock' = Opening(t)
  /\ hub' = FALSE /\ msgs' = {}

\* A new access token in the session.
RenewToken ==
  /\ Feeds
  /\ Upset
  /\ RunEffect(tab)
  /\ UNCHANGED <<list, connected, tab, live>>

\* onclose of a socket the effect has closed: no retry, but the flag goes
\* down, whatever the new socket has done since.
LateClose ==
  /\ closing > 0
  /\ closing' = closing - 1
  /\ connected' = FALSE
  /\ UNCHANGED <<vars, sock, hub, msgs, tab, live>>

-----------------------------------------------------------------------------
(* Messages.                                                               *)

\* BroadcastActivityEvent, SendToEmployee
Broadcast ==
  /\ Elsewhere
  /\ msgs' = IF hub THEN msgs \cup {ver'} ELSE msgs
  /\ UNCHANGED <<sock, hub, closing, connected, tab, live>>

First(s) == CHOOSE n \in s : \A k \in s : n <= k

\* A plausible mistake: the rows in front are not cut.
PrependAll(n) == live \cup {[n |-> n, tab |-> sock.tab]}

\* setLiveEvents(prev => [ev, ...prev].slice(0, 50))
Prepend(n) ==
  LET all == live \cup {[n |-> n, tab |-> sock.tab]}
  IN  {l \in all : Cardinality({k \in all : k.n > l.n}) < LiveCap}

\* onmessage
OnMessage ==
  /\ sock.st = "open" /\ msgs # {}
  /\ msgs' = msgs \ {First(msgs)}
  /\ \/ /\ f.q.feed = "prepend"
        /\ live' = Prepend(First(msgs))
        /\ UNCHANGED vars
     \/ /\ f.q.feed = "refetch"
        /\ Invalidate
        /\ UNCHANGED <<live, f, ver, view, prev, save, acked, failed, moves>>
  /\ UNCHANGED <<sock, hub, closing, connected, tab>>

-----------------------------------------------------------------------------
(* The page.                                                               *)

\* refetchInterval: wsConnected ? undefined : 15_000
FeedPoll ==
  /\ f.q.rests => ~connected
  /\ Poll
  /\ UNCHANGED feedVars

\* Page, size, or a filter that the socket's callbacks do not use.
Turn ==
  /\ \E v \in Views : Move(v)
  /\ UNCHANGED feedVars

\* A source or action tab: setSource, setLiveEvents([]), setPage(1), and the
\* effect runs again in the same commit.
SelectTab ==
  /\ f.q.tabs
  /\ Move([view EXCEPT !["filter"] = 1 - @, !["page"] = 0])
  /\ tab' = 1 - tab
  /\ live' = {}
  /\ RunEffect(1 - tab)
  /\ UNCHANGED <<connected>>

\* The "Clear" button of the banner.
Clear ==
  /\ live # {}
  /\ live' = {}
  /\ UNCHANGED <<vars, sock, hub, msgs, closing, connected, tab>>

Next ==
  \/ Turn \/ FeedPoll \/ SelectTab \/ Clear
  \/ Asks /\ UNCHANGED feedVars
  \/ Broadcast
  \/ Open \/ Register \/ Lose \/ OnClose \/ Connect \/ RenewToken \/ LateClose
  \/ OnMessage

\* The browser's timer and the requests of the list on screen; nothing is
\* assumed of the socket, and nobody has to click or save.
Fairness ==
  /\ WF_allVars(FeedPoll)
  /\ WF_allVars(Answering /\ UNCHANGED feedVars)
  /\ WF_allVars(Landing /\ UNCHANGED feedVars)

Init == CacheInit /\ FeedInit

Spec == Init /\ [][Next]_allVars /\ Fairness

-----------------------------------------------------------------------------

\* Every variable holds a value of its kind.
FeedTypeOK ==
  /\ TypeOK
  /\ sock \in [st : {"opening", "open", "dead", "gone"}, tab : {0, 1}]
  /\ hub \in BOOLEAN /\ connected \in BOOLEAN /\ tab \in {0, 1}
  /\ msgs \subseteq 1..MaxChanges
  /\ live \subseteq [n : 1..MaxChanges, tab : {0, 1}] /\ Cardinality(live) <= LiveCap
  /\ closing \in 0..MaxMoves

\* The page says "Live", and rests its poll, only while its socket is open or
\* the close event that will say otherwise is on its way: no order of opening,
\* losing, closing and late close events leaves it neither fed nor polling.
LiveIsHonest ==
  connected => sock.st \in {"open", "dead"} \/ closing > 0

\* A pushed row is only ever shown under the tab it was judged for, though it
\* was judged by a callback of a socket of an earlier render.
LiveRowsMatchTheTab ==
  \A l \in live : l.tab = tab

\* Neither the "Live" flag nor the pushed rows outlive the socket and the tab
\* they belong to.
LiveSound == LiveIsHonest /\ LiveRowsMatchTheTab

\* A list with a poll ends up showing every change, whoever made it, in the
\* rows fetched or in front of them, whatever requests failed and whatever
\* the socket missed; except where the poll rests while the socket is open.
EveryChangeListed ==
  <>[](f.q.poll /\ ~f.q.rests =>
         Shown # None /\ \A n \in 1..ver : n <= Shown.ver \/ \E l \in live : l.n = n)

=============================================================================
