--------------------------- MODULE PortalSession ---------------------------
(***************************************************************************)
(* A browser session of one of the three portals: the cookie its tabs      *)
(* share, the API calls they make, the session requests that refresh the   *)
(* access token (lib/auth.ts), the 401 interceptor (lib/api.ts), and the   *)
(* rotation of refresh tokens at the API (handlers auth.go, portal.go).    *)
(*                                                                         *)
(* An access token and the refresh token issued with it are one pair,      *)
(* numbered in the order of issue.  Time is events: a token comes due a    *)
(* minute before it expires, a rotated refresh token works for a minute.   *)
(* The browser starts at the sign-in page, SignIn.                         *)
(***************************************************************************)
EXTENDS SignIn

CONSTANTS
  Calls,      \* API calls the tabs may have going at once
  Portals,    \* facts, as below
  MaxPairs,   \* bound: pairs issued after the first
  MaxFaults   \* bound: refresh requests that go wrong though the token is good

ASSUME BoundsAssumption == MaxPairs \in Nat /\ MaxFaults \in Nat

\* Does the portal try a call again after a 401, does its session have a
\* refresh token.
Portal(retries, refreshes) == [retries |-> retries, refreshes |-> refreshes]

Dashboard == Portal(TRUE, TRUE)   \* company-dashboard
Console == Portal(TRUE, TRUE)     \* superadmin
ViewAsOrg == Portal(TRUE, FALSE)  \* the "impersonation" sign-in
EmployeePortal == Portal(FALSE, TRUE)

NoPortal == Portal(FALSE, FALSE)

ASSUME PortalsAssumption == Portals \subseteq [retries : BOOLEAN, refreshes : BOOLEAN]

\* The ways in that lead to a portal.
Doors(portal) ==
  CASE ~portal.refreshes -> {ViewLink}
    [] ~portal.retries -> {EmployeeLogin, EmployeeRegister}
    [] OTHER -> CompanyLogin \cup {CompanyRegister, ConsoleLogin}

Pairs == 0..MaxPairs
None == [none |-> TRUE]
Token(n, e) == [pair |-> n, error |-> e]
Idle == [st |-> "idle", kind |-> "api", tok |-> Token(0, FALSE), sure |-> FALSE,
         retried |-> FALSE, ran |-> 0]
NoRefresh(r) == [st |-> "none", got |-> r]

VARIABLES
  f,        \* the portal, once signed in
  cookie,   \* the session cookie, None before the sign-in and after a sign-out
  call,     \* call -> where it is, the token its session request carries, and
            \* how often it was carried out
  flying,   \* inFlightRefresh: refresh token -> its request, and the pair it brought
  access,   \* pair -> age of the access token
  refresh,  \* pair -> state of the refresh token's row
  pairs,    \* pairs issued
  faults,
  refused,  \* a handler answered 401 for a reason of its own
  outlasted \* a token ran out under somebody who held it (history)

sessionVars ==
  <<f, cookie, call, flying, access, refresh, pairs, faults, refused, outlasted>>
vars == <<signInVars, sessionVars>>

Init ==
  /\ f = NoPortal
  /\ SignInInit(UNION {Doors(q) : q \in Portals})
  /\ cookie = None
  /\ call = [c \in Calls |-> Idle]
  /\ flying = [r \in Pairs |-> NoRefresh(r)]
  /\ access = [n \in Pairs |-> "none"] /\ refresh = [n \in Pairs |-> "none"]
  /\ pairs = 0
  /\ faults = 0 /\ refused = FALSE /\ outlasted = FALSE

SignedIn == cookie # None
SignedOut == ~SignedIn /\ door = Inside
At(c, st) == call[c].st = st /\ SignedIn
Goes(c, st) == call' = [call EXCEPT ![c].st = st]
Answered(c, st, n) ==
  call' = [call EXCEPT ![c] = [call[c] EXCEPT !.st = st, !.tok = Idle.tok, !.sure = FALSE,
                                              !.ran = call[c].ran + n]]
Ends(c) == call' = [call EXCEPT ![c] = Idle]

\* signOut leaves for the sign-in page; the calls of the page go with it.
SignOut == cookie' = None /\ call' = [c \in Calls |-> Idle]

-----------------------------------------------------------------------------
(* getSession: the session route of the portal's own server.               *)

GetSession(c, kind, again) ==
  call' = [call EXCEPT ![c] = [st |-> "session", kind |-> kind, tok |-> cookie,
                               sure |-> FALSE, retried |-> again, ran |-> call[c].ran]]

\* The request interceptor; or the layout of a page, rendered on the server,
\* which cannot set the cookie.
Begin(c, kind) ==
  /\ At(c, "idle")
  /\ GetSession(c, kind, FALSE)
  /\ UNCHANGED <<f, cookie, flying, access, refresh, pairs, faults, refused, outlasted>>

\* The jwt callback: the token is good for more than a minute, or there is no
\* refresh token.
JwtAsIs(c) ==
  /\ At(c, "session")
  /\ access[call[c].tok.pair] = "fresh" \/ ~f.refreshes
  /\ LET good == access[call[c].tok.pair] = "fresh"
     IN  call' = [call EXCEPT ![c] = [call[c] EXCEPT !.st = "answered", !.sure = good,
                                                     !.tok = Token(call[c].tok.pair, ~good)]]
  /\ UNCHANGED <<f, cookie, flying, access, refresh, pairs, faults, refused, outlasted>>

\* The jwt callback: refreshAccessToken, one request for all who hold the
\* same refresh token.
JwtRefresh(c) ==
  /\ At(c, "session")
  /\ access[call[c].tok.pair] # "fresh" /\ f.refreshes
  /\ Goes(c, "waiting")
  /\ flying' = [flying EXCEPT ![call[c].tok.pair].st = IF @ = "none" THEN "sent" ELSE @]
  /\ UNCHANGED <<f, cookie, access, refresh, pairs, faults, refused, outlasted>>

\* A plausible mistake: a rotated token is refused at once.
AcceptedOnce(r) == refresh[r] = "live"

\* Live, or rotated less than a minute ago.
Accepted(r) == refresh[r] \in {"live", "rotated"}

\* The old token is marked, the new pair is issued; its row is as given.
Rotate(r, row) ==
  /\ Accepted(r) /\ pairs < MaxPairs
  /\ pairs' = pairs + 1
  /\ refresh' = [refresh EXCEPT ![r] = "rotated", ![pairs + 1] = row]
  /\ access' = [access EXCEPT ![pairs + 1] = "fresh"]

Issued(r) == flying' = [flying EXCEPT ![r] = [st |-> "done", got |-> pairs + 1]]
Reject(r) == flying' = [flying EXCEPT ![r] = [st |-> "failed", got |-> r]]

\* POST /auth/refresh, /portal/refresh
Refresh(r) ==
  /\ flying[r].st = "sent" /\ SignedIn
  /\ \/ Rotate(r, "live") /\ Issued(r)
     \/ ~Accepted(r) /\ Reject(r) /\ UNCHANGED <<access, refresh, pairs>>
  /\ UNCHANGED <<f, cookie, call, faults, refused, outlasted>>

\* The API is down, or its answer is lost after the rotation (or it fails after
\* it marked the old token: the new pair is nobody's either way).
RefreshFault(r) ==
  /\ flying[r].st = "sent" /\ SignedIn
  /\ faults < MaxFaults /\ faults' = faults + 1
  /\ Reject(r)
  /\ Rotate(r, "live") \/ UNCHANGED <<access, refresh, pairs>>
  /\ UNCHANGED <<f, cookie, call, refused, outlasted>>

\* The new token's row is not written and the API answers 200; the employee
\* portal looks at the error of that write.  (Where the old one's row is not
\* written the token works on: a grace that does not end.)
RefreshUnstored(r) ==
  /\ flying[r].st = "sent" /\ SignedIn /\ f.retries
  /\ faults < MaxFaults /\ faults' = faults + 1
  /\ Rotate(r, "none") /\ Issued(r)
  /\ UNCHANGED <<f, cookie, call, refused, outlasted>>

\* The promise settles for everyone waiting on it.  A failure keeps the old
\* tokens and sets the error.
Settle(r) ==
  /\ flying[r].st \in {"done", "failed"} /\ SignedIn
  /\ LET ok == flying[r].st = "done"
     IN  call' = [c \in Calls |->
           IF call[c].st = "waiting" /\ call[c].tok.pair = r
             THEN [call[c] EXCEPT !.st = "answered", !.sure = ok,
                                  !.tok = Token(flying[r].got, ~ok)]
             ELSE call[c]]
  /\ flying' = [flying EXCEPT ![r] = NoRefresh(r)]
  /\ UNCHANGED <<f, cookie, access, refresh, pairs, faults, refused, outlasted>>

\* The answer reaches the browser and replaces the cookie, whatever is in it
\* by now (the error in it is decided anew with every request); the first
\* time the call is sent in any case, after a 401 only with a session without
\* error.
Land(c) ==
  /\ At(c, "answered") /\ call[c].kind = "api"
  /\ IF call[c].retried /\ call[c].tok.error
       THEN SignOut
       ELSE LET good == Token(call[c].tok.pair, FALSE)
            IN  cookie' = good /\ call' = [call EXCEPT ![c].st = "sent", ![c].tok = good]
  /\ UNCHANGED <<f, flying, access, refresh, pairs, faults, refused, outlasted>>

\* A rendered layout: the tokens obtained go nowhere.
Rendered(c) ==
  /\ At(c, "answered") /\ call[c].kind = "layout"
  /\ Ends(c)
  /\ UNCHANGED <<f, cookie, flying, access, refresh, pairs, faults, refused, outlasted>>

-----------------------------------------------------------------------------
(* The API call.                                                           *)

Carry(c) ==
  /\ At(c, "sent") /\ access[call[c].tok.pair] # "expired"
  /\ Answered(c, "ran", 1)
  /\ UNCHANGED <<f, cookie, flying, access, refresh, pairs, faults, refused, outlasted>>

\* AuthRequired, PortalRequired: the token has expired.
Unauthorized(c) ==
  /\ At(c, "sent") /\ access[call[c].tok.pair] = "expired"
  /\ Answered(c, "401", 0)
  /\ UNCHANGED <<f, cookie, flying, access, refresh, pairs, faults, refused, outlasted>>

\* A handler's own 401: "Current password is incorrect".
Refuse(c) ==
  /\ At(c, "sent") /\ access[call[c].tok.pair] # "expired"
  /\ Answered(c, "401", 0)
  /\ refused' = TRUE
  /\ UNCHANGED <<f, cookie, flying, access, refresh, pairs, faults, outlasted>>

Answer(c) ==
  /\ At(c, "ran")
  /\ Ends(c)
  /\ UNCHANGED <<f, cookie, flying, access, refresh, pairs, faults, refused, outlasted>>

\* A plausible mistake: a call that timed out is sent again as well.
TimeoutRetries(c) ==
  /\ At(c, "sent") \/ At(c, "ran")
  /\ IF call[c].retried THEN Ends(c) ELSE GetSession(c, "api", TRUE)
  /\ UNCHANGED <<f, cookie, flying, access, refresh, pairs, faults, refused, outlasted>>

\* 30 s without an answer, an error other than 401: the caller gets it.
Timeout(c) ==
  /\ At(c, "sent") \/ At(c, "ran")
  /\ Ends(c)
  /\ UNCHANGED <<f, cookie, flying, access, refresh, pairs, faults, refused, outlasted>>

\* A plausible mistake: without the _retry mark.
On401Again(c) ==
  /\ At(c, "401")
  /\ \/ f.retries /\ GetSession(c, "api", TRUE) /\ UNCHANGED cookie
     \/ ~f.retries /\ SignOut
  /\ UNCHANGED <<f, flying, access, refresh, pairs, faults, refused, outlasted>>

\* The response interceptor: one more try with the session as it is now; the
\* employee portal signs out at once.
On401(c) ==
  /\ At(c, "401")
  /\ \/ f.retries /\ ~call[c].retried /\ GetSession(c, "api", TRUE) /\ UNCHANGED cookie
     \/ f.retries /\ call[c].retried /\ Ends(c) /\ UNCHANGED cookie
     \/ ~f.retries /\ SignOut
  /\ UNCHANGED <<f, flying, access, refresh, pairs, faults, refused, outlasted>>

-----------------------------------------------------------------------------
(* Time.  Tokens live equally long: the older one is due, and expires,     *)
(* first.                                                                  *)

ComesDue(n) ==
  /\ SignedIn /\ access[n] = "fresh"
  /\ \A o \in Pairs : o < n => access[o] # "fresh"
  /\ access' = [access EXCEPT ![n] = "due"]
  /\ UNCHANGED <<f, cookie, call, flying, refresh, pairs, faults, refused, outlasted>>

\* A session request has no timeout: whoever took the token, when it was good
\* for a minute and more, or has yet to get it, may do so too late.
Awaited(n) ==
  \/ \E r \in Pairs : flying[r].st = "done" /\ flying[r].got = n
  \/ \E c \in Calls :
       call[c].st \in {"answered", "sent"} /\ call[c].tok.pair = n /\ call[c].sure

Expires(n) ==
  /\ SignedIn /\ access[n] = "due"
  /\ \A o \in Pairs : o < n => access[o] = "expired"
  /\ access' = [access EXCEPT ![n] = "expired"]
  /\ outlasted' = (outlasted \/ Awaited(n))
  /\ UNCHANGED <<f, cookie, call, flying, refresh, pairs, faults, refused>>

\* The browser, or a session request, has nothing newer.
Held(r) ==
  \/ cookie.pair = r \/ flying[r].st # "none"
  \/ \E c \in Calls :
       call[c].st \in {"session", "waiting", "answered"} /\ call[c].tok.pair = r

\* rotationGrace, a minute, whoever still holds the token: no page is bound to
\* ask for its session within it (the bells ask after 60 s or 120 s).
GraceEnds(r) ==
  /\ SignedIn /\ refresh[r] = "rotated"
  /\ refresh' = [refresh EXCEPT ![r] = "dead"]
  /\ outlasted' = (outlasted \/ Held(r))
  /\ UNCHANGED <<f, cookie, call, flying, access, pairs, faults, refused>>

-----------------------------------------------------------------------------

\* Steps of a session request, and of the API call: 30 s, then Timeout.
Asking(c) == JwtAsIs(c) \/ JwtRefresh(c) \/ Land(c) \/ Rendered(c)
Served(c) ==
  Carry(c) \/ Unauthorized(c) \/ Refuse(c) \/ Answer(c) \/ Timeout(c) \/ On401(c)

\* The session of the first tab to arrive; its tokens are the pair 0.
SignInDone ==
  /\ Enter
  /\ f' \in {q \in Portals : door \in Doors(q)}
  /\ cookie' = Token(0, FALSE)
  /\ access' = [access EXCEPT ![0] = "fresh"]
  /\ refresh' = IF f'.refreshes THEN [refresh EXCEPT ![0] = "live"] ELSE refresh
  /\ UNCHANGED <<call, flying, pairs, faults, refused, outlasted>>

InSession ==
  \/ \E c \in Calls : Asking(c) \/ Served(c) \/ Begin(c, "api") \/ Begin(c, "layout")
  \/ \E r \in Pairs : Refresh(r) \/ RefreshFault(r) \/ RefreshUnstored(r) \/ Settle(r)
  \/ \E n \in Pairs : ComesDue(n) \/ Expires(n) \/ GraceEnds(n)

Next ==
  \/ AtTheDoor /\ UNCHANGED sessionVars
  \/ SignInDone
  \/ InSession /\ UNCHANGED signInVars

\* The API client has a timeout and a settled promise runs on.  Session and
\* refresh requests have no timeout: nothing is fair about them.
Fairness ==
  /\ \A c \in Calls : WF_sessionVars(Served(c))
  /\ \A r \in Pairs : WF_sessionVars(Settle(r))

Spec == Init /\ [][Next]_vars /\ Fairness

-----------------------------------------------------------------------------

Tokens == [pair : Pairs, error : BOOLEAN]

SessionTypeOK ==
  /\ f \in Portals \cup {NoPortal}
  /\ cookie \in Tokens \cup {None}
  /\ call \in [Calls -> [st : {"idle", "session", "waiting", "answered", "sent", "ran", "401"},
                         kind : {"api", "layout"}, tok : Tokens, sure : BOOLEAN,
                         retried : BOOLEAN, ran : 0..2]]
  /\ flying \in [Pairs -> [st : {"none", "sent", "done", "failed"}, got : Pairs]]
  /\ access \in [Pairs -> {"none", "fresh", "due", "expired"}]
  /\ refresh \in [Pairs -> {"none", "live", "rotated", "dead"}]
  /\ pairs \in Pairs /\ faults \in 0..MaxFaults /\ refused \in BOOLEAN
  /\ outlasted \in BOOLEAN

\* Every variable holds a value of its kind.
TypeOK == SignInTypeOK /\ SessionTypeOK

\* A refresh answered without a row for the new token.
Unstored == \E n \in 0..pairs : refresh[n] = "none"

\* Parallel calls, server-rendered layouts and answers that arrive in any order
\* sign nobody out: the old token "keeps working for a minute so parallel
\* requests don't knock each other out of the session" (portal.go), and one
\* failed refresh is survived by the retry, unless a handler's own 401 or
\* another failure used the retry up.  The employee portal has no retry and
\* signs out at a failed refresh or a handler's own 401.  Two things do sign
\* out: a token that runs out under its holder, as where a failed refresh, or
\* one of a layout, left the old token in the cookie and the next poll comes a
\* minute later; and a new token the API failed to store.
NoSpuriousSignOut ==
  SignedOut => \/ ~f.refreshes
               \/ outlasted \/ Unstored
               \/ faults > 1 \/ (refused /\ faults > 0)
               \/ ~f.retries /\ (faults > 0 \/ refused)

\* A call is carried out at most once, however often its session is renewed.
CarriedOutOnce ==
  \A c \in Calls : call[c].ran <= 1

\* A call ends, for its caller or in a sign-out, over any number of 401s: it
\* never goes round for good, nor does anything keep it but one session or
\* refresh request that is not answered.
CallsEnd ==
  \A c \in Calls :
    \/ []<>(call[c].st = "idle")
    \/ <>[]\/ call[c].st \in {"session", "answered"}
           \/ call[c].st = "waiting" /\ flying[call[c].tok.pair].st = "sent"

=============================================================================
