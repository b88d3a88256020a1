------------------------- MODULE PortalSessionProofs -------------------------
(***************************************************************************)
(* Proofs about PortalSession and the sign-in before it, for any tabs,     *)
(* calls and portals, any number of tries a code tolerates, and any        *)
(* bounds.                                                                 *)
(***************************************************************************)
EXTENDS PortalSession, FiniteSetTheorems, TLAPS

\* The facts of the pages: the ways in, and the dashboard.
Ways ==
  CompanyLogin \cup {CompanyRegister, ConsoleLogin, EmployeeLogin, EmployeeRegister, ViewLink, Inside}

\* Inside nothing is left of the sign-in; before it there is no session.
Apart ==
  /\ door = Inside =>
       /\ page = [t \in Tabs |-> Fresh] /\ req = [t \in Tabs |-> NoRequest]
       /\ resend = [t \in Tabs |-> NoResend]
       /\ created = 0 /\ cold = 0 /\ lapsed = 0
  /\ door # Inside =>
       /\ cookie = None /\ call = [c \in Calls |-> Idle]
       /\ flying = [r \in Pairs |-> NoRefresh(r)]
       /\ refresh = [n \in Pairs |-> "none"]
       /\ access = [n \in Pairs |-> "none"]
       /\ pairs = 0 /\ faults = 0 /\ refused = FALSE /\ outlasted = FALSE

-----------------------------------------------------------------------------
(* At the sign-in page.                                                    *)

\* The newest code is the one typed, and unused.
TypedNewest(t) == req[t].typed = created /\ codes[created].st = "live"

\* What is known of a code that was typed: it had been mailed, or is the
\* app's.  A request that has none yet is one of the first step.
TypedSound(t) ==
  /\ req[t].st = "none" => req[t] = NoRequest
  /\ req[t].typed # 0 => (Mailed /\ req[t].typed <= created) \/ door.code = "app"
  /\ req[t].again => door.renews /\ req[t].st # "signup"
  /\ req[t].st \in {"signup", "login", "issuing"} /\ ~req[t].again => req[t].typed = 0

\* A challenge belongs to a code that was created; a renewed one has not
\* lapsed.
ChallengeSound(t) ==
  /\ page[t].chal # 0 => page[t].chal <= created /\ door.code \in {"mail", "app", "register"}
  /\ req[t].st = "issuing" => door.code \in {"mail", "app", "register"}
  /\ req[t].st = "verify" => req[t].chal \in 1..created
  /\ req[t].st = "verify" /\ req[t].again => req[t].chal > lapsed

\* What the query for the pending code has told a request.
FoundSound(t) ==
  /\ req[t].st \in {"found", "wrong"} => Mailed /\ req[t].found \in 1..created
  /\ req[t].st = "found" => req[t].found = req[t].typed
  /\ req[t].st = "wrong" => ~TypedNewest(t)
  /\ req[t].st = "in" /\ Mailed => req[t].found \in 1..created /\ codes[req[t].found].st = "used"

\* RightCodeWorks, for one tab.
RefusedRightly(t) ==
  req[t].st = "refused" /\ req[t].typed # 0 =>
    \/ door.code = "app" /\ req[t].typed # 1
    \/ Mailed /\ ~(TypedNewest(t) /\ created > lapsed /\ req[t].tries < MaxTries)
    \/ door.code = "mail" /\ (req[t].again \/ req[t].chal \in 1..lapsed)

TabSound(t) == TypedSound(t) /\ ChallengeSound(t) /\ FoundSound(t) /\ RefusedRightly(t)

\* Codes come into being in their order.
CodesSound == \A n \in Codes : codes[n].st # "none" => n <= created

OneEach ==
  Mailed => \A t, u \in Tabs :
    req[t].st = "in" /\ req[u].st = "in" /\ req[t].found = req[u].found => t = u

DoorSound ==
  /\ door \in Ways
  /\ CodesSound /\ OneEach
  /\ \A t \in Tabs : TabSound(t)

-----------------------------------------------------------------------------
(* In the session.                                                         *)

\* How often a call was carried out follows from where it is.
RanSound == \A c \in Calls : call[c].ran = IF call[c].st = "ran" THEN 1 ELSE 0

\* The pair in the cookie was given out and its refresh token works.
CookieSound ==
  /\ cookie.pair <= pairs /\ Accepted(cookie.pair) /\ cookie.error = FALSE
  /\ \A r \in Pairs : flying[r].st = "done" => flying[r].got # cookie.pair

\* Only tokens that work are sent, so that a refresh fails by a fault only; a
\* pair that it brings is nobody's until the promise settles.
FlightsSound ==
  /\ \A r \in Pairs : flying[r].st # "none" => r <= pairs /\ Accepted(r)
  /\ \A r \in Pairs : flying[r].st = "failed" => flying[r].got = r
  /\ \A r \in Pairs : flying[r].st = "done" =>
       /\ flying[r].got \in 1..pairs /\ flying[flying[r].got].st = "none"
       /\ refresh[flying[r].got] = "live" /\ access[flying[r].got] # "expired"
  /\ \A r, q \in Pairs :
       flying[r].st = "done" /\ flying[q].st = "done" /\ flying[q].got = flying[r].got => q = r
  /\ faults = 0 => \A r \in Pairs : flying[r].st # "failed"
  /\ faults = 1 => \A r, q \in Pairs : flying[r].st = "failed" /\ flying[q].st = "failed" => r = q

\* A call that has met a failed refresh, or a 401.
Marked(c) ==
  \/ call[c].st = "401" \/ call[c].retried \/ call[c].tok.error
  \/ call[c].st \in {"answered", "sent"} /\ ~call[c].sure

\* There was no failure so far that anybody was told of.
Untold == ~refused /\ (faults = 0 \/ (faults = 1 /\ \E r \in Pairs : flying[r].st = "failed"))

\* The pair of a call was given out to it, and works as long as the call needs
\* it.  The first failed refresh marks the calls that waited for it, and only
\* a further one, or a handler's 401 before it, can hit a call marked already.
CallSound(c) ==
  /\ call[c].tok.pair <= pairs
  /\ \A r \in Pairs : flying[r].st = "done" => flying[r].got # call[c].tok.pair
  /\ call[c].st \in {"session", "waiting", "answered"} => Accepted(call[c].tok.pair)
  /\ call[c].st \in {"answered", "sent"} /\ call[c].sure => access[call[c].tok.pair] # "expired"
  /\ call[c].retried => f.retries
  /\ faults = 0 => ~call[c].tok.error
  /\ Untold => ~Marked(c)
  /\ ~refused /\ faults = 1 => ~(call[c].retried /\ call[c].tok.error)

\* Of a session that refreshes, whose tokens were stored and came in time.
Staying == SignedIn /\ f.refreshes /\ ~outlasted /\ ~Unstored
StaySound == CookieSound /\ FlightsSound /\ \A c \in Calls : CallSound(c)

SessionSound ==
  /\ RanSound
  /\ Staying => StaySound
  /\ NoSpuriousSignOut

PortalSound == TypeOK /\ Apart /\ DoorSound /\ SessionSound

-----------------------------------------------------------------------------
(* Steps at the sign-in page.                                              *)

Asked ==
  [st : {"none", "signup", "login", "issuing", "verify", "found", "wrong", "refused", "in"},
   chal : 0..MaxCodes, typed : 0..MaxCodes, found : 0..MaxCodes, tries : 0..MaxTries,
   again : BOOLEAN]

\* What may happen to the codes in one step.
CodesEvolve ==
  /\ created <= created' /\ lapsed' = lapsed
  /\ \A n \in Codes :
       /\ codes[n].st = "used" => codes'[n].st = "used"
       /\ codes'[n].st = "live" /\ n <= created => codes[n].st = "live"
       /\ codes'[n].st # "none" => n <= created'

\* A step that concerns one tab only.
TabStep(t) ==
  /\ SignInTypeOK' /\ door' = door /\ CodesEvolve /\ TabSound(t)'
  /\ \A u \in Tabs : u # t => req'[u] = req[u] /\ page'[u] = page[u]
  /\ req'[t].st = "in" /\ Mailed =>
       req'[t] = req[t] \/ codes[req'[t].found].st = "live"

LEMMA SignInTypes ==
  ASSUME SignInTypeOK
  PROVE  /\ req \in [Tabs -> Asked]
         /\ page \in [Tabs -> [chal : 0..MaxCodes, last : 0..MaxCodes]]
         /\ resend \in [Tabs -> [st : {"none", "sent", "issuing"}, chal : 0..MaxCodes]]
         /\ codes \in [Codes -> [st : {"none", "live", "used"}, tries : 0..MaxTries]]
         /\ created \in 0..MaxCodes /\ cold \in 0..created /\ lapsed \in 0..cold
         /\ account \in BOOLEAN
         /\ \A t \in Tabs : req[t] \in Asked
         /\ {created, cold, lapsed, MaxCodes, MaxTries} \subseteq Nat
         /\ created <= MaxCodes /\ cold <= created /\ lapsed <= cold
  BY SignInAssumption DEF SignInTypeOK, Asked

\* The tabs a step does not concern keep what is known of them.
LEMMA OtherTabs ==
  ASSUME SignInTypeOK, SignInTypeOK', CodesEvolve, door' = door, NEW u \in Tabs, TabSound(u),
         req'[u] = req[u], page'[u].chal \in {0, page[u].chal}
  PROVE  TabSound(u)'
<1>1. req[u] \in Asked /\ req'[u] \in Asked /\ created \in Nat /\ created' \in Nat /\ lapsed \in Nat
      /\ page[u] \in [chal : 0..MaxCodes, last : 0..MaxCodes] /\ created <= MaxCodes /\ created' <= MaxCodes
  BY SignInTypes DEF SignInTypeOK, Asked
<1>2. TypedSound(u)'
  BY <1>1 DEF TabSound, TypedSound, CodesEvolve, Mailed, Asked
<1>3. ChallengeSound(u)'
  BY <1>1 DEF TabSound, ChallengeSound, CodesEvolve, Asked
<1>4. TypedNewest(u)' /\ req[u].typed # 0 /\ req[u].typed <= created =>
        TypedNewest(u) /\ created' = created
  BY <1>1 DEF TypedNewest, CodesEvolve, Asked, Codes
<1>5. created' # 0 /\ TypedNewest(u)' => req[u].typed # 0
  BY DEF TypedNewest
<1>6. FoundSound(u)'
  BY <1>1, <1>4, <1>5 DEF TabSound, TypedSound, FoundSound, CodesEvolve, Mailed, Asked, Codes
<1>7. RefusedRightly(u)'
  BY <1>1, <1>4 DEF TabSound, TypedSound, RefusedRightly, CodesEvolve, Mailed, Asked
<1> QED BY <1>2, <1>3, <1>6, <1>7 DEF TabSound

\* So a step of one tab keeps everything.
LEMMA TabStepKeeps ==
  ASSUME SignInTypeOK, DoorSound, NEW t \in Tabs, TabStep(t)
  PROVE  DoorSound'
<1>1. door' \in Ways /\ SignInTypeOK' /\ CodesEvolve /\ door' = door
  BY DEF DoorSound, TabStep
<1>2. CodesSound'
  BY <1>1 DEF CodesSound, CodesEvolve
<1>3. \A u \in Tabs : TabSound(u)'
  <2> TAKE u \in Tabs
  <2>1. CASE u = t
    BY <2>1 DEF TabStep
  <2>2. CASE u # t
    BY <2>2, <1>1, OtherTabs DEF TabStep, DoorSound
  <2> QED BY <2>1, <2>2
<1>4. OneEach'
  <2>1. SUFFICES ASSUME Mailed, NEW u \in Tabs, NEW v \in Tabs, u # v,
                       req'[u].st = "in", req'[v].st = "in", req'[u].found = req'[v].found
                PROVE  FALSE
    BY <1>1 DEF OneEach, Mailed
  <2>2. \A w \in Tabs : req[w].st = "in" => codes[req[w].found].st = "used"
    BY <2>1 DEF DoorSound, TabSound, FoundSound
  <2>3. req[u].st = "in" /\ req[v].st = "in" => req[u].found # req[v].found
    BY <2>1 DEF DoorSound, OneEach
  <2>4. \A w \in Tabs : w # t => req'[w] = req[w]
    BY DEF TabStep
  <2>5. req'[t].st = "in" => req'[t] = req[t] \/ codes[req'[t].found].st = "live"
    BY <2>1 DEF TabStep
  <2> QED BY <2>1, <2>2, <2>3, <2>4, <2>5
<1> QED BY <1>1, <1>2, <1>3, <1>4 DEF DoorSound

-----------------------------------------------------------------------------
(* What the parts of an action do.                                         *)

LEMMA RequestEffect ==
  ASSUME SignInTypeOK, NEW t \in Tabs, NEW r \in Asked, Requests(t, r)
  PROVE  /\ req' \in [Tabs -> Asked] /\ req'[t] = r
         /\ \A u \in Tabs : u # t => req'[u] = req[u]
  BY SignInTypes DEF Requests

LEMMA AdvanceEffect ==
  ASSUME SignInTypeOK, NEW t \in Tabs, NEW st \in {"signup", "login", "issuing"}, Advance(t, st)
  PROVE  /\ req' \in [Tabs -> Asked] /\ req'[t].st = st
         /\ req'[t].typed = req[t].typed /\ req'[t].again = req[t].again
         /\ \A u \in Tabs : u # t => req'[u] = req[u]
<1> DEFINE r == [req[t] EXCEPT !.st = st]
<1>1. r \in Asked /\ r.st = st /\ r.typed = req[t].typed /\ r.again = req[t].again
  BY SignInTypes DEF Asked
<1> QED BY <1>1, RequestEffect DEF Advance

LEMMA RefusedEffect ==
  ASSUME SignInTypeOK, NEW t \in Tabs, Refused(t) \/ Exhausted(t)
  PROVE  /\ req' \in [Tabs -> Asked] /\ req'[t].st = "refused"
         /\ req'[t].typed = req[t].typed /\ req'[t].again = req[t].again
         /\ req'[t].chal = req[t].chal
         /\ Exhausted(t) => req'[t].tries = MaxTries
         /\ \A u \in Tabs : u # t => req'[u] = req[u]
<1> DEFINE r(n) == [req[t] EXCEPT !.st = "refused", !.found = 0, !.tries = n]
<1>1. 0 \in 0..MaxTries /\ MaxTries \in 0..MaxTries /\ 0 \in 0..MaxCodes
  BY SignInAssumption
<1>2. \A n \in 0..MaxTries :
        /\ r(n) \in Asked /\ r(n).st = "refused" /\ r(n).typed = req[t].typed
        /\ r(n).again = req[t].again /\ r(n).chal = req[t].chal /\ r(n).tries = n
  BY SignInTypes, <1>1 DEF Asked
<1>3. CASE Refused(t)
  <2>1. Requests(t, r(0))
    BY <1>3 DEF Refused
  <2>2. Exhausted(t) => Requests(t, r(MaxTries))
    BY DEF Exhausted
  <2> HIDE DEF r
  <2> QED BY <2>1, <2>2, <1>1, <1>2, RequestEffect
<1>4. CASE Exhausted(t)
  <2>1. Requests(t, r(MaxTries))
    BY <1>4 DEF Exhausted
  <2> HIDE DEF r
  <2> QED BY <2>1, <1>1, <1>2, RequestEffect
<1> QED BY <1>3, <1>4

LEMMA NoRequestType ==
  /\ NoRequest \in Asked
  /\ NoRequest.st = "none" /\ NoRequest.typed = 0 /\ NoRequest.again = FALSE
  BY SignInAssumption DEF NoRequest, Asked

LEMMA AdmittedEffect ==
  ASSUME SignInTypeOK, NEW t \in Tabs, Admitted(t)
  PROVE  /\ req' \in [Tabs -> Asked] /\ req'[t].st = "in" /\ req'[t].found = req[t].found
         /\ req'[t].typed = 0 /\ req'[t].again = FALSE
         /\ \A u \in Tabs : u # t => req'[u] = req[u]
<1> DEFINE r == [NoRequest EXCEPT !.st = "in", !.found = req[t].found]
<1>1. req[t].found \in 0..MaxCodes
  BY SignInTypes DEF Asked
<1>2. r \in Asked /\ r.st = "in" /\ r.found = req[t].found /\ r.typed = 0 /\ r.again = FALSE
  BY <1>1, NoRequestType DEF Asked
<1> QED BY <1>2, RequestEffect DEF Admitted

LEMMA CodesStay ==
  ASSUME SignInTypeOK, CodesSound, UNCHANGED <<codes, created, lapsed>>
  PROVE  CodesEvolve
  BY SignInTypes DEF CodesEvolve, CodesSound

LEMMA RetireEffect ==
  ASSUME SignInTypeOK, CodesSound, Retire
  PROVE  /\ CodesEvolve /\ codes' \in [Codes -> [st : {"none", "live", "used"}, tries : 0..MaxTries]]
         /\ UNCHANGED <<created, cold, lapsed, account>>
<1>1. Spent \in [st : {"none", "live", "used"}, tries : 0..MaxTries] /\ Spent.st = "used"
  BY SignInAssumption DEF Spent
<1>2. codes' = [n \in Codes |-> IF codes[n].st = "live" THEN Spent ELSE codes[n]]
      /\ UNCHANGED <<created, cold, lapsed, account>>
  BY DEF Retire
<1>3. codes' \in [Codes -> [st : {"none", "live", "used"}, tries : 0..MaxTries]]
  BY <1>1, <1>2, SignInTypes
<1>4. \A n \in Codes : codes'[n] = IF codes[n].st = "live" THEN Spent ELSE codes[n]
  BY <1>2
<1>5. CodesEvolve
  BY <1>1, <1>2, <1>4, SignInTypes DEF CodesEvolve, CodesSound
<1> QED BY <1>2, <1>3, <1>5

LEMMA CreateEffect ==
  ASSUME SignInTypeOK, CodesSound, Create
  PROVE  /\ CodesEvolve /\ codes' \in [Codes -> [st : {"none", "live", "used"}, tries : 0..MaxTries]]
         /\ created' = created + 1 /\ created' \in 0..MaxCodes
         /\ UNCHANGED <<cold, lapsed, account>>
<1>1. created + 1 \in Codes /\ created \in Nat /\ created' = created + 1 /\ created' \in 0..MaxCodes
  BY SignInTypes, SignInAssumption DEF Create, Codes
<1>2. codes' \in [Codes -> [st : {"none", "live", "used"}, tries : 0..MaxTries]]
  BY SignInTypes, <1>1 DEF Create
<1>3. \A n \in Codes : n # created + 1 => codes'[n] = codes[n]
  BY SignInTypes, <1>1 DEF Create
<1>4. codes[created + 1].st = "none"
  BY <1>1, SignInTypes DEF CodesSound
<1>5. CodesEvolve
  BY <1>1, <1>3, <1>4, SignInTypes DEF CodesEvolve, CodesSound, Create, Codes
<1> QED BY <1>1, <1>2, <1>5 DEF Create

\* A request that is refused, and one that is over.
LEMMA RefusedSound ==
  ASSUME SignInTypeOK, SignInTypeOK', CodesEvolve, door' = door, NEW t \in Tabs, TabSound(t),
         page'[t] = page[t], req'[t].st = "refused", req'[t].typed = req[t].typed,
         req'[t].again = req[t].again, req[t].st # "signup" \/ req[t].typed = 0,
         RefusedRightly(t)'
  PROVE  TabSound(t)'
<1>1. TypedSound(t)'
  BY SignInTypes DEF SignInTypeOK, TabSound, TypedSound, CodesEvolve, Mailed
<1>2. ChallengeSound(t)'
  BY SignInTypes DEF SignInTypeOK, TabSound, ChallengeSound, CodesEvolve
<1>3. FoundSound(t)'
  BY DEF FoundSound
<1> QED BY <1>1, <1>2, <1>3 DEF TabSound

LEMMA OverSound ==
  ASSUME SignInTypeOK, SignInTypeOK', CodesEvolve, door' = door, NEW t \in Tabs, TabSound(t),
         page'[t].chal # 0 => page'[t].chal <= created' /\ door.code \in {"mail", "app", "register"},
         req'[t] = NoRequest
  PROVE  TabSound(t)'
  BY SignInAssumption DEF TabSound, TypedSound, ChallengeSound, FoundSound, RefusedRightly, NoRequest

-----------------------------------------------------------------------------
(* The actions of a tab.                                                   *)

LEMMA SubmitStep ==
  ASSUME SignInTypeOK, DoorSound, NEW t \in Tabs, Submit(t)
  PROVE  TabStep(t)
<1>0. TabSound(t) /\ CodesSound /\ req[t].st = "none" /\ req[t] = NoRequest
      /\ UNCHANGED <<door, page, resend, codes, created, cold, lapsed, account>>
  BY DEF DoorSound, TabSound, TypedSound, Submit, Ready, Stage, stores
<1>1. PICK st \in {"signup", "login"} : Advance(t, st)
  BY DEF Submit
<1>2. /\ req' \in [Tabs -> Asked] /\ req'[t].st = st /\ req'[t].typed = 0 /\ req'[t].again = FALSE
      /\ \A u \in Tabs : u # t => req'[u] = req[u]
  BY <1>0, <1>1, AdvanceEffect DEF NoRequest
<1>3. SignInTypeOK' /\ CodesEvolve
  BY <1>0, <1>2, CodesStay DEF SignInTypeOK, Asked
<1>4. TabSound(t)'
  BY <1>0, <1>2 DEF TabSound, TypedSound, ChallengeSound, FoundSound, RefusedRightly
<1> QED BY <1>0, <1>2, <1>3, <1>4 DEF TabStep

LEMMA SignupStep ==
  ASSUME SignInTypeOK, DoorSound, NEW t \in Tabs, Signup(t)
  PROVE  TabStep(t)
<1>0. TabSound(t) /\ CodesSound /\ req[t].st = "signup" /\ req[t].typed = 0 /\ ~req[t].again
      /\ UNCHANGED <<door, page, resend, codes, created, cold, lapsed>> /\ account' = TRUE
  BY SignInTypes DEF Asked, DoorSound, TabSound, TypedSound, Signup, Stage
<1>1. CASE Refused(t)
  <2>1. SignInTypeOK' /\ CodesEvolve
    BY <1>0, <1>1, RefusedEffect, CodesStay DEF SignInTypeOK, Asked
  <2>2. RefusedRightly(t)'
    BY <1>0, <1>1, RefusedEffect DEF RefusedRightly
  <2>3. TabSound(t)'
    BY <1>0, <1>1, <2>1, <2>2, RefusedEffect, RefusedSound
  <2> QED BY <1>0, <1>1, <2>1, <2>3, RefusedEffect DEF TabStep
<1>2. CASE Advance(t, "login")
  <2>1. /\ req' \in [Tabs -> Asked] /\ req'[t].st = "login" /\ req'[t].typed = 0 /\ ~req'[t].again
        /\ \A u \in Tabs : u # t => req'[u] = req[u]
    BY <1>0, <1>2, AdvanceEffect
  <2>2. SignInTypeOK' /\ CodesEvolve
    BY <1>0, <2>1, CodesStay DEF SignInTypeOK, Asked
  <2>3. TabSound(t)'
    BY <1>0, <2>1 DEF TabSound, TypedSound, ChallengeSound, FoundSound, RefusedRightly
  <2> QED BY <1>0, <2>1, <2>2, <2>3 DEF TabStep
<1> QED BY <1>1, <1>2 DEF Signup

LEMMA LoginStep ==
  ASSUME SignInTypeOK, DoorSound, NEW t \in Tabs, Login(t)
  PROVE  TabStep(t)
<1>0. TabSound(t) /\ CodesSound /\ req[t].st = "login" /\ door \in Ways
      /\ UNCHANGED <<door, page, resend>>
  BY DEF DoorSound, Login, Stage
<1>1. CASE door.code = "register" /\ Refused(t) /\ UNCHANGED stores
  <2>1. req[t].typed = 0
    BY <1>0, <1>1 DEF TabSound, TypedSound, Ways, CompanyLogin, CompanyRegister, ConsoleLogin,
      EmployeeLogin, EmployeeRegister, ViewLink, Inside, Door
  <2>2. SignInTypeOK' /\ CodesEvolve
    BY <1>0, <1>1, RefusedEffect, CodesStay DEF SignInTypeOK, Asked, stores
  <2>3. RefusedRightly(t)'
    BY <2>1, <1>1, RefusedEffect DEF RefusedRightly
  <2>4. TabSound(t)'
    BY <1>0, <1>1, <2>1, <2>2, <2>3, RefusedEffect, RefusedSound
  <2> QED BY <1>0, <1>1, <2>2, <2>4, RefusedEffect DEF TabStep
<1>2. CASE door.code \in {"mail", "app", "register"} /\ Advance(t, "issuing") /\ (Retire \/ UNCHANGED stores)
  <2>1. /\ req' \in [Tabs -> Asked] /\ req'[t].st = "issuing" /\ req'[t].typed = req[t].typed
        /\ req'[t].again = req[t].again
        /\ \A u \in Tabs : u # t => req'[u] = req[u]
    BY <1>2, AdvanceEffect
  <2>2. /\ CodesEvolve /\ codes' \in [Codes -> [st : {"none", "live", "used"}, tries : 0..MaxTries]]
        /\ UNCHANGED <<created, cold, lapsed, account>>
    BY <1>0, <1>2, RetireEffect, CodesStay, SignInTypes DEF stores
  <2>3. SignInTypeOK'
    BY <1>0, <2>1, <2>2 DEF SignInTypeOK, Asked
  <2>4. TabSound(t)'
    BY <1>0, <1>2, <2>1, <2>2 DEF TabSound, TypedSound, ChallengeSound, FoundSound, RefusedRightly, Mailed
  <2> QED BY <1>0, <2>1, <2>2, <2>3, <2>4 DEF TabStep
<1>3. CASE door.code \in {"none", "signup"} /\ Admitted(t) /\ UNCHANGED stores
  <2>1. SignInTypeOK' /\ CodesEvolve /\ ~Mailed
    BY <1>0, <1>3, AdmittedEffect, CodesStay DEF SignInTypeOK, Asked, stores, Mailed
  <2>2. TabSound(t)'
    BY <1>0, <1>3, <2>1, AdmittedEffect
      DEF TabSound, TypedSound, ChallengeSound, FoundSound, RefusedRightly, Mailed, stores
  <2> QED BY <1>0, <1>3, <2>1, <2>2, AdmittedEffect DEF TabStep
<1> QED BY <1>1, <1>2, <1>3 DEF Login, Mailed

LEMMA IssueStep ==
  ASSUME SignInTypeOK, DoorSound, NEW t \in Tabs, Issue(t)
  PROVE  TabStep(t)
<1>0. TabSound(t) /\ CodesSound /\ req[t].st = "issuing" /\ door \in Ways /\ Create
      /\ UNCHANGED <<door, resend>>
  BY DEF DoorSound, Issue, Stage
<1>1. /\ CodesEvolve /\ codes' \in [Codes -> [st : {"none", "live", "used"}, tries : 0..MaxTries]]
      /\ created' = created + 1 /\ created' \in 0..MaxCodes
      /\ UNCHANGED <<cold, lapsed, account>>
  BY <1>0, CreateEffect
<1>2. created \in Nat /\ cold \in 0..created /\ lapsed \in 0..cold /\ created' \in Nat /\ created' > 0
  BY <1>1, SignInTypes
<1>3. CASE req[t].again
  <2> DEFINE r == [req[t] EXCEPT !.st = "verify", !.chal = created + 1]
  <2>1. Requests(t, r) /\ UNCHANGED page
    BY <1>3 DEF Issue
  <2>2. r \in Asked /\ r.st = "verify" /\ r.chal = created' /\ r.typed = req[t].typed /\ r.again
    BY <1>1, <1>3, SignInTypes DEF Asked
  <2> HIDE DEF r
  <2>3. req' \in [Tabs -> Asked] /\ req'[t] = r /\ \A u \in Tabs : u # t => req'[u] = req[u]
    BY <2>1, <2>2, RequestEffect
  <2>4. SignInTypeOK'
    BY <1>0, <1>1, <1>2, <2>1, <2>3 DEF SignInTypeOK, Asked
  <2>5. TypedSound(t)'
    BY <1>0, <1>1, <1>2, <1>3, <2>2, <2>3, SignInTypes DEF TabSound, TypedSound, Mailed, Asked
  <2>6. ChallengeSound(t)'
    BY <1>0, <1>1, <1>2, <2>1, <2>2, <2>3, SignInTypes DEF TabSound, ChallengeSound
  <2>7. FoundSound(t)' /\ RefusedRightly(t)'
    BY <2>2, <2>3 DEF FoundSound, RefusedRightly
  <2> QED BY <1>0, <1>1, <2>1, <2>2, <2>3, <2>4, <2>5, <2>6, <2>7 DEF TabStep, TabSound
<1>4. CASE ~req[t].again
  <2>1. Requests(t, NoRequest) /\ Asks(t, created + 1)
    BY <1>4 DEF Issue
  <2>2. req' \in [Tabs -> Asked] /\ req'[t] = NoRequest /\ \A u \in Tabs : u # t => req'[u] = req[u]
    BY <2>1, NoRequestType, RequestEffect
  <2>3. /\ page' \in [Tabs -> [chal : 0..MaxCodes, last : 0..MaxCodes]]
        /\ page'[t].chal = created' /\ \A u \in Tabs : u # t => page'[u] = page[u]
    BY <1>1, <2>1, SignInTypes DEF Asks
  <2>4. SignInTypeOK'
    BY <1>0, <1>1, <1>2, <2>2, <2>3 DEF SignInTypeOK, Asked
  <2>5. door.code \in {"mail", "app", "register"}
    BY <1>0 DEF TabSound, ChallengeSound
  <2>6. TabSound(t)'
    BY <1>0, <1>1, <1>2, <2>2, <2>3, <2>4, <2>5, OverSound
  <2>7. req'[t].st # "in"
    BY <2>2 DEF NoRequest
  <2> QED BY <1>0, <1>1, <2>2, <2>3, <2>4, <2>6, <2>7 DEF TabStep
<1> QED BY <1>3, <1>4

LEMMA SubmitCodeStep ==
  ASSUME SignInTypeOK, DoorSound, NEW t \in Tabs, NEW k \in 0..MaxCodes, SubmitCode(t, k)
  PROVE  TabStep(t)
<1> DEFINE r == [NoRequest EXCEPT !.st = "verify", !.chal = page[t].chal, !.typed = k]
<1>0. TabSound(t) /\ CodesSound /\ page[t].chal # 0 /\ k \in Typing /\ Requests(t, r)
      /\ UNCHANGED <<door, page, resend, codes, created, cold, lapsed, account>>
  BY DEF DoorSound, SubmitCode, stores
<1>1. page[t].chal \in 1..created /\ created \in Nat /\ door.code \in {"mail", "app", "register"}
  BY <1>0, SignInTypes DEF TabSound, ChallengeSound
<1>2. k # 0 => (Mailed /\ k <= created) \/ door.code = "app"
  BY <1>0, <1>1 DEF Typing, Mailed
<1>3. page[t].chal \in 0..MaxCodes
  BY SignInTypes
<1>4. r \in Asked /\ r.st = "verify" /\ r.chal = page[t].chal /\ r.typed = k /\ r.again = FALSE
  BY <1>3, NoRequestType DEF Asked
<1> HIDE DEF r
<1>5. req' \in [Tabs -> Asked] /\ req'[t] = r /\ \A u \in Tabs : u # t => req'[u] = req[u]
  BY <1>0, <1>4, RequestEffect
<1>6. SignInTypeOK' /\ CodesEvolve
  BY <1>0, <1>5, CodesStay DEF SignInTypeOK, Asked
<1>7. TabSound(t)'
  BY <1>0, <1>1, <1>2, <1>4, <1>5
    DEF TabSound, TypedSound, ChallengeSound, FoundSound, RefusedRightly, Mailed
<1> QED BY <1>0, <1>4, <1>5, <1>6, <1>7 DEF TabStep

LEMMA RenewStep ==
  ASSUME SignInTypeOK, DoorSound, NEW t \in Tabs, Renew(t)
  PROVE  TabStep(t)
<1>0. TabSound(t) /\ CodesSound /\ req[t].st = "verify" /\ Lapsed(req[t].chal) /\ door \in Ways
      /\ UNCHANGED <<door, page, resend, codes, created, cold, lapsed, account>>
  BY DEF DoorSound, Renew, Stage, stores
<1>1. req[t].chal \in 1..lapsed /\ door.code # "register" /\ ~req[t].again
  BY <1>0, SignInTypes DEF TabSound, ChallengeSound, Lapsed, Asked
<1>2. CASE door.renews
  <2> DEFINE r == [req[t] EXCEPT !.st = "login", !.again = TRUE]
  <2>1. Requests(t, r)
    BY <1>1, <1>2 DEF Renew
  <2>2. r \in Asked /\ r.st = "login" /\ r.typed = req[t].typed /\ r.again = TRUE
    BY SignInTypes DEF Asked
  <2> HIDE DEF r
  <2>3. req' \in [Tabs -> Asked] /\ req'[t] = r /\ \A u \in Tabs : u # t => req'[u] = req[u]
    BY <2>1, <2>2, RequestEffect
  <2>4. SignInTypeOK' /\ CodesEvolve
    BY <1>0, <2>3, CodesStay DEF SignInTypeOK, Asked
  <2>5. TabSound(t)'
    BY <1>0, <1>2, <2>2, <2>3
      DEF TabSound, TypedSound, ChallengeSound, FoundSound, RefusedRightly, Mailed
  <2> QED BY <1>0, <2>2, <2>3, <2>4, <2>5 DEF TabStep
<1>3. CASE ~door.renews
  <2>1. Refused(t)
    BY <1>3 DEF Renew
  <2>2. SignInTypeOK' /\ CodesEvolve
    BY <1>0, <2>1, RefusedEffect, CodesStay DEF SignInTypeOK, Asked
  <2>3. door.code # "app"
    BY <1>0, <1>3 DEF Ways, CompanyLogin, CompanyRegister, ConsoleLogin, EmployeeLogin,
      EmployeeRegister, ViewLink, Inside, Door
  <2>4. req[t].typed # 0 => door.code = "mail"
    BY <1>0, <1>1, <2>3 DEF TabSound, TypedSound, Mailed
  <2>5. RefusedRightly(t)'
    BY <1>0, <1>1, <2>1, <2>4, RefusedEffect DEF RefusedRightly
  <2>6. TabSound(t)'
    BY <1>0, <2>1, <2>2, <2>5, RefusedEffect, RefusedSound
  <2> QED BY <1>0, <2>1, <2>2, <2>6, RefusedEffect DEF TabStep
<1> QED BY <1>2, <1>3

LEMMA VerifyAppStep ==
  ASSUME SignInTypeOK, DoorSound, NEW t \in Tabs, VerifyApp(t)
  PROVE  TabStep(t)
<1>0. TabSound(t) /\ CodesSound /\ req[t].st = "verify" /\ door.code = "app" /\ ~Mailed
      /\ UNCHANGED <<door, page, resend, codes, created, cold, lapsed, account>>
  BY DEF DoorSound, VerifyApp, Stage, stores, Mailed
<1>1. CASE Admitted(t)
  <2>1. SignInTypeOK' /\ CodesEvolve
    BY <1>0, <1>1, AdmittedEffect, CodesStay DEF SignInTypeOK, Asked
  <2>2. TabSound(t)'
    BY <1>0, <1>1, AdmittedEffect
      DEF TabSound, TypedSound, ChallengeSound, FoundSound, RefusedRightly, Mailed
  <2> QED BY <1>0, <1>1, <2>1, <2>2, AdmittedEffect DEF TabStep
<1>2. CASE req[t].typed # 1 /\ Refused(t)
  <2>1. SignInTypeOK' /\ CodesEvolve
    BY <1>0, <1>2, RefusedEffect, CodesStay DEF SignInTypeOK, Asked
  <2>2. RefusedRightly(t)'
    BY <1>0, <1>2, RefusedEffect DEF RefusedRightly
  <2>3. TabSound(t)'
    BY <1>0, <1>2, <2>1, <2>2, RefusedEffect, RefusedSound
  <2> QED BY <1>0, <1>2, <2>1, <2>3, RefusedEffect DEF TabStep
<1> QED BY <1>1, <1>2 DEF VerifyApp

\* There is a newest unused code, if there is one at all.
LEMMA PendingNewest ==
  ASSUME SignInTypeOK, Live # {}
  PROVE  Pending \in Live /\ \A k \in Live : k <= Pending
<1> DEFINE T == {MaxCodes - n : n \in Live}
           R == OpToRel(<, Nat)
<1>1. T \subseteq Nat /\ T # {} /\ Live \subseteq Nat
  BY SignInAssumption DEF Live, Codes
<1>2. IsWellFoundedOn(R, Nat)
  BY NatLessThanWellFounded
<1>3. \A y \in T, x \in T : y < x => <<y, x>> \in R
  BY <1>1 DEF OpToRel
<1> HIDE DEF R
<1>4. PICK x \in T : \A y \in T : ~(<<y, x>> \in R)
  BY <1>1, <1>2, WFMin
<1>5. PICK n \in Live : x = MaxCodes - n
  BY <1>4
<1>6. ASSUME NEW k \in Live
      PROVE  k <= n
  <2>1. MaxCodes - k \in T /\ ~(MaxCodes - k < MaxCodes - n)
    BY <1>3, <1>4, <1>5
  <2> QED BY <1>1, <2>1, SignInAssumption
<1>7. \E m \in Live : \A k \in Live : k <= m
  BY <1>6
<1> QED BY <1>7, Zenon DEF Pending

LEMMA LookStep ==
  ASSUME SignInTypeOK, DoorSound, NEW t \in Tabs, Look(t)
  PROVE  TabStep(t)
<1>0. TabSound(t) /\ CodesSound /\ req[t].st = "verify" /\ Mailed
      /\ UNCHANGED <<door, page, resend, codes, created, cold, lapsed, account>>
  BY DEF DoorSound, Look, Stage, stores
<1>1. created \in Nat /\ lapsed \in Nat /\ created <= MaxCodes /\ MaxCodes \in Nat /\ req[t] \in Asked
  BY SignInTypes
<1>2. TypedNewest(t) /\ req[t].typed # 0 => Live # {} /\ Pending = created
  <2> SUFFICES ASSUME TypedNewest(t), req[t].typed # 0
               PROVE  Live # {} /\ Pending = created
    OBVIOUS
  <2>1. created \in Live
    BY <1>1 DEF TypedNewest, Live, Codes, Asked
  <2>2. \A k \in Live : k <= created /\ k \in Nat
    BY <1>0, SignInTypes DEF CodesSound, Live, Codes
  <2>3. Pending \in Live /\ created <= Pending
    BY <2>1, PendingNewest
  <2> QED BY <2>1, <2>2, <2>3, <1>1
<1>3. CASE Live = {} \/ Pending <= lapsed
  <2>0. Refused(t)
    BY <1>3 DEF Look
  <2>1. SignInTypeOK' /\ CodesEvolve
    BY <1>0, <2>0, RefusedEffect, CodesStay DEF SignInTypeOK, Asked
  <2>2. TypedNewest(t)' <=> TypedNewest(t)
    BY <1>0, <2>0, RefusedEffect DEF TypedNewest
  <2>3. RefusedRightly(t)'
    BY <1>0, <1>1, <1>2, <1>3, <2>0, <2>2, RefusedEffect DEF RefusedRightly, Mailed
  <2>4. TabSound(t)'
    BY <1>0, <2>0, <2>1, <2>3, RefusedEffect, RefusedSound
  <2> QED BY <1>0, <2>0, <2>1, <2>4, RefusedEffect DEF TabStep
<1>4. CASE ~(Live = {} \/ Pending <= lapsed) /\ codes[Pending].tries >= MaxTries
  <2>0. Exhausted(t)
    BY <1>4 DEF Look
  <2>1. SignInTypeOK' /\ CodesEvolve
    BY <1>0, <2>0, RefusedEffect, CodesStay DEF SignInTypeOK, Asked
  <2>2. RefusedRightly(t)'
    BY <1>0, <2>0, RefusedEffect, SignInAssumption DEF RefusedRightly, Mailed
  <2>3. TabSound(t)'
    BY <1>0, <2>0, <2>1, <2>2, RefusedEffect, RefusedSound
  <2> QED BY <1>0, <2>0, <2>1, <2>3, RefusedEffect DEF TabStep
<1>5. CASE ~(Live = {} \/ Pending <= lapsed) /\ ~(codes[Pending].tries >= MaxTries)
  <2> DEFINE n == Pending
             a == [req[t] EXCEPT !.st = "found", !.found = n, !.chal = 0]
             b == [req[t] EXCEPT !.st = "wrong", !.found = n, !.chal = 0, !.tries = codes[n].tries + 1]
  <2>1. (n = req[t].typed /\ Requests(t, a)) \/ (n # req[t].typed /\ Requests(t, b))
    BY <1>5 DEF Look
  <2>2. n \in Codes /\ n \in 1..created /\ codes[n].tries \in 0..MaxTries
    BY <1>0, <1>5, PendingNewest, SignInTypes DEF CodesSound, Live, Codes
  <2>3. codes[n].tries + 1 \in 0..MaxTries /\ n \in 0..MaxCodes /\ 0 \in 0..MaxCodes
    BY <1>5, <2>2, SignInAssumption DEF Codes
  <2>4. a \in Asked /\ a.st = "found" /\ a.found = n /\ a.typed = req[t].typed /\ a.again = req[t].again
    BY <1>1, <2>3 DEF Asked
  <2>5. b \in Asked /\ b.st = "wrong" /\ b.found = n /\ b.typed = req[t].typed /\ b.again = req[t].again
    BY <1>1, <2>3 DEF Asked
  <2> HIDE DEF n, a, b
  <2>6. PICK r \in Asked :
          /\ r.found = n /\ r.typed = req[t].typed /\ r.again = req[t].again /\ Requests(t, r)
          /\ (r.st = "found" /\ n = req[t].typed) \/ (r.st = "wrong" /\ n # req[t].typed)
    BY <2>1, <2>4, <2>5
  <2>7. req' \in [Tabs -> Asked] /\ req'[t] = r /\ \A u \in Tabs : u # t => req'[u] = req[u]
    BY <2>6, RequestEffect
  <2>8. SignInTypeOK' /\ CodesEvolve
    BY <1>0, <2>7, CodesStay DEF SignInTypeOK, Asked
  <2>9. TypedSound(t)' /\ ChallengeSound(t)' /\ RefusedRightly(t)'
    BY <1>0, <2>6, <2>7 DEF TabSound, TypedSound, ChallengeSound, RefusedRightly, Mailed
  <2>10. r.st = "wrong" => ~TypedNewest(t)
    BY <1>1, <1>2, <2>2, <2>6 DEF TypedNewest, n
  <2>11. TypedNewest(t)' <=> TypedNewest(t)
    BY <1>0, <2>6, <2>7 DEF TypedNewest
  <2>12. FoundSound(t)'
    BY <1>0, <2>2, <2>6, <2>7, <2>10, <2>11 DEF FoundSound, Mailed
  <2> QED BY <1>0, <2>6, <2>7, <2>8, <2>9, <2>12 DEF TabStep, TabSound
<1> QED BY <1>3, <1>4, <1>5

LEMMA CountWrongStep ==
  ASSUME SignInTypeOK, DoorSound, NEW t \in Tabs, CountWrong(t)
  PROVE  TabStep(t)
<1>0. /\ TabSound(t) /\ CodesSound /\ req[t].st = "wrong" /\ Refused(t)
      /\ UNCHANGED <<door, page, resend, created, cold, lapsed, account>>
      /\ codes' = IF codes[req[t].found] = Spent THEN codes
                  ELSE [codes EXCEPT ![req[t].found].tries = req[t].tries]
  BY DEF DoorSound, CountWrong, Stage
<1>1. req[t].found \in Codes /\ req[t].tries \in 0..MaxTries /\ Mailed /\ ~TypedNewest(t)
  BY <1>0, SignInTypes DEF TabSound, FoundSound, Asked, Codes
<1>2. /\ codes' \in [Codes -> [st : {"none", "live", "used"}, tries : 0..MaxTries]]
      /\ \A n \in Codes : codes'[n].st = codes[n].st
  BY <1>0, <1>1, SignInTypes
<1>3. CodesEvolve
  BY <1>0, <1>2, SignInTypes DEF CodesEvolve, CodesSound
<1>4. SignInTypeOK'
  BY <1>0, <1>2, RefusedEffect DEF SignInTypeOK, Asked
<1>5. req[t].typed # 0 => ~TypedNewest(t)'
  <2>1. req[t].typed # 0 /\ req[t].typed = created => created \in Codes
    BY SignInTypes DEF Asked, Codes
  <2> QED BY <1>0, <1>1, <1>2, <2>1, RefusedEffect DEF TypedNewest
<1>6. RefusedRightly(t)'
  BY <1>0, <1>1, <1>5, RefusedEffect DEF RefusedRightly, Mailed
<1>7. TabSound(t)'
  BY <1>0, <1>3, <1>4, <1>6, RefusedEffect, RefusedSound
<1> QED BY <1>0, <1>3, <1>4, <1>7, RefusedEffect DEF TabStep

LEMMA ConsumeStep ==
  ASSUME SignInTypeOK, DoorSound, NEW t \in Tabs, Consume(t)
  PROVE  TabStep(t)
<1> DEFINE n == req[t].found
<1>0. /\ TabSound(t) /\ CodesSound /\ req[t].st = "found"
      /\ UNCHANGED <<door, page, resend, created, cold, lapsed>>
      /\ codes' = [codes EXCEPT ![n] = Spent]
      /\ Refused(t) \/ (codes[n].st = "live" /\ Admitted(t))
      /\ account' \in BOOLEAN
  BY DEF DoorSound, Consume, Stage
<1>1. n \in Codes /\ n \in 1..created /\ Mailed /\ n = req[t].typed
  BY <1>0, SignInTypes DEF TabSound, FoundSound, Codes
<1>2. Spent \in [st : {"none", "live", "used"}, tries : 0..MaxTries] /\ Spent.st = "used"
  BY SignInAssumption DEF Spent
<1> HIDE DEF n
<1>3. /\ codes' \in [Codes -> [st : {"none", "live", "used"}, tries : 0..MaxTries]]
      /\ codes'[n].st = "used" /\ \A k \in Codes : k # n => codes'[k] = codes[k]
  BY <1>0, <1>1, <1>2, SignInTypes
<1>4. CodesEvolve
  BY <1>0, <1>1, <1>3, SignInTypes DEF CodesEvolve, CodesSound, Codes
<1>5. CASE Refused(t)
  <2>1. SignInTypeOK'
    BY <1>0, <1>3, <1>5, RefusedEffect DEF SignInTypeOK, Asked
  <2>2. ~TypedNewest(t)'
    BY <1>0, <1>1, <1>3, <1>5, RefusedEffect DEF TypedNewest
  <2>3. RefusedRightly(t)'
    BY <1>0, <1>1, <1>5, <2>2, RefusedEffect DEF RefusedRightly, Mailed
  <2>4. TabSound(t)'
    BY <1>0, <1>4, <1>5, <2>1, <2>3, RefusedEffect, RefusedSound
  <2> QED BY <1>0, <1>4, <1>5, <2>1, <2>4, RefusedEffect DEF TabStep
<1>6. CASE codes[n].st = "live" /\ Admitted(t)
  <2>1. SignInTypeOK'
    BY <1>0, <1>3, <1>6, AdmittedEffect DEF SignInTypeOK, Asked
  <2>2. req'[t].found = n
    BY <1>6, AdmittedEffect DEF n
  <2>3. TabSound(t)'
    BY <1>0, <1>1, <1>3, <1>6, <2>2, AdmittedEffect
      DEF TabSound, TypedSound, ChallengeSound, FoundSound, RefusedRightly, Mailed
  <2> QED BY <1>0, <1>4, <1>6, <2>1, <2>2, <2>3, AdmittedEffect DEF TabStep
<1> QED BY <1>0, <1>5, <1>6

LEMMA OverStep ==
  ASSUME SignInTypeOK, DoorSound, NEW t \in Tabs, ShowError(t) \/ Fault(t)
  PROVE  TabStep(t)
<1>0. TabSound(t) /\ CodesSound /\ Requests(t, NoRequest)
      /\ UNCHANGED <<door, page, resend, codes, created, cold, lapsed, account>>
  BY DEF DoorSound, ShowError, Fault, stores
<1>1. req' \in [Tabs -> Asked] /\ req'[t] = NoRequest /\ \A u \in Tabs : u # t => req'[u] = req[u]
  BY <1>0, NoRequestType, RequestEffect
<1>2. SignInTypeOK' /\ CodesEvolve
  BY <1>0, <1>1, CodesStay DEF SignInTypeOK, Asked
<1>3. TabSound(t)'
  BY <1>0, <1>1, <1>2, OverSound DEF TabSound, ChallengeSound
<1> QED BY <1>0, <1>1, <1>2, <1>3, NoRequestType DEF TabStep

\* A step that leaves the requests alone.
LEMMA PageStep ==
  ASSUME SignInTypeOK, DoorSound, NEW t \in Tabs, SignInTypeOK', CodesEvolve, UNCHANGED <<door, req>>,
         page'[t].chal \in {0, page[t].chal}, \A u \in Tabs : u # t => page'[u] = page[u]
  PROVE  TabStep(t)
  BY OtherTabs DEF TabStep, DoorSound

LEMMA BackStep ==
  ASSUME SignInTypeOK, DoorSound, NEW t \in Tabs, Back(t)
  PROVE  TabStep(t)
<1>1. /\ page' = [page EXCEPT ![t] = Fresh]
      /\ UNCHANGED <<door, req, resend, codes, created, cold, lapsed, account>>
  BY DEF Back, stores
<1>2. Fresh \in [chal : 0..MaxCodes, last : 0..MaxCodes] /\ Fresh.chal = 0
  BY SignInAssumption DEF Fresh
<1>3. /\ page' \in [Tabs -> [chal : 0..MaxCodes, last : 0..MaxCodes]]
      /\ page'[t].chal = 0 /\ \A u \in Tabs : u # t => page'[u] = page[u]
  BY <1>1, <1>2, SignInTypes
<1>4. SignInTypeOK' /\ CodesEvolve
  BY <1>1, <1>3, CodesStay DEF SignInTypeOK, DoorSound
<1> QED BY <1>1, <1>3, <1>4, PageStep

LEMMA ResendCodeStep ==
  ASSUME SignInTypeOK, DoorSound, NEW t \in Tabs, ResendCode(t)
  PROVE  TabStep(t)
<1>1. /\ Resends(t, [st |-> "sent", chal |-> page[t].chal])
      /\ UNCHANGED <<door, page, req, codes, created, cold, lapsed, account>>
  BY DEF ResendCode, stores
<1>2. resend' \in [Tabs -> [st : {"none", "sent", "issuing"}, chal : 0..MaxCodes]]
  BY <1>1, SignInTypes DEF Resends
<1>3. SignInTypeOK' /\ CodesEvolve
  BY <1>1, <1>2, CodesStay DEF SignInTypeOK, DoorSound
<1> QED BY <1>1, <1>3, PageStep

LEMMA AnswerResendStep ==
  ASSUME SignInTypeOK, DoorSound, NEW t \in Tabs, AnswerResend(t)
  PROVE  TabStep(t)
<1>0. UNCHANGED <<door, req>> /\ CodesSound
  BY DEF AnswerResend, DoorSound
<1>1. NoResend \in [st : {"none", "sent", "issuing"}, chal : 0..MaxCodes]
      /\ [st |-> "issuing", chal |-> 0] \in [st : {"none", "sent", "issuing"}, chal : 0..MaxCodes]
  BY SignInAssumption DEF NoResend
<1>2. resend' \in [Tabs -> [st : {"none", "sent", "issuing"}, chal : 0..MaxCodes]]
  BY <1>1, SignInTypes DEF AnswerResend, Resends
<1>3. Fresh \in [chal : 0..MaxCodes, last : 0..MaxCodes] /\ Fresh.chal = 0
  BY SignInAssumption DEF Fresh
<1>4. /\ page' \in [Tabs -> [chal : 0..MaxCodes, last : 0..MaxCodes]]
      /\ page'[t].chal \in {0, page[t].chal} /\ \A u \in Tabs : u # t => page'[u] = page[u]
  <2>1. UNCHANGED page \/ page' = [page EXCEPT ![t] = Fresh]
    BY DEF AnswerResend
  <2> QED BY <2>1, <1>3, SignInTypes
<1>5. /\ CodesEvolve /\ codes' \in [Codes -> [st : {"none", "live", "used"}, tries : 0..MaxTries]]
      /\ UNCHANGED <<created, cold, lapsed, account>>
  <2>1. Retire \/ UNCHANGED stores
    BY DEF AnswerResend
  <2> QED BY <2>1, <1>0, RetireEffect, CodesStay, SignInTypes DEF stores
<1>6. SignInTypeOK'
  BY <1>0, <1>2, <1>4, <1>5 DEF SignInTypeOK
<1> QED BY <1>0, <1>4, <1>5, <1>6, PageStep

LEMMA IssueResendStep ==
  ASSUME SignInTypeOK, DoorSound, NEW t \in Tabs, IssueResend(t)
  PROVE  TabStep(t)
<1>0. /\ UNCHANGED <<door, req>> /\ CodesSound /\ Create /\ Resends(t, NoResend)
      /\ page' = [page EXCEPT ![t].last = created + 1]
  BY DEF IssueResend, DoorSound
<1>1. /\ CodesEvolve /\ codes' \in [Codes -> [st : {"none", "live", "used"}, tries : 0..MaxTries]]
      /\ created' = created + 1 /\ created' \in 0..MaxCodes
      /\ UNCHANGED <<cold, lapsed, account>>
  BY <1>0, CreateEffect
<1>2. NoResend \in [st : {"none", "sent", "issuing"}, chal : 0..MaxCodes]
  BY SignInAssumption DEF NoResend
<1>3. resend' \in [Tabs -> [st : {"none", "sent", "issuing"}, chal : 0..MaxCodes]]
  BY <1>0, <1>2, SignInTypes DEF Resends
<1>4. /\ page' \in [Tabs -> [chal : 0..MaxCodes, last : 0..MaxCodes]]
      /\ page'[t].chal = page[t].chal /\ \A u \in Tabs : u # t => page'[u] = page[u]
  BY <1>0, <1>1, SignInTypes
<1>5. created \in Nat /\ cold \in 0..created /\ lapsed \in 0..cold
  BY SignInTypes
<1>6. SignInTypeOK'
  BY <1>0, <1>1, <1>3, <1>4, <1>5 DEF SignInTypeOK
<1> QED BY <1>0, <1>1, <1>4, <1>6, PageStep

\* The passing of time.
LEMMA CoolKeeps ==
  ASSUME SignInTypeOK, DoorSound, Cool
  PROVE  SignInTypeOK' /\ DoorSound'
<1>0. /\ UNCHANGED <<door, req, resend, codes, created, lapsed, account>> /\ CodesSound
      /\ cold < created /\ cold' = cold + 1
  BY DEF Cool, DoorSound
<1>1. /\ page' \in [Tabs -> [chal : 0..MaxCodes, last : 0..MaxCodes]]
      /\ \A u \in Tabs : page'[u].chal = page[u].chal
  <2>1. page' = [t \in Tabs |-> IF page[t].last = cold + 1 THEN [page[t] EXCEPT !.last = 0] ELSE page[t]]
    BY DEF Cool
  <2>2. \A t \in Tabs :
          /\ [page[t] EXCEPT !.last = 0] \in [chal : 0..MaxCodes, last : 0..MaxCodes]
          /\ [page[t] EXCEPT !.last = 0].chal = page[t].chal
    BY SignInTypes, SignInAssumption
  <2> QED BY <2>1, <2>2, SignInTypes
<1>2. SignInTypeOK' /\ CodesEvolve
  BY <1>0, <1>1, CodesStay, SignInTypes DEF SignInTypeOK
<1>3. \A u \in Tabs : TabSound(u)'
  BY <1>0, <1>1, <1>2, OtherTabs DEF DoorSound
<1>4. OneEach' /\ CodesSound'
  BY <1>0 DEF DoorSound, OneEach, CodesSound, Mailed
<1> QED BY <1>0, <1>2, <1>3, <1>4 DEF DoorSound

LEMMA LapseKeeps ==
  ASSUME SignInTypeOK, DoorSound, Lapse
  PROVE  SignInTypeOK' /\ DoorSound'
<1>0. /\ UNCHANGED <<door, page, req, resend, codes, created, cold, account>>
      /\ lapsed < cold /\ lapsed' = lapsed + 1
      /\ \A t \in Tabs : req[t].again => req[t].chal # lapsed + 1
  BY DEF Lapse
<1>1. SignInTypeOK'
  BY <1>0, SignInTypes DEF SignInTypeOK
<1>2. ASSUME NEW u \in Tabs
      PROVE  TabSound(u)'
  <2>1. TabSound(u) /\ req[u] \in Asked /\ lapsed \in Nat /\ created \in Nat
    BY SignInTypes DEF DoorSound
  <2>2. TypedSound(u)' /\ FoundSound(u)'
    BY <1>0, <2>1 DEF TabSound, TypedSound, FoundSound, TypedNewest, Mailed
  <2>3. ChallengeSound(u)'
    BY <1>0, <2>1 DEF TabSound, ChallengeSound, Asked
  <2>4. RefusedRightly(u)'
    BY <1>0, <2>1 DEF TabSound, RefusedRightly, TypedNewest, Mailed, Asked
  <2> QED BY <2>2, <2>3, <2>4 DEF TabSound
<1>3. OneEach' /\ CodesSound'
  BY <1>0 DEF DoorSound, OneEach, CodesSound, Mailed
<1> QED BY <1>0, <1>1, <1>2, <1>3 DEF DoorSound

LEMMA AtTheDoorKeeps ==
  ASSUME SignInTypeOK, DoorSound, AtTheDoor
  PROVE  SignInTypeOK' /\ DoorSound' /\ door' = door
<1>1. ASSUME NEW t \in Tabs, TabStep(t)
      PROVE  SignInTypeOK' /\ DoorSound' /\ door' = door
  BY <1>1, TabStepKeeps DEF TabStep
<1>2. ASSUME NEW t \in Tabs,
             \/ Submit(t) \/ Signup(t) \/ Login(t) \/ Issue(t)
             \/ \E k \in 0..MaxCodes : SubmitCode(t, k)
             \/ Renew(t) \/ VerifyApp(t) \/ Look(t) \/ CountWrong(t) \/ Consume(t)
             \/ ShowError(t) \/ Fault(t) \/ Back(t)
             \/ ResendCode(t) \/ AnswerResend(t) \/ IssueResend(t)
      PROVE  TabStep(t)
  BY <1>2, SubmitStep, SignupStep, LoginStep, IssueStep, SubmitCodeStep, RenewStep, VerifyAppStep,
    LookStep, CountWrongStep, ConsumeStep, OverStep, BackStep, ResendCodeStep, AnswerResendStep,
    IssueResendStep
<1>3. CASE Cool \/ Lapse
  <2>1. door' = door
    BY <1>3 DEF Cool, Lapse
  <2> QED BY <1>3, <2>1, CoolKeeps, LapseKeeps
<1> QED BY <1>1, <1>2, <1>3 DEF AtTheDoor

-----------------------------------------------------------------------------
(* Steps in the session.                                                   *)

Called ==
  [st : {"idle", "session", "waiting", "answered", "sent", "ran", "401"}, kind : {"api", "layout"},
   tok : Tokens, sure : BOOLEAN, retried : BOOLEAN, ran : 0..2]

LEMMA SessionTypes ==
  ASSUME SessionTypeOK
  PROVE  /\ call \in [Calls -> Called] /\ \A c \in Calls : call[c] \in Called /\ call[c].tok \in Tokens
         /\ flying \in [Pairs -> [st : {"none", "sent", "done", "failed"}, got : Pairs]]
         /\ access \in [Pairs -> {"none", "fresh", "due", "expired"}]
         /\ refresh \in [Pairs -> {"none", "live", "rotated", "dead"}]
         /\ pairs \in Pairs /\ faults \in 0..MaxFaults /\ refused \in BOOLEAN /\ outlasted \in BOOLEAN
         /\ {pairs, faults, MaxPairs, MaxFaults} \subseteq Nat
         /\ f \in [retries : BOOLEAN, refreshes : BOOLEAN]
         /\ SignedIn => cookie \in Tokens
<1>1. NoPortal \in [retries : BOOLEAN, refreshes : BOOLEAN]
  BY DEF NoPortal, Portal
<1>2. f \in [retries : BOOLEAN, refreshes : BOOLEAN]
  BY <1>1, PortalsAssumption DEF SessionTypeOK
<1>3. \A c \in Calls : call[c].tok \in Tokens
  BY DEF SessionTypeOK
<1>4. call \in [Calls -> Called] /\ \A c \in Calls : call[c] \in Called
  BY DEF SessionTypeOK, Called
<1>5. {pairs, faults, MaxPairs, MaxFaults} \subseteq Nat
  BY BoundsAssumption DEF SessionTypeOK, Pairs
<1>6. SignedIn => cookie \in Tokens
  BY DEF SessionTypeOK, SignedIn
<1>7. /\ flying \in [Pairs -> [st : {"none", "sent", "done", "failed"}, got : Pairs]]
      /\ access \in [Pairs -> {"none", "fresh", "due", "expired"}]
      /\ refresh \in [Pairs -> {"none", "live", "rotated", "dead"}]
      /\ pairs \in Pairs /\ faults \in 0..MaxFaults /\ refused \in BOOLEAN /\ outlasted \in BOOLEAN
  BY DEF SessionTypeOK
<1> QED BY <1>2, <1>3, <1>4, <1>5, <1>6, <1>7

LEMMA IdleFacts ==
  /\ Idle \in Called /\ Idle.st = "idle" /\ Idle.ran = 0 /\ Idle.sure = FALSE /\ Idle.retried = FALSE
  /\ Idle.tok \in Tokens /\ Idle.tok.pair = 0 /\ Idle.tok.error = FALSE
<1>1. Token(0, FALSE) \in Tokens /\ Token(0, FALSE).pair = 0 /\ Token(0, FALSE).error = FALSE
  BY BoundsAssumption DEF Token, Tokens, Pairs
<1>2. /\ Idle.st = "idle" /\ Idle.ran = 0 /\ Idle.sure = FALSE /\ Idle.retried = FALSE
      /\ Idle.tok = Token(0, FALSE)
  BY DEF Idle
<1>3. Idle \in Called
  BY <1>1, 0 \in 0..2 DEF Idle, Called
<1> QED BY <1>1, <1>2, <1>3

LEMMA TokenFacts ==
  /\ \A n \in Pairs, e \in BOOLEAN :
       Token(n, e) \in Tokens /\ Token(n, e).pair = n /\ Token(n, e).error = e
  /\ \A x \in Tokens : x # None /\ x.pair \in Pairs /\ x.error \in BOOLEAN
<1>1. \A x \in Tokens : DOMAIN x = {"pair", "error"}
  BY DEF Tokens
<1>2. DOMAIN None = {"none"}
  BY DEF None
<1>3. \A x \in Tokens : x # None
  BY <1>1, <1>2
<1> QED BY <1>3 DEF Token, Tokens

\* A step of one call.
CallStep(c) ==
  /\ call' \in [Calls -> Called] /\ \A d \in Calls : d # c => call'[d] = call[d]
  /\ UNCHANGED <<f, cookie, flying, access, refresh, pairs, faults, outlasted>>
  /\ refused' \in BOOLEAN /\ (refused => refused')
  /\ call'[c].ran = IF call'[c].st = "ran" THEN 1 ELSE 0
  /\ Staying => CallSound(c)'

LEMMA CallStepKeeps ==
  ASSUME SessionTypeOK, SessionSound, SignedIn, NEW c \in Calls, CallStep(c)
  PROVE  SessionTypeOK' /\ SessionSound'
<1>0. /\ call' \in [Calls -> Called] /\ \A d \in Calls : d # c => call'[d] = call[d]
      /\ UNCHANGED <<f, cookie, flying, access, refresh, pairs, faults, outlasted>>
      /\ refused' \in BOOLEAN /\ (refused => refused')
  BY DEF CallStep
<1>1. SessionTypeOK'
  BY <1>0 DEF SessionTypeOK, Called
<1>2. RanSound'
  BY <1>0 DEF CallStep, SessionSound, RanSound
<1>3. NoSpuriousSignOut'
  BY <1>0 DEF NoSpuriousSignOut, SignedOut, SignedIn
<1>4. Staying' => StaySound'
  <2>1. SUFFICES ASSUME Staying PROVE StaySound'
    BY <1>0 DEF Staying, SignedIn, Unstored
  <2>2. CookieSound' /\ FlightsSound'
    BY <2>1, <1>0 DEF SessionSound, StaySound, CookieSound, FlightsSound, Accepted
  <2>3. ASSUME NEW d \in Calls
        PROVE  CallSound(d)'
    <3>1. CASE d = c
      BY <2>1, <3>1 DEF CallStep
    <3>2. CASE d # c
      <4>1. CallSound(d) /\ call'[d] = call[d]
        BY <1>0, <2>1, <3>2 DEF SessionSound, StaySound
      <4>2. Untold' => Untold
        BY <1>0 DEF Untold
      <4>3. Marked(d)' <=> Marked(d)
        BY <4>1 DEF Marked
      <4> QED BY <1>0, <4>1, <4>2, <4>3 DEF CallSound, Accepted
    <3> QED BY <3>1, <3>2
  <2> QED BY <2>2, <2>3 DEF StaySound
<1> QED BY <1>1, <1>2, <1>3, <1>4 DEF SessionSound

\* What is common to the steps of a call.
LEMMA CallFacts ==
  ASSUME SessionTypeOK, SessionSound, SignedIn, NEW c \in Calls
  PROVE  /\ call[c] \in Called /\ call[c].tok \in Tokens /\ call[c].tok.pair \in Pairs
         /\ cookie \in Tokens
         /\ call[c].ran = IF call[c].st = "ran" THEN 1 ELSE 0
         /\ Staying => CallSound(c) /\ CookieSound /\ FlightsSound
         /\ Staying => \A r \in Pairs : flying[r].st = "done" => flying[r].got # 0
<1>1. Staying => \A r \in Pairs : flying[r].st = "done" => flying[r].got # 0
  BY SessionTypes DEF SessionSound, StaySound, FlightsSound
<1> QED BY <1>1, SessionTypes, TokenFacts DEF SessionSound, RanSound, StaySound

LEMMA EndsStep ==
  ASSUME SessionTypeOK, SessionSound, SignedIn, NEW c \in Calls, Ends(c),
         UNCHANGED <<f, cookie, flying, access, refresh, pairs, faults, refused, outlasted>>
  PROVE  CallStep(c)
<1>1. /\ call' \in [Calls -> Called] /\ call'[c] = Idle /\ \A d \in Calls : d # c => call'[d] = call[d]
  BY IdleFacts, SessionTypes DEF Ends
<1>2. Staying => CallSound(c)'
  <2> SUFFICES ASSUME Staying PROVE CallSound(c)'
    OBVIOUS
  <2>1. \A r \in Pairs : flying'[r].st = "done" => flying'[r].got # 0
    BY CallFacts
  <2>2. pairs' \in Nat
    BY SessionTypes
  <2> QED BY <1>1, <2>1, <2>2, IdleFacts DEF CallSound, Marked
<1> QED BY <1>1, <1>2, IdleFacts, SessionTypes DEF CallStep

LEMMA AnsweredEffect ==
  ASSUME SessionTypeOK, SessionSound, SignedIn, NEW c \in Calls, NEW st \in {"ran", "401"},
         NEW n \in {0, 1}, call[c].st = "sent", Answered(c, st, n)
  PROVE  /\ call' \in [Calls -> Called] /\ \A d \in Calls : d # c => call'[d] = call[d]
         /\ call'[c].st = st /\ call'[c].tok = Idle.tok /\ call'[c].sure = FALSE
         /\ call'[c].ran = n /\ call'[c].retried = call[c].retried
<1> DEFINE x == [call[c] EXCEPT !.st = st, !.tok = Idle.tok, !.sure = FALSE, !.ran = @ + n]
<1>1. call[c] \in Called /\ call[c].ran = 0
  BY CallFacts
<1>2. call[c].ran + n = n /\ n \in 0..2
  BY <1>1
<1>3. /\ x \in Called /\ x.st = st /\ x.tok = Idle.tok /\ x.sure = FALSE /\ x.ran = n
      /\ x.retried = call[c].retried
  BY <1>1, <1>2, IdleFacts DEF Called
<1>4. call' = [call EXCEPT ![c] = x]
  BY DEF Answered
<1> HIDE DEF x
<1> QED BY <1>3, <1>4, SessionTypes

LEMMA GetSessionStep ==
  ASSUME SessionTypeOK, SessionSound, SignedIn, NEW c \in Calls, NEW kind \in {"api", "layout"},
         NEW again \in BOOLEAN, GetSession(c, kind, again), call[c].st # "ran",
         UNCHANGED <<f, cookie, flying, access, refresh, pairs, faults, refused, outlasted>>,
         again => f.retries /\ call[c].st = "401"
  PROVE  CallStep(c)
<1> DEFINE x == [st |-> "session", kind |-> kind, tok |-> cookie, sure |-> FALSE, retried |-> again,
                 ran |-> call[c].ran]
<1>1. call[c] \in Called /\ call[c].ran = 0 /\ cookie \in Tokens /\ 0 \in 0..2
  BY CallFacts
<1>2. x \in Called /\ x.st = "session" /\ x.tok = cookie /\ x.ran = 0 /\ x.retried = again
  BY <1>1 DEF Called
<1>3. call' = [call EXCEPT ![c] = x]
  BY DEF GetSession
<1> HIDE DEF x
<1>4. call' \in [Calls -> Called] /\ call'[c] = x /\ \A d \in Calls : d # c => call'[d] = call[d]
  BY <1>2, <1>3, SessionTypes
<1>5. Staying => CallSound(c)'
  <2> SUFFICES ASSUME Staying PROVE CallSound(c)'
    OBVIOUS
  <2>1. CookieSound /\ CallSound(c)
    BY CallFacts
  <2>2. Untold' => ~again
    <3>1. Untold' => Untold
      BY DEF Untold
    <3>2. Untold => call[c].st # "401"
      BY <2>1 DEF CallSound, Marked
    <3> QED BY <3>1, <3>2
  <2>3. ~Marked(c)' \/ again
    BY <1>2, <1>4, <2>1 DEF Marked, CookieSound
  <2> QED BY <1>2, <1>4, <2>1, <2>2, <2>3 DEF CallSound, CookieSound, Accepted
<1> QED BY <1>2, <1>4, <1>5, SessionTypes DEF CallStep

LEMMA JwtAsIsStep ==
  ASSUME SessionTypeOK, SessionSound, NEW c \in Calls, JwtAsIs(c)
  PROVE  CallStep(c)
<1> DEFINE n == call[c].tok.pair
           good == access[n] = "fresh"
           x == [call[c] EXCEPT !.st = "answered", !.sure = good, !.tok = Token(n, ~good)]
<1>0. /\ SignedIn /\ call[c].st = "session" /\ (good \/ ~f.refreshes)
      /\ call' = [call EXCEPT ![c] = x]
      /\ UNCHANGED <<f, cookie, flying, access, refresh, pairs, faults, refused, outlasted>>
  BY DEF JwtAsIs, At
<1>1. call[c] \in Called /\ n \in Pairs /\ call[c].ran = 0 /\ good \in BOOLEAN
  BY <1>0, CallFacts
<1>2. Token(n, ~good) \in Tokens /\ Token(n, ~good).pair = n /\ Token(n, ~good).error = ~good
  BY <1>1, TokenFacts
<1> HIDE DEF n, good
<1>3. /\ x \in Called /\ x.st = "answered" /\ x.sure = good /\ x.tok = Token(n, ~good)
      /\ x.ran = 0 /\ x.retried = call[c].retried
  BY <1>1, <1>2 DEF Called
<1> HIDE DEF x
<1>4. call' \in [Calls -> Called] /\ call'[c] = x /\ \A d \in Calls : d # c => call'[d] = call[d]
  BY <1>0, <1>3, SessionTypes
<1>5. Staying => CallSound(c)'
  <2>1. SUFFICES ASSUME Staying PROVE CallSound(c)'
    OBVIOUS
  <2>2. CallSound(c) /\ good = TRUE /\ access[n] # "expired"
    BY <1>0, <1>1, <2>1, CallFacts DEF Staying, good
  <2>3. call'[c].tok.pair = n /\ call'[c].tok.error = FALSE /\ call'[c].sure = TRUE
    BY <1>2, <1>3, <1>4, <2>2
  <2>4. Untold' => ~Marked(c)'
    <3>1. Untold' => Untold
      BY <1>0 DEF Untold
    <3>2. Untold => ~call[c].retried
      BY <2>2 DEF CallSound, Marked
    <3> QED BY <1>3, <1>4, <2>3, <3>1, <3>2 DEF Marked
  <2> QED BY <1>0, <1>3, <1>4, <2>2, <2>3, <2>4 DEF CallSound, Accepted, n
<1> QED BY <1>0, <1>3, <1>4, <1>5, SessionTypes DEF CallStep

\* The API answers: only a call with a token it was not sure of gets a 401
\* that is not a handler's own.
LEMMA AnsweredStep ==
  ASSUME SessionTypeOK, SessionSound, NEW c \in Calls, Carry(c) \/ Unauthorized(c) \/ Refuse(c)
  PROVE  CallStep(c)
<1>0. /\ SignedIn /\ call[c].st = "sent"
      /\ UNCHANGED <<f, cookie, flying, access, refresh, pairs, faults, outlasted>>
  BY DEF Carry, Unauthorized, Refuse, At
<1>1. PICK st \in {"ran", "401"}, n \in {0, 1} :
        /\ Answered(c, st, n) /\ n = (IF st = "ran" THEN 1 ELSE 0)
        /\ \/ st = "ran" /\ UNCHANGED refused
           \/ access[call[c].tok.pair] = "expired" /\ UNCHANGED refused
           \/ refused' = TRUE
  <2>1. CASE Carry(c)
    <3>1. Answered(c, "ran", 1) /\ UNCHANGED refused
      BY <2>1 DEF Carry
    <3> QED BY <3>1
  <2>2. CASE Unauthorized(c)
    <3>1. Answered(c, "401", 0) /\ access[call[c].tok.pair] = "expired" /\ UNCHANGED refused
      BY <2>2 DEF Unauthorized
    <3> QED BY <3>1
  <2>3. CASE Refuse(c)
    <3>1. Answered(c, "401", 0) /\ refused' = TRUE
      BY <2>3 DEF Refuse
    <3> QED BY <3>1
  <2> QED BY <2>1, <2>2, <2>3
<1>2. /\ call' \in [Calls -> Called] /\ \A d \in Calls : d # c => call'[d] = call[d]
      /\ call'[c].st = st /\ call'[c].tok = Idle.tok /\ call'[c].sure = FALSE
      /\ call'[c].ran = n /\ call'[c].retried = call[c].retried
  BY <1>0, <1>1, AnsweredEffect
<1>3. refused' \in BOOLEAN /\ (refused => refused')
  <2>1. refused \in BOOLEAN
    BY SessionTypes
  <2>2. refused' = refused \/ refused' = TRUE
    BY <1>1
  <2> QED BY <2>1, <2>2, Zenon
<1>4. Staying => CallSound(c)'
  <2>1. SUFFICES ASSUME Staying PROVE CallSound(c)'
    OBVIOUS
  <2>2. CallSound(c) /\ \A r \in Pairs : flying[r].st = "done" => flying[r].got # 0
    BY <1>0, <2>1, CallFacts
  <2>3. Untold' => ~Marked(c)'
    <3> SUFFICES ASSUME Untold' PROVE ~Marked(c)'
      OBVIOUS
    <3>1. Untold /\ ~refused'
      BY <1>0, <1>3 DEF Untold
    <3>2. ~Marked(c) /\ call[c].sure /\ ~call[c].retried
      BY <1>0, <2>2, <3>1 DEF CallSound, Marked
    <3>3. access[call[c].tok.pair] # "expired"
      BY <1>0, <2>2, <3>2 DEF CallSound
    <3>4. st = "ran"
      BY <1>1, <3>1, <3>3
    <3> QED BY <1>2, <3>2, <3>4, IdleFacts DEF Marked
  <2>4. pairs \in Nat
    BY SessionTypes
  <2> QED BY <1>0, <1>2, <2>2, <2>3, <2>4, IdleFacts DEF CallSound
<1> QED BY <1>0, <1>1, <1>2, <1>3, <1>4 DEF CallStep

LEMMA RestOfCallSteps ==
  ASSUME SessionTypeOK, SessionSound, NEW c \in Calls,
         Begin(c, "api") \/ Begin(c, "layout") \/ Rendered(c) \/ Answer(c) \/ Timeout(c)
  PROVE  CallStep(c)
<1>1. ASSUME NEW kind \in {"api", "layout"}, Begin(c, kind)
      PROVE  CallStep(c)
  BY <1>1, GetSessionStep DEF Begin, At
<1>2. CASE Rendered(c) \/ Answer(c) \/ Timeout(c)
  BY <1>2, EndsStep DEF Rendered, Answer, Timeout, At
<1> QED BY <1>1, <1>2

\* A sign-out ends the session; it must be one of those NoSpuriousSignOut
\* allows.
LEMMA SignOutKeeps ==
  ASSUME SessionTypeOK, SessionSound, SignOut,
         UNCHANGED <<f, flying, access, refresh, pairs, faults, refused, outlasted>>,
         f.refreshes /\ ~outlasted /\ ~Unstored =>
           \/ faults > 1 \/ (refused /\ faults > 0)
           \/ ~f.retries /\ (faults > 0 \/ refused)
  PROVE  SessionTypeOK' /\ SessionSound'
<1>1. call' \in [Calls -> Called] /\ \A c \in Calls : call'[c] = Idle
  BY IdleFacts DEF SignOut
<1>2. cookie' = None
  BY DEF SignOut
<1>3. SessionTypeOK'
  BY <1>1, <1>2 DEF SessionTypeOK, Called
<1>4. RanSound' /\ ~Staying'
  BY <1>1, <1>2, IdleFacts DEF RanSound, Staying, SignedIn
<1>5. NoSpuriousSignOut'
  BY DEF NoSpuriousSignOut, Unstored
<1> QED BY <1>3, <1>4, <1>5 DEF SessionSound

LEMMA On401Keeps ==
  ASSUME SessionTypeOK, SessionSound, NEW c \in Calls, On401(c)
  PROVE  SessionTypeOK' /\ SessionSound'
<1>0. SignedIn /\ call[c].st = "401" /\ UNCHANGED <<f, flying, access, refresh, pairs, faults, refused, outlasted>>
  BY DEF On401, At
<1>1. CASE f.retries /\ GetSession(c, "api", TRUE) /\ UNCHANGED cookie
  BY <1>0, <1>1, GetSessionStep, CallStepKeeps
<1>2. CASE Ends(c) /\ UNCHANGED cookie
  BY <1>0, <1>2, EndsStep, CallStepKeeps
<1>3. CASE ~f.retries /\ SignOut
  <2>1. f.refreshes /\ ~outlasted /\ ~Unstored => CallSound(c)
    BY <1>0, CallFacts DEF Staying
  <2>2. f.refreshes /\ ~outlasted /\ ~Unstored => faults > 0 \/ refused
    BY <1>0, <2>1, SessionTypes DEF CallSound, Untold, Marked
  <2> QED BY <1>0, <1>3, <2>2, SignOutKeeps
<1> QED BY <1>1, <1>2, <1>3 DEF On401

LEMMA LandKeeps ==
  ASSUME SessionTypeOK, SessionSound, NEW c \in Calls, Land(c)
  PROVE  SessionTypeOK' /\ SessionSound'
<1>0. /\ SignedIn /\ call[c].st = "answered"
      /\ UNCHANGED <<f, flying, access, refresh, pairs, faults, refused, outlasted>>
  BY DEF Land, At
<1>1. CASE call[c].retried /\ call[c].tok.error
  <2>1. SignOut
    BY <1>1 DEF Land
  <2>2. f.refreshes /\ ~outlasted /\ ~Unstored => CallSound(c)
    BY <1>0, CallFacts DEF Staying
  <2>3. f.refreshes /\ ~outlasted /\ ~Unstored => faults > 1 \/ (refused /\ faults > 0)
    BY <1>0, <1>1, <2>2, SessionTypes DEF CallSound
  <2> QED BY <1>0, <2>1, <2>3, SignOutKeeps
<1>2. CASE ~(call[c].retried /\ call[c].tok.error)
  <2> DEFINE n == call[c].tok.pair
  <2>1. cookie' = Token(n, FALSE) /\ call' = [call EXCEPT ![c].st = "sent", ![c].tok = Token(n, FALSE)]
    BY <1>2 DEF Land
  <2>2. n \in Pairs /\ call[c] \in Called /\ call[c].ran = 0
    BY <1>0, CallFacts
  <2> HIDE DEF n
  <2>3. /\ Token(n, FALSE) \in Tokens /\ Token(n, FALSE).pair = n /\ Token(n, FALSE).error = FALSE
        /\ Token(n, FALSE) # None
    BY <2>2, TokenFacts
  <2>4. /\ call' \in [Calls -> Called] /\ \A d \in Calls : d # c => call'[d] = call[d]
        /\ call'[c].st = "sent" /\ call'[c].tok = Token(n, FALSE) /\ call'[c].ran = 0
        /\ call'[c].sure = call[c].sure /\ call'[c].retried = call[c].retried
    BY <2>1, <2>2, <2>3, SessionTypes DEF Called
  <2>5. SessionTypeOK'
    BY <1>0, <2>1, <2>3, <2>4 DEF SessionTypeOK, Called
  <2>6. RanSound' /\ NoSpuriousSignOut'
    <3>1. RanSound'
      BY <2>4 DEF SessionSound, RanSound
    <3>2. SignedIn'
      BY <2>1, <2>3 DEF SignedIn
    <3> QED BY <3>1, <3>2 DEF NoSpuriousSignOut, SignedOut
  <2>7. Staying' => StaySound'
    <3>1. SUFFICES ASSUME Staying PROVE StaySound'
      BY <1>0 DEF Staying, Unstored
    <3>2. CookieSound /\ FlightsSound /\ \A d \in Calls : CallSound(d)
      BY <3>1 DEF SessionSound, StaySound
    <3>3. CookieSound'
      BY <1>0, <2>1, <2>3, <3>2 DEF CookieSound, CallSound, Accepted, n
    <3>4. FlightsSound'
      BY <1>0, <3>2 DEF FlightsSound, Accepted
    <3>5. ASSUME NEW d \in Calls
          PROVE  CallSound(d)'
      <4>1. Untold' => Untold
        BY <1>0 DEF Untold
      <4>2. CASE d # c
        BY <1>0, <2>4, <3>2, <4>1, <4>2 DEF CallSound, Accepted, Marked
      <4>3. CASE d = c
        BY <1>0, <2>3, <2>4, <3>2, <4>1, <4>3 DEF CallSound, Accepted, Marked, n
      <4> QED BY <4>2, <4>3
    <3> QED BY <3>3, <3>4, <3>5 DEF StaySound
  <2> QED BY <2>5, <2>6, <2>7 DEF SessionSound
<1> QED BY <1>1, <1>2

LEMMA JwtRefreshKeeps ==
  ASSUME SessionTypeOK, SessionSound, NEW c \in Calls, JwtRefresh(c)
  PROVE  SessionTypeOK' /\ SessionSound'
<1> DEFINE n == call[c].tok.pair
<1>0. /\ SignedIn /\ call[c].st = "session" /\ call' = [call EXCEPT ![c].st = "waiting"]
      /\ UNCHANGED <<f, cookie, access, refresh, pairs, faults, refused, outlasted>>
      /\ flying' = [flying EXCEPT ![n].st = IF flying[n].st = "none" THEN "sent" ELSE flying[n].st]
  BY DEF JwtRefresh, At, Goes
<1>1. n \in Pairs /\ call[c] \in Called /\ call[c].ran = 0
  BY <1>0, CallFacts
<1>2. /\ call' \in [Calls -> Called] /\ \A d \in Calls : d # c => call'[d] = call[d]
      /\ call'[c].st = "waiting" /\ call'[c].tok = call[c].tok /\ call'[c].ran = 0
      /\ call'[c].retried = call[c].retried
  BY <1>0, <1>1, SessionTypes DEF Called
<1> HIDE DEF n
<1>3. /\ flying' \in [Pairs -> [st : {"none", "sent", "done", "failed"}, got : Pairs]]
      /\ \A r \in Pairs : r # n => flying'[r] = flying[r]
      /\ flying'[n].got = flying[n].got
      /\ flying[n].st = "none" => flying'[n].st = "sent"
      /\ flying[n].st # "none" => flying'[n].st = flying[n].st
  BY <1>0, <1>1, SessionTypes
<1>4. SessionTypeOK'
  BY <1>0, <1>2, <1>3 DEF SessionTypeOK, Called
<1>5. RanSound' /\ NoSpuriousSignOut'
  BY <1>0, <1>2 DEF SessionSound, RanSound, NoSpuriousSignOut, SignedOut, SignedIn
<1>6. Staying' => StaySound'
  <2>1. SUFFICES ASSUME Staying PROVE StaySound'
    BY <1>0 DEF Staying, SignedIn, Unstored
  <2>2. CookieSound /\ FlightsSound /\ \A d \in Calls : CallSound(d)
    BY <2>1 DEF SessionSound, StaySound
  <2>3. \A r \in Pairs : /\ flying'[r].st = "done" <=> flying[r].st = "done"
                         /\ flying'[r].st = "failed" <=> flying[r].st = "failed"
                         /\ flying'[r].got = flying[r].got
    BY <1>3
  <2>4. \A r \in Pairs : flying[r].st = "done" => flying[r].got # n
    BY <2>2 DEF CallSound, n
  <2>5. n <= pairs /\ Accepted(n)
    BY <1>0, <2>2 DEF CallSound, n
  <2>6. CookieSound'
    BY <1>0, <2>2, <2>3 DEF CookieSound, Accepted
  <2>7. FlightsSound'
    <3>1. \A r \in Pairs : flying'[r].st # "none" => r <= pairs /\ Accepted(r)
      BY <1>3, <2>2, <2>5 DEF FlightsSound
    <3>2. \A r \in Pairs : flying[r].st = "done" => flying[r].got \in Pairs /\ flying'[flying[r].got].st = "none"
      BY <1>3, <2>2, <2>4, SessionTypes DEF FlightsSound
    <3> QED BY <1>0, <2>2, <2>3, <3>1, <3>2 DEF FlightsSound, Accepted
  <2>8. ASSUME NEW d \in Calls
        PROVE  CallSound(d)'
    <3>1. Untold' => Untold
      BY <1>0, <2>3 DEF Untold
    <3>2. CASE d # c
      BY <1>0, <1>2, <2>2, <2>3, <3>1, <3>2 DEF CallSound, Accepted, Marked
    <3>3. CASE d = c
      BY <1>0, <1>2, <2>2, <2>3, <3>1, <3>3 DEF CallSound, Accepted, Marked
    <3> QED BY <3>2, <3>3
  <2> QED BY <2>6, <2>7, <2>8 DEF StaySound
<1> QED BY <1>4, <1>5, <1>6 DEF SessionSound

\* A rotation leaves the pairs already given out as good as they were.
LEMMA RotateEffect ==
  ASSUME SessionTypeOK, NEW r \in Pairs, NEW row \in {"live", "none"},
         Rotate(r, row) \/ UNCHANGED <<access, refresh, pairs>>
  PROVE  /\ access' \in [Pairs -> {"none", "fresh", "due", "expired"}]
         /\ refresh' \in [Pairs -> {"none", "live", "rotated", "dead"}]
         /\ pairs' \in Pairs /\ pairs <= pairs'
         /\ \A n \in Pairs : Accepted(n) /\ n <= pairs => Accepted(n)'
         /\ \A n \in Pairs : n <= pairs => access'[n] = access[n]
         /\ \A n \in Pairs : n <= pairs /\ n # r => refresh'[n] = refresh[n]
         /\ Rotate(r, row) => /\ pairs' = pairs + 1
                         /\ Accepted(r) /\ refresh'[pairs'] = row /\ access'[pairs'] = "fresh"
<1>1. CASE Rotate(r, row)
  <2>1. pairs + 1 \in Pairs /\ pairs \in Nat /\ Pairs \subseteq Nat
    <3>1. pairs \in Pairs /\ pairs < MaxPairs
      BY <1>1, SessionTypes DEF Rotate
    <3> QED BY <3>1, BoundsAssumption DEF Pairs
  <2>2. /\ pairs' = pairs + 1 /\ access' = [access EXCEPT ![pairs + 1] = "fresh"]
        /\ refresh' = [refresh EXCEPT ![r] = "rotated", ![pairs + 1] = row]
    BY <1>1 DEF Rotate
  <2>3. /\ access' \in [Pairs -> {"none", "fresh", "due", "expired"}] /\ access'[pairs + 1] = "fresh"
        /\ \A n \in Pairs : n # pairs + 1 => access'[n] = access[n]
    BY <2>1, <2>2, SessionTypes
  <2>4. /\ refresh' \in [Pairs -> {"none", "live", "rotated", "dead"}] /\ refresh'[pairs + 1] = row
        /\ \A n \in Pairs : n # pairs + 1 /\ n # r => refresh'[n] = refresh[n]
        /\ r # pairs + 1 => refresh'[r] = "rotated"
    BY <2>1, <2>2, SessionTypes
  <2>5. \A n \in Pairs : Accepted(n) /\ n # pairs + 1 => Accepted(n)'
    BY <2>4 DEF Accepted
  <2>6. pairs <= pairs' /\ \A n \in Pairs : n <= pairs => n # pairs + 1
    BY <2>1, <2>2
  <2>7. Accepted(r)
    BY <1>1 DEF Rotate
  <2> QED BY <2>1, <2>2, <2>3, <2>4, <2>5, <2>6, <2>7
<1>2. CASE UNCHANGED <<access, refresh, pairs>> /\ ~Rotate(r, row)
  BY <1>2, SessionTypes DEF Accepted
<1> QED BY <1>1, <1>2

\* A token that was not stored stays so.
LEMMA UnstoredStays ==
  ASSUME SessionTypeOK, NEW r \in Pairs, NEW row \in {"live", "none"},
         Rotate(r, row) \/ UNCHANGED <<access, refresh, pairs>>
  PROVE  (Unstored => Unstored') /\ (Rotate(r, row) /\ row = "none" => Unstored')
<1>1. /\ pairs \in Nat /\ pairs' \in Pairs /\ pairs <= pairs' /\ pairs \in Pairs /\ Pairs \subseteq Nat
      /\ pairs <= MaxPairs /\ MaxPairs \in Nat
  <2>1. pairs' \in Pairs /\ pairs <= pairs'
    BY RotateEffect
  <2>2. pairs \in Pairs /\ pairs \in Nat
    BY SessionTypes
  <2> QED BY <2>1, <2>2, BoundsAssumption DEF Pairs
<1>2. ASSUME NEW n \in 0..pairs, refresh[n] = "none"
      PROVE  n \in 0..pairs' /\ refresh'[n] = "none"
  <2>1. n \in Pairs /\ n <= pairs /\ n \in 0..pairs'
    BY <1>1 DEF Pairs
  <2>2. n # r \/ UNCHANGED <<access, refresh, pairs>>
    BY <1>2 DEF Rotate, Accepted
  <2> QED BY <1>2, <2>1, <2>2, RotateEffect
<1>3. Rotate(r, row) => pairs' \in 0..pairs' /\ refresh'[pairs'] = row
  BY <1>1, RotateEffect
<1> QED BY <1>2, <1>3 DEF Unstored

\* The answer of a refresh, or its failure.
LEMMA RefreshKeeps ==
  ASSUME SessionTypeOK, SessionSound, NEW r \in Pairs, Refresh(r) \/ RefreshFault(r)
  PROVE  SessionTypeOK' /\ SessionSound'
<1>0. SignedIn /\ flying[r].st = "sent" /\ UNCHANGED <<f, cookie, call, refused, outlasted>>
  BY DEF Refresh, RefreshFault
<1>1. Rotate(r, "live") \/ UNCHANGED <<access, refresh, pairs>>
  BY DEF Refresh, RefreshFault
<1>2. /\ access' \in [Pairs -> {"none", "fresh", "due", "expired"}]
      /\ refresh' \in [Pairs -> {"none", "live", "rotated", "dead"}]
      /\ pairs' \in Pairs /\ pairs <= pairs' /\ pairs \in Nat /\ pairs' \in Nat
  BY <1>1, RotateEffect, SessionTypes DEF Pairs
<1>3. \/ /\ Rotate(r, "live") /\ flying' = [flying EXCEPT ![r] = [st |-> "done", got |-> pairs']]
         /\ UNCHANGED faults
      \/ flying' = [flying EXCEPT ![r] = [st |-> "failed", got |-> r]]
         /\ (faults' = faults + 1 \/ (~Accepted(r) /\ UNCHANGED faults))
  BY DEF Refresh, RefreshFault, Reject, Issued, Rotate
<1>4. faults' \in 0..MaxFaults /\ faults \in Nat
  BY SessionTypes DEF Refresh, RefreshFault
<1>5. PICK g \in Pairs, st \in {"done", "failed"} :
        /\ flying' = [flying EXCEPT ![r] = [st |-> st, got |-> g]]
        /\ st = "done" => Rotate(r, "live") /\ g = pairs' /\ UNCHANGED faults
        /\ st = "failed" => g = r /\ (faults' = faults + 1 \/ ~Accepted(r))
  BY <1>2, <1>3
<1>6. /\ flying' \in [Pairs -> [st : {"none", "sent", "done", "failed"}, got : Pairs]]
      /\ flying'[r].st = st /\ flying'[r].got = g
      /\ \A q \in Pairs : q # r => flying'[q] = flying[q]
  BY <1>5, SessionTypes
<1>7. SessionTypeOK'
  BY <1>0, <1>2, <1>4, <1>6 DEF SessionTypeOK
<1>8. RanSound' /\ NoSpuriousSignOut'
  BY <1>0 DEF SessionSound, RanSound, NoSpuriousSignOut, SignedOut, SignedIn
<1>9. Staying' => StaySound'
  <2>1. SUFFICES ASSUME Staying PROVE StaySound'
    BY <1>0, <1>1, UnstoredStays DEF Staying, SignedIn
  <2>2. CookieSound /\ FlightsSound /\ \A d \in Calls : CallSound(d)
    BY <2>1 DEF SessionSound, StaySound
  <2>3. r <= pairs /\ Accepted(r) /\ cookie.pair \in Pairs /\ \A d \in Calls : call[d].tok.pair \in Pairs
    BY <1>0, <2>2, SessionTypes, TokenFacts DEF FlightsSound
  <2>4. Pairs \subseteq Nat
    BY BoundsAssumption DEF Pairs
  <2>5. \A q \in Pairs : flying'[q].st = "done" =>
          (flying[q].st = "done" /\ flying'[q].got = flying[q].got) \/ flying'[q].got > pairs
    BY <1>2, <1>5, <1>6, <2>4, RotateEffect
  <2>6. \A q \in Pairs : flying[q].st = "done" => flying[q].got \in 1..pairs
    BY <2>2 DEF FlightsSound
  <2>7. CookieSound'
    <3>1. cookie.pair <= pairs' /\ Accepted(cookie.pair)'
      <4>1. cookie.pair <= pairs /\ Accepted(cookie.pair) /\ cookie.pair \in Nat
        BY <2>2, <2>3, <2>4 DEF CookieSound
      <4>2. Accepted(cookie.pair)'
        BY <1>0, <1>1, <2>3, <4>1, RotateEffect DEF Accepted
      <4> QED BY <1>0, <1>2, <4>1, <4>2
    <3>2. ASSUME NEW q \in Pairs, flying'[q].st = "done"
          PROVE  flying'[q].got # cookie.pair
      <4>1. cookie.pair <= pairs /\ (flying[q].st = "done" => flying[q].got # cookie.pair)
        BY <2>2 DEF CookieSound
      <4>2. ~(flying'[q].got > pairs /\ flying'[q].got = cookie.pair)
        BY <1>2, <2>3, <2>4, <4>1, cookie.pair \in Nat
      <4> QED BY <2>5, <3>2, <4>1, <4>2
    <3> QED BY <1>0, <2>2, <3>1, <3>2 DEF CookieSound
  <2>8. FlightsSound'
    <3>1. \A q \in Pairs : flying'[q].st # "none" => q <= pairs' /\ Accepted(q)'
      BY <1>1, <1>2, <1>6, <2>2, <2>3, <2>4, RotateEffect DEF FlightsSound
    <3>2. \A q \in Pairs : flying'[q].st = "failed" => flying'[q].got = q
      BY <1>5, <1>6, <2>2 DEF FlightsSound
    <3>3. ASSUME NEW q \in Pairs, flying'[q].st = "done"
          PROVE  /\ flying'[q].got \in 1..pairs' /\ flying'[flying'[q].got].st = "none"
                 /\ refresh'[flying'[q].got] = "live" /\ access'[flying'[q].got] # "expired"
      <4>1. CASE q # r
        <5>1. /\ flying[q].st = "done" /\ flying'[q].got = flying[q].got
              /\ flying[q].got \in 1..pairs /\ flying[q].got \in Pairs /\ flying[q].got # r
          BY <1>0, <1>6, <2>2, <3>3, <4>1, SessionTypes DEF FlightsSound
        <5>2. /\ refresh'[flying[q].got] = refresh[flying[q].got]
              /\ access'[flying[q].got] = access[flying[q].got]
          BY <1>1, <5>1, <2>4, RotateEffect
        <5> QED BY <1>2, <1>6, <2>2, <3>3, <4>1, <5>1, <5>2 DEF FlightsSound
      <4>2. CASE q = r
        <5>1. Rotate(r, "live") /\ g = pairs' /\ pairs' = pairs + 1
          BY <1>1, <1>5, <1>6, <3>3, <4>2, RotateEffect
        <5>2. flying[g].st = "none" /\ g # r
          BY <1>2, <2>2, <2>3, <2>4, <5>1, SessionTypes DEF FlightsSound
        <5>3. refresh'[g] = "live" /\ access'[g] = "fresh"
          BY <1>1, <5>1, RotateEffect
        <5>4. flying'[q].got = g /\ flying'[g].st = "none" /\ g \in 1..pairs'
          BY <1>2, <1>6, <4>2, <5>1, <5>2
        <5> QED BY <5>3, <5>4
      <4> QED BY <4>1, <4>2
    <3>4. \A q, p \in Pairs :
            flying'[q].st = "done" /\ flying'[p].st = "done" /\ flying'[p].got = flying'[q].got => p = q
      <4>1. \A q, p \in Pairs :
              flying[q].st = "done" /\ flying[p].st = "done" /\ flying[p].got = flying[q].got => p = q
        BY <2>2 DEF FlightsSound
      <4>2. \A q \in Pairs : q # r /\ flying'[q].st = "done" => flying'[q].got <= pairs
        <5>1. \A q \in Pairs : q # r /\ flying'[q].st = "done" => flying'[q].got \in 1..pairs
          BY <1>6, <2>6
        <5>2. \A x \in 1..pairs : x <= pairs
          BY <1>2
        <5> QED BY <5>1, <5>2
      <4>3. flying'[r].st = "done" => flying'[r].got > pairs
        BY <1>0, <2>5
      <4> QED BY <1>2, <1>6, <2>4, <4>1, <4>2, <4>3, SessionTypes
    <3>5. faults' = 0 => \A q \in Pairs : flying'[q].st # "failed"
      BY <1>4, <1>5, <1>6, <2>2, <2>3 DEF FlightsSound
    <3>6. faults' = 1 => \A q, p \in Pairs :
            flying'[q].st = "failed" /\ flying'[p].st = "failed" => q = p
      BY <1>4, <1>5, <1>6, <2>2, <2>3 DEF FlightsSound
    <3> QED BY <3>1, <3>2, <3>3, <3>4, <3>5, <3>6 DEF FlightsSound
  <2>9. ASSUME NEW d \in Calls
        PROVE  CallSound(d)'
    <3>1. Untold' => Untold
      BY <1>0, <1>4, <1>5, <1>6, <2>3 DEF Untold
    <3>2. PICK k \in Pairs : k = call[d].tok.pair /\ call'[d] = call[d]
      BY <1>0, <2>3
    <3>3. CallSound(d) /\ k <= pairs
      BY <2>2, <3>2 DEF CallSound
    <3>4. /\ Accepted(k) => Accepted(k)'
          /\ access'[k] = access[k]
          /\ k <= pairs'
      BY <1>1, <1>2, <2>4, <3>3, RotateEffect
    <3>5. ASSUME NEW q \in Pairs, flying'[q].st = "done"
          PROVE  flying'[q].got # k
      <4>1. ~(flying'[q].got > pairs /\ flying'[q].got = k)
        BY <1>2, <2>4, <3>3, k \in Nat
      <4>2. flying[q].st = "done" => flying[q].got # k
        BY <3>2, <3>3 DEF CallSound
      <4> QED BY <2>5, <3>5, <4>1, <4>2
    <3>6. Marked(d)' <=> Marked(d)
      BY <1>0 DEF Marked
    <3>7. faults' = 0 => faults = 0
      BY <1>4, <1>5, <2>3
    <3>8. faults' = 1 => faults = 1 \/ faults = 0
      BY <1>4, <1>5, <2>3
    <3> QED BY <1>0, <3>1, <3>2, <3>3, <3>4, <3>5, <3>6, <3>7, <3>8 DEF CallSound, Accepted
  <2> QED BY <2>7, <2>8, <2>9 DEF StaySound
<1> QED BY <1>7, <1>8, <1>9 DEF SessionSound

\* A new token the API failed to store ends what is known of the session.
LEMMA RefreshUnstoredKeeps ==
  ASSUME SessionTypeOK, SessionSound, NEW r \in Pairs, RefreshUnstored(r)
  PROVE  SessionTypeOK' /\ SessionSound'
<1>0. SignedIn /\ UNCHANGED <<f, cookie, call, refused, outlasted>> /\ Rotate(r, "none") /\ Issued(r)
      /\ faults < MaxFaults /\ faults' = faults + 1
  BY DEF RefreshUnstored
<1>1. /\ access' \in [Pairs -> {"none", "fresh", "due", "expired"}]
      /\ refresh' \in [Pairs -> {"none", "live", "rotated", "dead"}]
      /\ pairs' \in Pairs /\ pairs' = pairs + 1 /\ Unstored'
  BY <1>0, RotateEffect, UnstoredStays
<1>2. flying' \in [Pairs -> [st : {"none", "sent", "done", "failed"}, got : Pairs]]
  BY <1>0, <1>1, SessionTypes DEF Issued
<1>3. faults' \in 0..MaxFaults
  BY <1>0, SessionTypes
<1>4. SessionTypeOK'
  BY <1>0, <1>1, <1>2, <1>3 DEF SessionTypeOK
<1>5. RanSound' /\ NoSpuriousSignOut' /\ ~Staying'
  BY <1>0, <1>1 DEF SessionSound, RanSound, NoSpuriousSignOut, SignedOut, SignedIn, Staying
<1> QED BY <1>4, <1>5 DEF SessionSound

LEMMA SettleKeeps ==
  ASSUME SessionTypeOK, SessionSound, NEW r \in Pairs, Settle(r)
  PROVE  SessionTypeOK' /\ SessionSound'
<1> DEFINE ok == flying[r].st = "done"
           g == flying[r].got
           Waits(c) == call[c].st = "waiting" /\ call[c].tok.pair = r
           x(c) == [call[c] EXCEPT !.st = "answered", !.sure = ok, !.tok = Token(g, ~ok)]
<1>0. /\ SignedIn /\ flying[r].st \in {"done", "failed"}
      /\ UNCHANGED <<f, cookie, access, refresh, pairs, faults, refused, outlasted>>
      /\ flying' = [flying EXCEPT ![r] = NoRefresh(r)]
      /\ call' = [c \in Calls |-> IF Waits(c) THEN x(c) ELSE call[c]]
  BY DEF Settle
<1>1. g \in Pairs /\ ok \in BOOLEAN
  BY SessionTypes
<1>2. Token(g, ~ok) \in Tokens /\ Token(g, ~ok).pair = g /\ Token(g, ~ok).error = ~ok
  BY <1>1, TokenFacts
<1> HIDE DEF ok, g
<1>3. \A c \in Calls :
        /\ x(c) \in Called /\ x(c).st = "answered" /\ x(c).sure = ok /\ x(c).tok = Token(g, ~ok)
        /\ x(c).ran = call[c].ran /\ x(c).retried = call[c].retried
  <2> SUFFICES ASSUME NEW c \in Calls
               PROVE  /\ x(c) \in Called /\ x(c).st = "answered" /\ x(c).sure = ok /\ x(c).tok = Token(g, ~ok)
                      /\ x(c).ran = call[c].ran /\ x(c).retried = call[c].retried
    OBVIOUS
  <2>1. call[c] \in Called
    BY SessionTypes
  <2> DEFINE tk == Token(g, ~ok)
  <2>2. tk \in Tokens /\ ok \in BOOLEAN
    BY <1>1, <1>2
  <2> HIDE DEF tk
  <2>3. [call[c] EXCEPT !.st = "answered", !.sure = ok, !.tok = tk] \in Called
    BY <2>1, <2>2 DEF Called
  <2>4. x(c) = [call[c] EXCEPT !.st = "answered", !.sure = ok, !.tok = tk]
    BY DEF tk
  <2> HIDE DEF x
  <2>5. /\ x(c).st = "answered" /\ x(c).sure = ok /\ x(c).tok = tk
        /\ x(c).ran = call[c].ran /\ x(c).retried = call[c].retried
    BY <2>1, <2>4 DEF Called
  <2> QED BY <2>3, <2>4, <2>5 DEF tk
<1> HIDE DEF x
<1>4. /\ call' \in [Calls -> Called]
      /\ \A c \in Calls : Waits(c) => call'[c] = x(c)
      /\ \A c \in Calls : ~Waits(c) => call'[c] = call[c]
  BY <1>0, <1>3, SessionTypes
<1>5. NoRefresh(r) \in [st : {"none", "sent", "done", "failed"}, got : Pairs] /\ NoRefresh(r).st = "none"
  BY DEF NoRefresh
<1>6. /\ flying' \in [Pairs -> [st : {"none", "sent", "done", "failed"}, got : Pairs]]
      /\ flying'[r].st = "none" /\ \A q \in Pairs : q # r => flying'[q] = flying[q]
  BY <1>0, <1>5, SessionTypes
<1>7. SessionTypeOK'
  BY <1>0, <1>4, <1>6 DEF SessionTypeOK, Called
<1>8. RanSound'
  BY <1>3, <1>4 DEF SessionSound, RanSound
<1>9. NoSpuriousSignOut'
  BY <1>0 DEF NoSpuriousSignOut, SignedOut, SignedIn
<1>10. Staying' => StaySound'
  <2>1. SUFFICES ASSUME Staying PROVE StaySound'
    BY <1>0 DEF Staying, SignedIn, Unstored
  <2>2. CookieSound /\ FlightsSound /\ \A d \in Calls : CallSound(d)
    BY <2>1 DEF SessionSound, StaySound
  <2>3. \A q \in Pairs : flying'[q].st # "none" => q # r /\ flying'[q] = flying[q]
    BY <1>6
  <2>4. CookieSound'
    BY <1>0, <2>2, <2>3 DEF CookieSound, Accepted
  <2>5. FlightsSound'
    <3>1. \A q \in Pairs : flying[q].st = "none" => flying'[q].st = "none"
      BY <1>6
    <3>2. \A q \in Pairs : flying[q].st = "done" => flying[q].got \in Pairs /\ flying'[flying[q].got].st = "none"
      BY <2>2, <3>1, SessionTypes DEF FlightsSound
    <3> QED BY <1>0, <2>2, <2>3, <3>2 DEF FlightsSound, Accepted
  <2>6. /\ g <= pairs /\ Accepted(g) /\ (ok => access[g] # "expired")
        /\ \A q \in Pairs : q # r /\ flying[q].st = "done" => flying[q].got # g
    <3>1. CASE ok
      <4>1. g \in 1..pairs /\ refresh[g] = "live" /\ access[g] # "expired"
        BY <2>2, <3>1 DEF FlightsSound, ok, g
      <4>2. \A q \in Pairs : q # r /\ flying[q].st = "done" => flying[q].got # g
        BY <2>2, <3>1 DEF FlightsSound, ok, g
      <4> QED BY <4>1, <4>2, SessionTypes DEF Accepted
    <3>2. CASE ~ok
      <4>1. flying[r].st = "failed" /\ g = r
        BY <1>0, <2>2, <3>2 DEF FlightsSound, ok, g
      <4>2. \A q \in Pairs : flying[q].st = "done" => flying[flying[q].got].st = "none"
        BY <2>2 DEF FlightsSound
      <4> QED BY <2>2, <3>2, <4>1, <4>2 DEF FlightsSound
    <3> QED BY <3>1, <3>2
  <2>7. ASSUME NEW d \in Calls
        PROVE  CallSound(d)'
    <3>1. CallSound(d)
      BY <2>2
    <3>2. Untold' => Untold
      BY <1>0, <2>3 DEF Untold
    <3>3. CASE ~Waits(d)
      <4>1. call'[d] = call[d]
        BY <1>4, <3>3
      <4>2. Marked(d)' <=> Marked(d)
        BY <4>1 DEF Marked
      <4> HIDE DEF Waits
      <4> QED BY <1>0, <2>3, <3>1, <3>2, <4>1, <4>2 DEF CallSound, Accepted
    <3>4. CASE Waits(d)
      <4>1. /\ call'[d].st = "answered" /\ call'[d].sure = ok /\ call'[d].tok.pair = g
            /\ call'[d].tok.error = ~ok /\ call'[d].retried = call[d].retried
        BY <1>2, <1>3, <1>4, <3>4
      <4>2. \A q \in Pairs : flying'[q].st = "done" => flying'[q].got # g
        BY <2>3, <2>6
      <4>3. ~ok => flying[r].st = "failed" /\ faults # 0
        BY <1>0, <2>2 DEF FlightsSound, ok
      <4>4. ~ok => ~Untold'
        <5> SUFFICES ASSUME ~ok, Untold' PROVE FALSE
          OBVIOUS
        <5>1. faults = 1 /\ \E q \in Pairs : flying'[q].st = "failed"
          BY <1>0, <4>3 DEF Untold
        <5>2. PICK q \in Pairs : q # r /\ flying[q].st = "failed"
          BY <2>3, <5>1
        <5> QED BY <2>2, <4>3, <5>1, <5>2 DEF FlightsSound
      <4>5. ~ok /\ ~refused /\ faults = 1 => ~call[d].retried
        BY <3>1, <4>3 DEF CallSound, Untold, Marked
      <4>6. Untold' => ~Marked(d)'
        BY <3>1, <3>2, <4>1, <4>4 DEF CallSound, Marked
      <4> QED BY <1>0, <2>6, <3>1, <4>1, <4>2, <4>3, <4>5, <4>6 DEF CallSound, Accepted
    <3> QED BY <3>3, <3>4
  <2> QED BY <2>4, <2>5, <2>7 DEF StaySound
<1> QED BY <1>7, <1>8, <1>9, <1>10 DEF SessionSound

LEMMA TimeKeeps ==
  ASSUME SessionTypeOK, SessionSound, NEW n \in Pairs, ComesDue(n) \/ Expires(n) \/ GraceEnds(n)
  PROVE  SessionTypeOK' /\ SessionSound'
<1>0. SignedIn /\ UNCHANGED <<f, cookie, call, flying, pairs, faults, refused>>
  BY DEF ComesDue, Expires, GraceEnds
<1>a. /\ outlasted' \in BOOLEAN /\ (outlasted => outlasted')
      /\ (Expires(n) /\ Awaited(n) => outlasted') /\ (GraceEnds(n) /\ Held(n) => outlasted')
  <2>1. outlasted \in BOOLEAN /\ Awaited(n) \in BOOLEAN /\ Held(n) \in BOOLEAN
    BY SessionTypes DEF Awaited, Held
  <2>2. \/ outlasted' = outlasted /\ ~Expires(n) /\ ~GraceEnds(n)
        \/ outlasted' = (outlasted \/ Awaited(n)) /\ Expires(n)
        \/ outlasted' = (outlasted \/ Held(n)) /\ GraceEnds(n)
    BY DEF ComesDue, Expires, GraceEnds
  <2>3. ~(Expires(n) /\ GraceEnds(n))
    BY SessionTypes DEF Expires, GraceEnds
  <2> QED BY <2>1, <2>2, <2>3, Zenon
<1>1. /\ access' \in [Pairs -> {"none", "fresh", "due", "expired"}]
      /\ \A k \in Pairs : access'[k] = access[k] \/ (k = n /\ (access'[k] = "due" \/ Expires(n)))
  BY SessionTypes DEF ComesDue, Expires, GraceEnds
<1>2. /\ refresh' \in [Pairs -> {"none", "live", "rotated", "dead"}]
      /\ \A k \in Pairs : refresh'[k] = refresh[k] \/ (k = n /\ refresh[k] = "rotated" /\ GraceEnds(n))
  BY SessionTypes DEF ComesDue, Expires, GraceEnds
<1>3. SessionTypeOK'
  BY <1>0, <1>a, <1>1, <1>2 DEF SessionTypeOK
<1>4. RanSound' /\ NoSpuriousSignOut'
  BY <1>0 DEF SessionSound, RanSound, NoSpuriousSignOut, SignedOut, SignedIn
<1>5. Staying' => StaySound'
  <2>0. Unstored => Unstored'
    <3>1. 0..pairs \subseteq Pairs
      BY SessionTypes DEF Pairs
    <3> QED BY <1>0, <1>2, <3>1 DEF Unstored
  <2>1. SUFFICES ASSUME Staying, ~(Expires(n) /\ Awaited(n)), ~(GraceEnds(n) /\ Held(n))
                 PROVE  StaySound'
    BY <1>0, <1>a, <2>0 DEF Staying, SignedIn
  <2>2. CookieSound /\ FlightsSound /\ \A d \in Calls : CallSound(d)
    BY <2>1 DEF SessionSound, StaySound
  <2>3. cookie.pair \in Pairs /\ \A d \in Calls : call[d].tok.pair \in Pairs
    BY <1>0, SessionTypes, TokenFacts
  <2>4. \A k \in Pairs : /\ refresh[k] = "live" => refresh'[k] = "live"
                         /\ Accepted(k) /\ ~(GraceEnds(n) /\ k = n) => refresh'[k] \in {"live", "rotated"}
    BY <1>2 DEF Accepted
  <2>5. CookieSound'
    <3>1. ~(GraceEnds(n) /\ cookie.pair = n)
      BY <2>1 DEF Held
    <3> QED BY <1>0, <2>2, <2>3, <2>4, <3>1 DEF CookieSound, Accepted
  <2>6. FlightsSound'
    <3>1. \A r \in Pairs : flying[r].st # "none" => ~(GraceEnds(n) /\ r = n)
      BY <2>1 DEF Held
    <3>2. \A r \in Pairs : flying[r].st = "done" =>
            flying[r].got \in Pairs /\ refresh'[flying[r].got] = "live" /\ access'[flying[r].got] # "expired"
      <4> TAKE r \in Pairs
      <4> SUFFICES ASSUME flying[r].st = "done"
                   PROVE  /\ flying[r].got \in Pairs /\ refresh'[flying[r].got] = "live"
                          /\ access'[flying[r].got] # "expired"
        OBVIOUS
      <4>1. /\ flying[r].got \in Pairs /\ refresh[flying[r].got] = "live"
            /\ access[flying[r].got] # "expired"
        BY <2>2, SessionTypes DEF FlightsSound
      <4>2. ~(Expires(n) /\ flying[r].got = n)
        BY <2>1 DEF Awaited
      <4> QED BY <1>1, <2>4, <4>1, <4>2
    <3>3. \A r \in Pairs : flying'[r].st # "none" => r <= pairs' /\ Accepted(r)'
      BY <1>0, <2>2, <2>4, <3>1 DEF FlightsSound, Accepted
    <3> QED BY <1>0, <2>2, <3>2, <3>3 DEF FlightsSound
  <2>7. ASSUME NEW d \in Calls
        PROVE  CallSound(d)'
    <3>1. PICK k \in Pairs : k = call[d].tok.pair /\ call'[d] = call[d]
      BY <1>0, <2>3
    <3>2. CallSound(d) /\ (Untold' <=> Untold) /\ (Marked(d)' <=> Marked(d))
      BY <1>0, <2>2 DEF Untold, Marked
    <3>3. call[d].st \in {"session", "waiting", "answered"} => refresh'[k] \in {"live", "rotated"}
      <4>1. call[d].st \in {"session", "waiting", "answered"} => ~(GraceEnds(n) /\ k = n)
        BY <2>1, <3>1 DEF Held
      <4> QED BY <2>4, <3>1, <3>2, <4>1 DEF CallSound
    <3>4. call[d].st \in {"answered", "sent"} /\ call[d].sure => access'[k] # "expired"
      <4>1. call[d].st \in {"answered", "sent"} /\ call[d].sure => ~(Expires(n) /\ k = n)
        BY <2>1, <3>1 DEF Awaited
      <4> QED BY <1>1, <3>1, <3>2, <4>1 DEF CallSound
    <3> QED BY <1>0, <3>1, <3>2, <3>3, <3>4 DEF CallSound, Accepted
  <2> QED BY <2>5, <2>6, <2>7 DEF StaySound
<1> QED BY <1>3, <1>4, <1>5 DEF SessionSound

LEMMA InSessionKeeps ==
  ASSUME SessionTypeOK, SessionSound, InSession
  PROVE  SessionTypeOK' /\ SessionSound' /\ SignedIn
<1>1. ASSUME NEW c \in Calls, Asking(c)
      PROVE  SessionTypeOK' /\ SessionSound' /\ SignedIn
  <2>1. SignedIn
    BY <1>1 DEF Asking, JwtAsIs, JwtRefresh, Land, Rendered, At
  <2> QED BY <1>1, <2>1, JwtAsIsStep, RestOfCallSteps, CallStepKeeps, JwtRefreshKeeps, LandKeeps DEF Asking
<1>2. ASSUME NEW c \in Calls, Served(c)
      PROVE  SessionTypeOK' /\ SessionSound' /\ SignedIn
  <2>1. SignedIn
    BY <1>2 DEF Served, Carry, Unauthorized, Refuse, Answer, Timeout, On401, At
  <2> QED BY <1>2, <2>1, AnsweredStep, RestOfCallSteps, CallStepKeeps, On401Keeps DEF Served
<1>3. ASSUME NEW c \in Calls, Begin(c, "api") \/ Begin(c, "layout")
      PROVE  SessionTypeOK' /\ SessionSound' /\ SignedIn
  <2>1. SignedIn
    BY <1>3 DEF Begin, At
  <2> QED BY <1>3, <2>1, RestOfCallSteps, CallStepKeeps
<1>4. ASSUME NEW r \in Pairs, Refresh(r) \/ RefreshFault(r) \/ RefreshUnstored(r) \/ Settle(r)
      PROVE  SessionTypeOK' /\ SessionSound' /\ SignedIn
  <2>1. SignedIn
    BY <1>4 DEF Refresh, RefreshFault, RefreshUnstored, Settle
  <2> QED BY <1>4, <2>1, RefreshKeeps, RefreshUnstoredKeeps, SettleKeeps
<1>5. ASSUME NEW n \in Pairs, ComesDue(n) \/ Expires(n) \/ GraceEnds(n)
      PROVE  SessionTypeOK' /\ SessionSound' /\ SignedIn
  <2>1. SignedIn
    BY <1>5 DEF ComesDue, Expires, GraceEnds
  <2> QED BY <1>5, <2>1, TimeKeeps
<1> QED BY <1>1, <1>2, <1>3, <1>4, <1>5 DEF InSession

-----------------------------------------------------------------------------
(* The sign-in page and the session together.                              *)

\* A page nobody has used yet, and what is known of it.
Untouched ==
  /\ door \in Ways /\ account \in BOOLEAN
  /\ created = 0 /\ cold = 0 /\ lapsed = 0 /\ codes = NoCodes
  /\ page = [t \in Tabs |-> Fresh] /\ req = [t \in Tabs |-> NoRequest]
  /\ resend = [t \in Tabs |-> NoResend]

LEMMA UntouchedSound == Untouched => SignInTypeOK /\ DoorSound
<1> SUFFICES ASSUME Untouched PROVE SignInTypeOK /\ DoorSound
  OBVIOUS
<1> USE DEF Untouched
<1>1. \A n \in Codes : codes[n].st = "none"
  BY DEF NoCodes
<1>2. \A t \in Tabs : page[t].chal = 0 /\ req[t] = NoRequest
  BY DEF Fresh
<1>3. \A t \in Tabs : TabSound(t)
  BY <1>2, NoRequestType DEF TabSound, TypedSound, ChallengeSound, FoundSound, RefusedRightly
<1>4. DoorSound
  BY <1>1, <1>2, <1>3, NoRequestType DEF DoorSound, CodesSound, OneEach
<1>5. door.code \in {"mail", "app", "register", "signup", "none", "open"}
  BY DEF Ways, CompanyLogin, CompanyRegister, ConsoleLogin, EmployeeLogin, EmployeeRegister,
    ViewLink, Inside, Door
<1>6. /\ Fresh \in [chal : 0..MaxCodes, last : 0..MaxCodes]
      /\ NoResend \in [st : {"none", "sent", "issuing"}, chal : 0..MaxCodes]
      /\ codes \in [Codes -> [st : {"none", "live", "used"}, tries : 0..MaxTries]]
  BY SignInAssumption DEF Fresh, NoResend, NoCodes
<1>7. req \in [Tabs -> Asked]
  BY NoRequestType
<1>8. SignInTypeOK
  BY <1>5, <1>6, <1>7, SignInAssumption DEF SignInTypeOK, Asked
<1> QED BY <1>4, <1>8

\* Before the sign-in there is no session.
LEMMA NoSession ==
  ASSUME cookie = None, call = [c \in Calls |-> Idle], flying = [r \in Pairs |-> NoRefresh(r)],
         access = [n \in Pairs |-> "none"], refresh = [n \in Pairs |-> "none"],
         pairs = 0, faults = 0, refused = FALSE, outlasted = FALSE,
         f \in Portals \cup {NoPortal}, door # Inside
  PROVE  SessionTypeOK /\ SessionSound
<1>1. call \in [Calls -> Called] /\ \A c \in Calls : call[c] = Idle
  BY IdleFacts
<1>2. flying \in [Pairs -> [st : {"none", "sent", "done", "failed"}, got : Pairs]]
  BY DEF NoRefresh
<1>3. SessionTypeOK
  <2>1. 0 \in Pairs /\ 0 \in 0..MaxFaults
    BY BoundsAssumption DEF Pairs
  <2> QED BY <1>1, <1>2, <2>1 DEF SessionTypeOK, Called
<1>4. SessionSound
  BY <1>1, IdleFacts DEF SessionSound, RanSound, Staying, SignedIn, NoSpuriousSignOut, SignedOut
<1> QED BY <1>3, <1>4

LEMMA WaysIn == \A q \in Portals : Doors(q) \subseteq Ways \ {Inside}
<1> TAKE q \in Portals
<1>1. Doors(q) \subseteq Ways
  BY PortalsAssumption DEF Doors, Ways
<1>2. \A d \in Doors(q) : d.code # "open"
  BY PortalsAssumption DEF Doors, CompanyLogin, CompanyRegister, ConsoleLogin, EmployeeLogin,
    EmployeeRegister, ViewLink, Door
<1>3. Inside.code = "open"
  BY DEF Inside, Door
<1> QED BY <1>1, <1>2, <1>3

LEMMA InitSound == Init => PortalSound
<1> SUFFICES ASSUME Init PROVE PortalSound
  OBVIOUS
<1>0. /\ door \in UNION {Doors(q) : q \in Portals} /\ f = NoPortal
      /\ created = 0 /\ cold = 0 /\ lapsed = 0 /\ codes = NoCodes
      /\ page = [t \in Tabs |-> Fresh] /\ req = [t \in Tabs |-> NoRequest]
      /\ resend = [t \in Tabs |-> NoResend]
      /\ cookie = None /\ call = [c \in Calls |-> Idle] /\ flying = [r \in Pairs |-> NoRefresh(r)]
      /\ access = [n \in Pairs |-> "none"] /\ refresh = [n \in Pairs |-> "none"]
      /\ pairs = 0 /\ faults = 0 /\ refused = FALSE /\ outlasted = FALSE
  BY DEF Init, SignInInit
<1>1. account \in BOOLEAN
  BY DEF Init, SignInInit
<1>2. door \in Ways /\ door # Inside
  BY <1>0, WaysIn
<1>3. Untouched
  BY <1>0, <1>1, <1>2 DEF Untouched
<1>4. SignInTypeOK /\ DoorSound
  BY <1>3, UntouchedSound
<1>5. SessionTypeOK /\ SessionSound
  BY <1>0, <1>2, NoSession
<1>6. Apart
  BY <1>0, <1>2 DEF Apart
<1> QED BY <1>4, <1>5, <1>6 DEF PortalSound, TypeOK

\* Inside, nothing of the sign-in page can happen any more.
LEMMA Outside ==
  ASSUME Apart, AtTheDoor \/ SignInDone
  PROVE  door # Inside
<1> SUFFICES ASSUME door = Inside PROVE FALSE
  OBVIOUS
<1>1. /\ \A t \in Tabs : page[t].chal = 0 /\ req[t].st = "none" /\ resend[t].st = "none"
      /\ created = 0 /\ cold = 0 /\ lapsed = 0
  BY NoRequestType DEF Apart, Fresh, NoResend
<1>2. ~SignInDone
  BY <1>1 DEF SignInDone, Enter, Stage
<1>3. ~Cool /\ ~Lapse
  BY <1>1 DEF Cool, Lapse
<1>4. ASSUME NEW t \in Tabs
      PROVE  /\ ~Submit(t) /\ ~Signup(t) /\ ~Login(t) /\ ~Issue(t)
             /\ \A k \in 0..MaxCodes : ~SubmitCode(t, k)
             /\ ~Renew(t) /\ ~VerifyApp(t) /\ ~Look(t) /\ ~CountWrong(t) /\ ~Consume(t)
             /\ ~ShowError(t) /\ ~Fault(t) /\ ~Back(t)
             /\ ~ResendCode(t) /\ ~AnswerResend(t) /\ ~IssueResend(t)
  <2>1. ~Submit(t) /\ \A k \in 0..MaxCodes : ~SubmitCode(t, k)
    BY DEF Submit, SubmitCode, Ready
  <2>2. ~Signup(t) /\ ~Login(t) /\ ~Issue(t) /\ ~Renew(t) /\ ~VerifyApp(t) /\ ~Look(t)
    BY <1>1 DEF Signup, Login, Issue, Renew, VerifyApp, Look, Stage
  <2>3. ~CountWrong(t) /\ ~Consume(t) /\ ~ShowError(t) /\ ~Fault(t)
    BY <1>1 DEF CountWrong, Consume, ShowError, Fault, Stage
  <2>4. ~Back(t) /\ ~ResendCode(t) /\ ~AnswerResend(t) /\ ~IssueResend(t)
    BY <1>1 DEF Back, ResendCode, AnswerResend, IssueResend
  <2> QED BY <2>1, <2>2, <2>3, <2>4
<1> QED BY <1>2, <1>3, <1>4 DEF AtTheDoor

LEMMA SignInDoneKeeps ==
  ASSUME PortalSound, SignInDone
  PROVE  PortalSound'
<1>0. /\ door' = Inside /\ created' = 0 /\ cold' = 0 /\ lapsed' = 0 /\ codes' = NoCodes
      /\ account' = TRUE /\ page' = [t \in Tabs |-> Fresh] /\ req' = [t \in Tabs |-> NoRequest]
      /\ resend' = [t \in Tabs |-> NoResend]
      /\ f' \in Portals /\ cookie' = Token(0, FALSE)
      /\ access' = [access EXCEPT ![0] = "fresh"]
      /\ refresh' = IF f'.refreshes THEN [refresh EXCEPT ![0] = "live"] ELSE refresh
      /\ UNCHANGED <<call, flying, pairs, faults, refused, outlasted>>
  BY DEF SignInDone, Enter
<1>1. /\ call = [c \in Calls |-> Idle] /\ flying = [r \in Pairs |-> NoRefresh(r)]
      /\ pairs = 0 /\ faults = 0 /\ refused = FALSE /\ outlasted = FALSE
  BY Outside DEF PortalSound, Apart
<1>2. door' \in Ways
  BY <1>0 DEF Ways
<1>3. Untouched'
  BY <1>0, <1>2 DEF Untouched
<1>4. SignInTypeOK' /\ DoorSound'
  BY <1>3, UntouchedSound, PTL
<1>5. Apart'
  BY <1>0 DEF Apart
<1>6. 0 \in Pairs /\ Token(0, FALSE) \in Tokens /\ Token(0, FALSE).pair = 0
      /\ Token(0, FALSE).error = FALSE /\ Token(0, FALSE) # None
  <2>1. 0 \in Pairs
    BY BoundsAssumption DEF Pairs
  <2> QED BY <2>1, TokenFacts
<1>7. /\ access' \in [Pairs -> {"none", "fresh", "due", "expired"}]
      /\ refresh' \in [Pairs -> {"none", "live", "rotated", "dead"}]
      /\ f'.refreshes => refresh'[0] = "live"
  <2>1. SessionTypeOK
    BY DEF PortalSound, TypeOK
  <2> QED BY <1>0, <1>6, <2>1, SessionTypes
<1>8. SessionTypeOK'
  BY <1>0, <1>6, <1>7 DEF PortalSound, TypeOK, SessionTypeOK
<1>9. /\ \A c \in Calls : call'[c] = Idle
      /\ \A r \in Pairs : flying'[r].st = "none"
  BY <1>0, <1>1 DEF NoRefresh
<1>10. RanSound' /\ NoSpuriousSignOut'
  BY <1>0, <1>6, <1>9, IdleFacts DEF RanSound, NoSpuriousSignOut, SignedOut, SignedIn
<1>11. Staying' => StaySound'
  <2>1. SUFFICES ASSUME f'.refreshes PROVE StaySound'
    BY DEF Staying
  <2>2. CookieSound'
    <3>1. cookie'.pair = 0 /\ cookie'.error = FALSE /\ pairs' = 0 /\ refresh'[0] = "live"
      BY <1>0, <1>1, <1>6, <1>7, <2>1
    <3> QED BY <3>1, <1>9 DEF CookieSound, Accepted
  <2>3. FlightsSound'
    BY <1>0, <1>1, <1>9 DEF FlightsSound
  <2>4. \A c \in Calls : CallSound(c)'
    BY <1>0, <1>1, <1>9, IdleFacts DEF CallSound, Marked
  <2> QED BY <2>2, <2>3, <2>4 DEF StaySound
<1> QED BY <1>4, <1>5, <1>8, <1>10, <1>11 DEF PortalSound, TypeOK, SessionSound

LEMMA NextKeeps == PortalSound /\ [Next]_vars => PortalSound'
<1> SUFFICES ASSUME PortalSound, [Next]_vars PROVE PortalSound'
  OBVIOUS
<1>0. SignInTypeOK /\ SessionTypeOK /\ Apart /\ DoorSound /\ SessionSound
  BY DEF PortalSound, TypeOK
<1>1. CASE AtTheDoor /\ UNCHANGED sessionVars
  <2>1. SignInTypeOK' /\ DoorSound' /\ door' = door /\ door # Inside
    BY <1>0, <1>1, AtTheDoorKeeps, Outside
  <2>2. UNCHANGED <<f, cookie, call, flying, access, refresh, pairs, faults, refused, outlasted>>
    BY <1>1 DEF sessionVars
  <2>3. Apart'
    BY <1>0, <2>1, <2>2 DEF Apart
  <2>4. SessionTypeOK' /\ RanSound'
    BY <1>0, <2>2 DEF SessionTypeOK, SessionSound, RanSound
  <2>5. ~Staying' /\ NoSpuriousSignOut'
    BY <1>0, <2>1, <2>2 DEF Apart, Staying, SignedIn, SignedOut, NoSpuriousSignOut
  <2> QED BY <2>1, <2>3, <2>4, <2>5 DEF PortalSound, TypeOK, SessionSound
<1>2. CASE SignInDone
  BY <1>2, SignInDoneKeeps
<1>3. CASE InSession /\ UNCHANGED signInVars
  <2>1. SessionTypeOK' /\ SessionSound' /\ SignedIn
    BY <1>0, <1>3, InSessionKeeps
  <2>2. door = Inside
    BY <1>0, <2>1 DEF Apart, SignedIn
  <2>3. UNCHANGED <<door, page, req, resend, codes, created, cold, lapsed, account>>
    BY <1>3 DEF signInVars
  <2>4. SignInTypeOK'
    BY <1>0, <2>3 DEF SignInTypeOK
  <2>5. DoorSound'
    BY <1>0, <2>3 DEF DoorSound, CodesSound, OneEach, Mailed, TabSound, TypedSound, ChallengeSound,
      FoundSound, RefusedRightly, TypedNewest
  <2>6. Apart'
    BY <1>0, <2>2, <2>3 DEF Apart
  <2> QED BY <2>1, <2>4, <2>5, <2>6 DEF PortalSound, TypeOK
<1>4. CASE UNCHANGED vars
  <2>1. /\ UNCHANGED <<door, page, req, resend, codes, created, cold, lapsed, account>>
        /\ UNCHANGED <<f, cookie, call, flying, access, refresh, pairs, faults, refused, outlasted>>
    BY <1>4 DEF vars, signInVars, sessionVars
  <2>2. SignInTypeOK' /\ SessionTypeOK' /\ Apart'
    BY <1>0, <2>1 DEF SignInTypeOK, SessionTypeOK, Apart
  <2>3. DoorSound'
    BY <1>0, <2>1 DEF DoorSound, CodesSound, OneEach, Mailed, TabSound, TypedSound, ChallengeSound,
      FoundSound, RefusedRightly, TypedNewest
  <2>4. SessionSound'
    BY <1>0, <2>1 DEF SessionSound, RanSound, Staying, StaySound, CookieSound, FlightsSound, CallSound,
      Untold, Marked, Accepted, NoSpuriousSignOut, SignedOut, SignedIn, Unstored
  <2> QED BY <2>2, <2>3, <2>4 DEF PortalSound, TypeOK
<1> QED BY <1>1, <1>2, <1>3, <1>4 DEF Next

-----------------------------------------------------------------------------

\* The invariant the properties follow from: PortalSound is inductive.
THEOREM PortalInvariant == Spec => []PortalSound
<1> QED BY InitSound, NextKeeps, PTL DEF Spec

\* Every variable of the sign-in page and the session keeps to its kind.
THEOREM TypeCorrect == Spec => []TypeOK
<1>1. PortalSound => TypeOK
  BY DEF PortalSound
<1> QED BY <1>1, PortalInvariant, PTL

\* The conditional update of consumeOTP lets one submission of a mailed code
\* in, in however many tabs it is typed at once.
THEOREM CodeAdmitsOnce == Spec => []OneSignInPerCode
<1>1. PortalSound => OneSignInPerCode
  <2>1. SUFFICES ASSUME PortalSound, Mailed, NEW n \in Codes
                 PROVE  Cardinality({t \in Tabs : req[t].st = "in" /\ req[t].found = n}) <= 1
    BY DEF OneSignInPerCode
  <2> DEFINE S == {t \in Tabs : req[t].st = "in" /\ req[t].found = n}
  <2>2. \A t, u \in S : t = u
    BY <2>1 DEF PortalSound, DoorSound, OneEach
  <2> HIDE DEF S
  <2>3. Cardinality(S) <= 1
    <3>1. CASE S = {}
      <4>1. Cardinality(S) = 0
        BY <3>1, FS_EmptySet
      <4> QED BY <4>1
    <3>2. CASE S # {}
      <4>1. PICK t : S = {t}
        BY <2>2, <3>2
      <4>2. Cardinality(S) = 1
        BY <4>1, FS_Singleton
      <4> QED BY <4>2
    <3> QED BY <3>1, <3>2
  <2> QED BY <2>3 DEF S
<1> QED BY <1>1, PortalInvariant, PTL

\* Who types the newest code in time gets in, whatever the other tabs do, for
\* any number of tabs, codes and tries.
THEOREM RightCodeAlwaysWorks == Spec => []RightCodeWorks
<1>1. PortalSound => RightCodeWorks
  BY DEF PortalSound, DoorSound, TabSound, RefusedRightly, TypedNewest, RightCodeWorks
<1> QED BY <1>1, PortalInvariant, PTL

\* Renewing the session never carries a call out twice.
THEOREM NeverCarriedOutTwice == Spec => []CarriedOutOnce
<1>1. PortalSound => CarriedOutOnce
  BY DEF PortalSound, SessionSound, RanSound, CarriedOutOnce
<1> QED BY <1>1, PortalInvariant, PTL

\* Rotation, shared refreshes, layouts that cannot store the cookie and answers
\* in any order sign nobody out, for any number of calls and pairs, unless a
\* token runs out under its holder or was not stored; nor does a single failed
\* refresh where a call is tried again.
THEOREM NeverSignedOutByRotation == Spec => []NoSpuriousSignOut
<1>1. PortalSound => NoSpuriousSignOut
  BY DEF PortalSound, SessionSound
<1> QED BY <1>1, PortalInvariant, PTL

=============================================================================
