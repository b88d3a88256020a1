------------------------------- MODULE SignIn -------------------------------
(***************************************************************************)
(* The sign-in and sign-up pages of the three portals: tabs of one person, *)
(* the authorize function of the portal's server (lib/auth.ts), and the    *)
(* one-time codes of the API (handlers otp.go, auth.go, mfa.go).           *)
(*                                                                         *)
(* Codes are numbered in the order of their creation; a challenge has the  *)
(* number of the code that was mailed with it and lapses with it.  Time is *)
(* two marks: codes 1..cold are older than the resend cooldown, codes and  *)
(* challenges 1..lapsed older than their validity.                         *)
(***************************************************************************)
EXTENDS Naturals, FiniteSets

CONSTANTS
  Tabs,      \* tabs in which the person tries
  MaxCodes,  \* bound: codes and challenges issued
  MaxTries   \* wrong guesses a code tolerates (MaxOTPAttempts)

ASSUME SignInAssumption == MaxCodes \in Nat \ {0} /\ MaxTries \in Nat \ {0}

\* What the second step asks for ("mail", "app", "register": a mailed code
\* that opens an account; "none"), and whether a lapsed challenge is renewed
\* by signing in again with the password at hand.
Door(code, renews) == [code |-> code, renews |-> renews]
CompanyLogin == {Door("mail", TRUE), Door("app", TRUE)}
CompanyRegister == Door("register", FALSE)
ConsoleLogin == Door("mail", FALSE)
EmployeeLogin == Door("none", FALSE)
EmployeeRegister == Door("signup", FALSE)
ViewLink == Door("none", FALSE)
Inside == Door("open", FALSE)

Codes == 1..MaxCodes
NoRequest == [st |-> "none", chal |-> 0, typed |-> 0, found |-> 0, tries |-> 0,
              again |-> FALSE]
Fresh == [chal |-> 0, last |-> 0]
NoResend == [st |-> "none", chal |-> 0]

VARIABLES
  door,     \* the page's facts; Inside once the dashboard is open
  page,     \* tab -> otpToken or mfaToken (0: first step) and the code resendIn
            \* counts from (0: it has run down)
  req,      \* tab -> its sign-in request
  resend,   \* tab -> its resend request and the challenge it was sent with
  codes,    \* code -> [st, tries]
  created, cold, lapsed,
  account   \* the account exists

signInVars == <<door, page, req, resend, codes, created, cold, lapsed, account>>
stores == <<codes, created, cold, lapsed, account>>

Spent == [st |-> "used", tries |-> 0]  \* nobody looks at its attempts again
NoCodes == [n \in Codes |-> [st |-> "none", tries |-> 0]]

SignInInit(doors) ==
  /\ door \in doors
  /\ page = [t \in Tabs |-> Fresh]
  /\ req = [t \in Tabs |-> NoRequest]
  /\ resend = [t \in Tabs |-> NoResend]
  /\ codes = NoCodes /\ created = 0 /\ cold = 0 /\ lapsed = 0
  /\ account = (door.code \notin {"register", "signup"})

Mailed == door.code \in {"mail", "register"}
Lapsed(n) == n <= lapsed /\ door.code # "register"

-----------------------------------------------------------------------------
(* The codes.                                                              *)

\* issueOTP, its first statement: earlier unused codes are retired.
Retire ==
  /\ codes' = [n \in Codes |-> IF codes[n].st = "live" THEN Spent ELSE codes[n]]
  /\ UNCHANGED <<created, cold, lapsed, account>>

\* issueOTP, its second statement: the new code; an authenticator app has
\* only the challenge.
Create ==
  /\ created < MaxCodes
  /\ created' = created + 1
  /\ codes' = IF Mailed THEN [codes EXCEPT ![created + 1].st = "live"] ELSE codes
  /\ UNCHANGED <<cold, lapsed, account>>

Live == {n \in Codes : codes[n].st = "live"}

\* A plausible mistake: the order of the query is left out.
PendingOldest == CHOOSE n \in Live : \A k \in Live : n <= k

\* The code a submission is compared with: the newest unconsumed one.
Pending == CHOOSE n \in Live : \A k \in Live : k <= n

\* cooldownRemaining
Cooled == created <= cold

-----------------------------------------------------------------------------
(* The first step: password, or the details of a new account.              *)

Requests(t, r) == req' = [req EXCEPT ![t] = r]
Stage(t, st) == req[t].st = st
Advance(t, st) == Requests(t, [req[t] EXCEPT !.st = st])
Refused(t) == Requests(t, [req[t] EXCEPT !.st = "refused", !.found = 0, !.tries = 0])
\* "too many incorrect attempts"
Exhausted(t) == Requests(t, [req[t] EXCEPT !.st = "refused", !.found = 0, !.tries = MaxTries])
Admitted(t) == Requests(t, [NoRequest EXCEPT !.st = "in", !.found = req[t].found])
Asks(t, n) == page' = [page EXCEPT ![t] = [chal |-> n, last |-> n]]

\* The button is disabled while a request is out.
Ready(t) == door # Inside /\ Stage(t, "none")

\* handleSubmit without a code.
Submit(t) ==
  /\ Ready(t) /\ page[t].chal = 0
  /\ Advance(t, IF door.code = "signup" THEN "signup" ELSE "login")
  /\ UNCHANGED <<door, page, resend, stores>>

\* POST /portal/signup; the page then signs in with the new password.
Signup(t) ==
  /\ Stage(t, "signup")
  /\ IF account THEN Refused(t) ELSE Advance(t, "login")
  /\ account' = TRUE
  /\ UNCHANGED <<door, page, resend, codes, created, cold, lapsed>>

\* POST /auth/login, /auth/register/start, /portal/login, /impersonate/consume
Login(t) ==
  /\ Stage(t, "login")
  /\ \/ /\ door.code = "register" /\ (account \/ ~Cooled)
        /\ Refused(t) /\ UNCHANGED stores
     \/ /\ door.code = "register" => ~account /\ Cooled
        /\ Mailed /\ Advance(t, "issuing") /\ Retire
     \/ /\ door.code = "app" /\ Advance(t, "issuing") /\ UNCHANGED stores
     \/ /\ door.code \in {"none", "signup"} /\ Admitted(t) /\ UNCHANGED stores
  /\ UNCHANGED <<door, page, resend>>

\* OTP_REQUIRED, MFA_REQUIRED; or the challenge authorize was after.
Issue(t) ==
  /\ Stage(t, "issuing")
  /\ Create
  /\ IF req[t].again
       THEN Requests(t, [req[t] EXCEPT !.st = "verify", !.chal = created + 1]) /\ UNCHANGED page
       ELSE Requests(t, NoRequest) /\ Asks(t, created + 1)
  /\ UNCHANGED <<door, resend>>

-----------------------------------------------------------------------------
(* The second step.                                                        *)

\* What may be typed: a mailed code, the app's code (1), or neither (0).
Typing == {0} \cup IF Mailed THEN 1..created ELSE {1}

\* handleSubmit, handleVerify with a code.
SubmitCode(t, k) ==
  /\ Ready(t) /\ page[t].chal # 0 /\ k \in Typing
  /\ Requests(t, [NoRequest EXCEPT !.st = "verify", !.chal = page[t].chal, !.typed = k])
  /\ UNCHANGED <<door, page, resend, stores>>

\* authorize on MFA_CHALLENGE_EXPIRED, OTP_CHALLENGE_EXPIRED
Renew(t) ==
  /\ Stage(t, "verify") /\ Lapsed(req[t].chal)
  /\ IF door.renews /\ ~req[t].again
       THEN Requests(t, [req[t] EXCEPT !.st = "login", !.again = TRUE])
       ELSE Refused(t)
  /\ UNCHANGED <<door, page, resend, stores>>

\* MFAHandler.Verify: the app's codes are not stored.
VerifyApp(t) ==
  /\ Stage(t, "verify") /\ ~Lapsed(req[t].chal) /\ door.code = "app"
  /\ IF req[t].typed = 1 THEN Admitted(t) ELSE Refused(t)
  /\ UNCHANGED <<door, page, resend, stores>>

\* consumeOTP, its query and the checks on what it found.
Look(t) ==
  /\ Stage(t, "verify") /\ ~Lapsed(req[t].chal) /\ Mailed
  /\ LET n == Pending
     IN  IF Live = {} \/ n <= lapsed THEN Refused(t)
         ELSE IF codes[n].tries >= MaxTries THEN Exhausted(t)
         ELSE IF n = req[t].typed
           THEN Requests(t, [req[t] EXCEPT !.st = "found", !.found = n, !.chal = 0])
           ELSE Requests(t, [req[t] EXCEPT !.st = "wrong", !.found = n, !.chal = 0,
                                           !.tries = codes[n].tries + 1])
  /\ UNCHANGED <<door, page, resend, stores>>

\* consumeOTP: attempts, from the row as it was read.
CountWrong(t) ==
  /\ Stage(t, "wrong")
  /\ codes' = IF codes[req[t].found] = Spent THEN codes
              ELSE [codes EXCEPT ![req[t].found].tries = req[t].tries]
  /\ Refused(t)
  /\ UNCHANGED <<door, page, resend, created, cold, lapsed, account>>

\* A plausible mistake: the code is marked without looking at it again.
ConsumeAnyway(t) ==
  /\ Stage(t, "found")
  /\ codes' = [codes EXCEPT ![req[t].found] = Spent]
  /\ IF door.code = "register" /\ account THEN Refused(t) ELSE Admitted(t)
  /\ account' = TRUE
  /\ UNCHANGED <<door, page, resend, created, cold, lapsed>>

\* consumeOTP, the conditional update; then the session, or the organisation
\* and its first administrator if the address is still free.
Consume(t) ==
  /\ Stage(t, "found")
  /\ LET won == codes[req[t].found].st = "live"
     IN  /\ codes' = [codes EXCEPT ![req[t].found] = Spent]
         /\ IF won /\ ~(door.code = "register" /\ account) THEN Admitted(t) ELSE Refused(t)
         /\ account' = (account \/ won)
  /\ UNCHANGED <<door, page, resend, created, cold, lapsed>>

\* The error is shown; the page stays where it is.
ShowError(t) ==
  /\ Stage(t, "refused")
  /\ Requests(t, NoRequest)
  /\ UNCHANGED <<door, page, resend, stores>>

\* A wrong password, or no answer: the same, wherever the request is.
Fault(t) ==
  /\ req[t].st \in {"signup", "login", "issuing", "verify", "found"}
  /\ Requests(t, NoRequest)
  /\ UNCHANGED <<door, page, resend, stores>>

\* backToPassword, backToDetails; also while a request is out.
Back(t) ==
  /\ page[t].chal # 0 /\ req[t].st # "in"
  /\ page' = [page EXCEPT ![t] = Fresh]
  /\ UNCHANGED <<door, req, resend, stores>>

-----------------------------------------------------------------------------
(* Resending.                                                              *)

Resends(t, r) == resend' = [resend EXCEPT ![t] = r]

\* resendCode, once resendIn has run down.
ResendCode(t) ==
  /\ Mailed /\ page[t].chal # 0 /\ page[t].last = 0 /\ req[t].st # "in"
  /\ resend[t] = NoResend /\ Resends(t, [st |-> "sent", chal |-> page[t].chal])
  /\ UNCHANGED <<door, page, req, stores>>

\* ResendLogin, ResendRegistration: a lapsed challenge sends the page back, a
\* code too new is an error.
AnswerResend(t) ==
  /\ resend[t].st = "sent"
  /\ \/ /\ Lapsed(resend[t].chal)
        /\ page' = [page EXCEPT ![t] = Fresh] /\ Resends(t, NoResend) /\ UNCHANGED stores
     \/ /\ ~Lapsed(resend[t].chal) /\ ~Cooled
        /\ Resends(t, NoResend) /\ UNCHANGED <<page, stores>>
     \/ /\ ~Lapsed(resend[t].chal) /\ Cooled
        /\ Resends(t, [st |-> "issuing", chal |-> 0]) /\ Retire /\ UNCHANGED page
  /\ UNCHANGED <<door, req>>

IssueResend(t) ==
  /\ resend[t].st = "issuing"
  /\ Create
  /\ page' = [page EXCEPT ![t].last = created + 1]
  /\ Resends(t, NoResend)
  /\ UNCHANGED <<door, req>>

-----------------------------------------------------------------------------

\* resendIn runs down with it.
Cool ==
  /\ cold < created /\ cold' = cold + 1
  /\ page' = [t \in Tabs |-> IF page[t].last = cold + 1 THEN [page[t] EXCEPT !.last = 0] ELSE page[t]]
  /\ UNCHANGED <<door, req, resend, codes, created, lapsed, account>>

\* A request is over long before the challenge it renewed.
Lapse ==
  /\ lapsed < cold /\ lapsed' = lapsed + 1
  /\ \A t \in Tabs : req[t].again => req[t].chal # lapsed + 1
  /\ UNCHANGED <<door, page, req, resend, codes, created, cold, account>>

\* The dashboard opens in one of the tabs; the others are not followed.
Enter ==
  /\ \E t \in Tabs : Stage(t, "in")
  /\ door' = Inside
  /\ page' = [t \in Tabs |-> Fresh] /\ req' = [t \in Tabs |-> NoRequest]
  /\ resend' = [t \in Tabs |-> NoResend]
  /\ codes' = NoCodes /\ created' = 0 /\ cold' = 0 /\ lapsed' = 0 /\ account' = TRUE

AtTheDoor ==
  \/ \E t \in Tabs :
       \/ Submit(t) \/ Signup(t) \/ Login(t) \/ Issue(t)
       \/ \E k \in 0..MaxCodes : SubmitCode(t, k)
       \/ Renew(t) \/ VerifyApp(t) \/ Look(t) \/ CountWrong(t) \/ Consume(t)
       \/ ShowError(t) \/ Fault(t) \/ Back(t)
       \/ ResendCode(t) \/ AnswerResend(t) \/ IssueResend(t)
  \/ Cool \/ Lapse

-----------------------------------------------------------------------------

SignInTypeOK ==
  /\ door.code \in {"mail", "app", "register", "signup", "none", "open"}
  /\ page \in [Tabs -> [chal : 0..MaxCodes, last : 0..MaxCodes]]
  /\ req \in [Tabs -> [st : {"none", "signup", "login", "issuing", "verify", "found", "wrong",
                             "refused", "in"},
                       chal : 0..MaxCodes, typed : 0..MaxCodes, found : 0..MaxCodes,
                       tries : 0..MaxTries, again : BOOLEAN]]
  /\ resend \in [Tabs -> [st : {"none", "sent", "issuing"}, chal : 0..MaxCodes]]
  /\ codes \in [Codes -> [st : {"none", "live", "used"}, tries : 0..MaxTries]]
  /\ created \in 0..MaxCodes /\ cold \in 0..created /\ lapsed \in 0..cold
  /\ account \in BOOLEAN

\* A mailed code finishes one sign-in at most, in whatever tabs it is typed:
\* "two racing submissions of the same code can't both succeed" (otp.go).
OneSignInPerCode ==
  Mailed => \A n \in Codes :
    Cardinality({t \in Tabs : req[t].st = "in" /\ req[t].found = n}) <= 1

\* A refused code would be refused again: who types the newest code, in time
\* and not told that the tries are used up, gets in, though another tab signs
\* in, resends or guesses meanwhile.  (Used up they may be for a while only:
\* a slower tab writes the count it read.)  Not with a mailed code and a lapsed challenge: where
\* authorize renews it, "the emailed code itself is still valid, so
\* re-authenticate and verify it again" (lib/auth.ts), but signing in again
\* retires the code.
RightCodeWorks ==
  \A t \in Tabs : req[t].st = "refused" /\ req[t].typed # 0 =>
    \/ door.code = "app" /\ req[t].typed # 1
    \/ Mailed /\ ~(/\ req[t].typed = created /\ codes[created].st = "live"
                   /\ created > lapsed /\ req[t].tries < MaxTries)
    \/ door.code = "mail" /\ (req[t].again \/ req[t].chal \in 1..lapsed)

=============================================================================
