--------------------------------- MODULE SSO ---------------------------------
(* apps/sso: signing in with an OAuth2 provider, the token cookie that carries *)
(* the identity from then on, and signing out.  A request runs through the     *)
(* filters cookies, sessions, users, oidclogin and jwtissuer to one of the     *)
(* handlers of components/login, or to a page.                                 *)
(*                                                                             *)
(* The sessions are those of module Sessions, kept in the Kubernetes storage.  *)
(* Between the lookup of its session and the write, a request touches nothing  *)
(* that others share, so its filters and its handler are one step.             *)
EXTENDS Sessions

CONSTANTS
  Users,        \* The users of the provider's accounts; an account has one.
  NoUser,
  Nonces,       \* What randomID draws for StateData.Nonce.
  NoNonce,
  Redirects,    \* {TRUE} if requests may come with ?redirect=, else {}.
  MaxLogouts    \* Bound: logout requests sent.

\* What a response does to the token's cookie, if it does not set it to a user's.
Keep == "keep"       \* No Set-Cookie for the token.
Clear == "clear"     \* A Set-Cookie that removes it.

ASSUME SSOAssumption ==
  /\ NoUser \notin Users /\ Keep \notin Users /\ Clear \notin Users
  /\ NoNonce \notin Nonces
  /\ Redirects \subseteq {TRUE}
  /\ MaxLogouts \in Nat

\* UserSessionInfo, StateData and AppSessionData of a session.
SessionData == [user : Users \cup {NoUser}, nonce : Nonces \cup {NoNonce}, redirect : BOOLEAN]
EmptyData == [user |-> NoUser, nonce |-> NoNonce, redirect |-> FALSE]

ASSUME SessionDataAssumption == Values = SessionData /\ Empty = EmptyData

VARIABLES
  token,    \* Per browser: the user its token cookie names.
  flows,    \* Per browser: the logins it started and can come back from.
  drawn,    \* The nonces drawn so far.
  job,      \* Per request: what it asks, and what came of it.
  granted,  \* Ghost: per browser, whom it signed in as since it signed out.
  spent,    \* Ghost: logins completed and answered, nothing else in flight.
  logouts   \* Logout requests sent.

ssoVars == <<token, flows, drawn, job, granted, spent, logouts>>
vars == <<backend, store, jar, pc, sess, cookie, base, clean, known,
          token, flows, drawn, job, granted, spent, logouts>>

\* A request, as it is sent.
Job(kind, nonce, account, redirect, t) ==
  [kind |-> kind, nonce |-> nonce, account |-> account, redirect |-> redirect,
   token |-> t, out |-> Keep, served |-> "not", answer |-> "none"]

NoJob == Job("none", NoNonce, NoUser, FALSE, NoUser)

Init ==
  /\ SessionsInit /\ backend = "kube"
  /\ token = [b \in Browsers |-> NoUser]
  /\ flows = [b \in Browsers |-> {}]
  /\ drawn = {}
  /\ job = [r \in Requests |-> NoJob]
  /\ granted = [b \in Browsers |-> {}]
  /\ spent = {}
  /\ logouts = 0

-----------------------------------------------------------------------------

\* A request goes out with the browser's token.
Asks(r, kind, nonce, account, redirect) ==
  job' = [job EXCEPT ![r] = Job(kind, nonce, account, redirect, token[Home[r]])]

\* A browser asks for a page, for the start of a login, to come back from the
\* provider signed in as some account, or without having been let in, or to log
\* out.
SendRequest(r) ==
  /\ Send(r)
  /\ \/ \E d \in {FALSE} \cup Redirects :
          \/ Asks(r, "page", NoNonce, NoUser, d)
          \/ Nonces # drawn /\ Asks(r, "start", NoNonce, NoUser, d)
     \/ \E n \in flows[Home[r]], u \in Users \cup {NoUser} :
          Asks(r, "callback", n, u, FALSE)
     \/ logouts < MaxLogouts /\ Asks(r, "logout", NoNonce, NoUser, FALSE)
  /\ logouts' = IF job'[r].kind = "logout" THEN logouts + 1 ELSE logouts
  /\ UNCHANGED <<token, flows, drawn, granted, spent>>

LookupSession(r) == Lookup(r) /\ UNCHANGED ssoVars

-----------------------------------------------------------------------------
(* The filters and the handlers.                                              *)

\* userFromJWTToken and UserFromJWT: nobody when there is no token, or when it
\* could not be verified, be it only that the keys could not be fetched.
UsersByToken(t) == {t, NoUser}

\* SetUser on a session.
WithUser(data, u) == [data EXCEPT !.user = u]

\* Mutant of TokenBefore: a token that named nobody is left alone.
TokenBeforeKeeping(t, u) == IF t = NoUser \/ u = NoUser THEN {Keep} ELSE {Keep, u}

\* jwtissuer before the handler: a token that named nobody is removed, and one
\* that expires soon is replaced.
TokenBefore(t, u) ==
  IF t = NoUser THEN {Keep} ELSE IF u = NoUser THEN {Clear} ELSE {Keep, u}

\* Mutant of TokenAfter: a logout is not detected.
TokenAfterSignInOnly(before, u, v) ==
  IF v # NoUser /\ (u = NoUser \/ u = v) THEN v ELSE before

\* jwtissuer after the handler, which turned user u into v.
TokenAfter(before, u, v) ==
  IF v = NoUser
  THEN IF u # NoUser THEN Clear ELSE before
  ELSE IF u = NoUser \/ u = v THEN v ELSE before

\* A redirect that is asked for is kept in the session ...
WithRedirect(data, asked) == [data EXCEPT !.redirect = @ \/ asked]

\* ... and followed by the first request that has a user.
Redirected(u, data) == u # NoUser /\ data.redirect

\* Mutants of Handled: Logout leaves the session alone, and OAuthCallback leaves
\* StateData in it.
HandledKeepingUser(j, data, n) ==
  CASE j.kind \in {"page", "logout"} -> data
    [] j.kind = "start"    -> [data EXCEPT !.nonce = n]
    [] j.kind = "callback" -> [WithUser(data, j.account) EXCEPT !.nonce = NoNonce]
HandledKeepingState(j, data, n) ==
  CASE j.kind = "page"     -> data
    [] j.kind = "start"    -> [data EXCEPT !.nonce = n]
    [] j.kind = "logout"   -> WithUser(data, NoUser)
    [] j.kind = "callback" -> WithUser(data, j.account)

\* The handlers: Page, StartOAuth2Login (draws n), Logout and OAuthCallback.
Handled(j, data, n) ==
  CASE j.kind = "page"     -> data
    [] j.kind = "start"    -> [data EXCEPT !.nonce = n]
    [] j.kind = "logout"   -> WithUser(data, NoUser)
    [] j.kind = "callback" -> [WithUser(data, j.account) EXCEPT !.nonce = NoNonce]

\* OAuthCallback redeems the code only in the session that started the login,
\* and only if the provider let somebody in.
MayRedeem(j, data) == j.nonce = data.nonce /\ j.account # NoUser

\* The session as the filter that reads ?redirect= leaves it.
Arrived(r) == WithRedirect(sess[r].val, job[r].redirect)

\* The filters and the handler end without an error, with data in the session.
Serves(r, data, touched) ==
  Returns(r, data, touched) /\ UNCHANGED <<token, flows, spent, logouts>>

\* jwtissuer follows the redirect instead of calling the handler.
ServeRedirect(r) ==
  /\ pc[r] = "handler"
  /\ \E u \in UsersByToken(job[r].token) :
       /\ Redirected(u, Arrived(r))
       /\ Serves(r, [WithUser(Arrived(r), u) EXCEPT !.redirect = FALSE], TRUE)
       /\ \E out \in TokenBefore(job[r].token, u) :
            job' = [job EXCEPT ![r].out = out, ![r].served = "redirect"]
  /\ UNCHANGED <<drawn, granted>>

\* The handler runs, with the filters around it.
ServeHandler(r) ==
  LET j == job[r]
  IN  /\ pc[r] = "handler"
      /\ j.kind = "callback" => MayRedeem(j, Arrived(r))
      /\ \E u \in UsersByToken(j.token),
            n \in (IF j.kind = "start" THEN Nonces \ drawn ELSE {NoNonce}) :
           LET data == Handled(j, WithUser(Arrived(r), u), n)
           IN  /\ ~Redirected(u, Arrived(r))
               /\ Serves(r, data, j.redirect \/ u # NoUser \/ j.kind \in {"start", "callback"})
               /\ \E before \in TokenBefore(j.token, u) :
                    job' = [job EXCEPT ![r].out = TokenAfter(before, u, data.user),
                                       ![r].served = "handler",
                                       ![r].nonce = IF j.kind = "start" THEN n ELSE @]
               /\ drawn' = IF j.kind = "start" THEN drawn \cup {n} ELSE drawn
      /\ granted' = IF j.kind = "callback"
                    THEN [granted EXCEPT ![Home[r]] = @ \cup {j.account}]
                    ELSE granted

\* A filter that gets an error passes it on without the response that came with
\* it: ProcessRequest of sessions and of cookies.
Filtered(response) == "none"

\* ServeHTTP writes the response that came with an error, or a plain 500.
Answered(response) == IF response = "none" THEN "internal" ELSE response

\* A filter or the handler fails.  OAuthCallback refuses with a response of its
\* own when the provider let nobody in.
Refuses(r) ==
  /\ pc[r] = "handler"
  /\ Fail(r)
  /\ \E response \in {"none"} \cup
        (IF job[r].kind = "callback" /\ job[r].account = NoUser THEN {"forbidden"} ELSE {}) :
       job' = [job EXCEPT ![r].out = Keep, ![r].served = response,
                          ![r].answer = Answered(Filtered(response))]
  /\ UNCHANGED <<token, flows, drawn, granted, spent, logouts>>

\* The session's steps; a response other than "ok" loses the token's cookie.
StoreSession(r) ==
  /\ StorageStep(r) \/ LookupFails(r)
  /\ job' = IF pc'[r] = "error"
            THEN [job EXCEPT ![r].out = Keep, ![r].answer = "internal"] ELSE job
  /\ UNCHANGED <<token, flows, drawn, granted, spent, logouts>>

-----------------------------------------------------------------------------
(* The browser.                                                               *)

\* The token cookie after a response with Set-Cookie out.
TokenJar(t, out) == IF out = Keep THEN t ELSE IF out = Clear THEN NoUser ELSE out

\* What only a request that had the browser's session to itself can promise.
AnsweredAlone(r, kind) ==
  pc[r] = "ok" /\ clean[r] /\ job[r].kind = kind /\ job[r].served = "handler"

DeliverResponse(r) ==
  LET b == Home[r]
  IN  /\ Deliver(r)
      /\ token' = [token EXCEPT ![b] = TokenJar(@, job[r].out)]
      /\ flows' = IF pc[r] = "ok" /\ job[r].kind = "start" /\ job[r].served = "handler"
                  THEN [flows EXCEPT ![b] = @ \cup {job[r].nonce}] ELSE flows
      /\ granted' = IF AnsweredAlone(r, "logout") THEN [granted EXCEPT ![b] = {}] ELSE granted
      /\ spent' = IF AnsweredAlone(r, "callback") THEN spent \cup {job[r].nonce} ELSE spent
      /\ job' = [job EXCEPT ![r] = NoJob]
      /\ UNCHANGED <<drawn, logouts>>

LoseResponse(r) ==
  /\ ResponseLost(r)
  /\ job' = [job EXCEPT ![r] = NoJob]
  /\ UNCHANGED <<token, flows, drawn, granted, spent, logouts>>

\* The cookie expires before the token in it does.
TokenExpires(b) ==
  /\ token[b] # NoUser
  /\ token' = [token EXCEPT ![b] = NoUser]
  /\ UNCHANGED <<store, jar, pc, sess, cookie, base, clean, known>>
  /\ UNCHANGED <<flows, drawn, job, granted, spent, logouts>>

PurgeSession(s) == Purge(s) /\ UNCHANGED ssoVars

RestartServer ==
  /\ Restart
  /\ job' = [r \in Requests |-> NoJob]
  /\ UNCHANGED <<token, flows, drawn, granted, spent, logouts>>

Next ==
  /\ UNCHANGED backend
  /\ \/ \E r \in Requests :
          \/ SendRequest(r) \/ LookupSession(r)
          \/ ServeRedirect(r) \/ ServeHandler(r) \/ Refuses(r)
          \/ StoreSession(r) \/ DeliverResponse(r) \/ LoseResponse(r)
     \/ \E b \in Browsers : TokenExpires(b)
     \/ \E s \in SIDs : PurgeSession(s)
     \/ RestartServer

Spec == Init /\ [][Next]_vars

-----------------------------------------------------------------------------

\* Whoever the browser is by it, it signed in as.
Earned(b, u) == u \in Users => u \in granted[b]

\* A browser is never somebody it did not sign in as since it last signed out:
\* not by its token, not by its session, and not by a request or a response on
\* its way (SetUser, setCookie, Logout).  A logout counts as one when no other
\* request overlapped it.
IdentityEarned ==
  \A b \in Browsers :
    /\ Earned(b, token[b])
    /\ Earned(b, Found(jar[b]).user)
    /\ \A r \in Requests : Home[r] = b =>
         \A u \in {job[r].token, sess[r].val.user, job[r].out} : Earned(b, u)

\* When a request that had the session to itself is answered, the session and
\* the token name the same user, unless it signed in somebody who was signed in
\* already (oidclogin, jwtissuer).
AnswerAgrees ==
  \A r \in Requests :
    (/\ pc[r] = "ok" /\ pc'[r] = "idle" /\ jar'[Home[r]] \in SIDs
     /\ clean[r] /\ known'[Home[r]] # Unknown
     /\ ~(job[r].kind = "callback" /\ job[r].token # NoUser))
    => token'[Home[r]] \in {known'[Home[r]].user, NoUser}

IdentitiesAgree == [][AnswerAgrees]_vars

\* A login answered to a browser that had no token leaves it with a token for
\* the account, and a logout leaves it without one; neither with an unrelated
\* session (OAuthCallback, Logout, jwtissuer).
AnswerTakesEffect ==
  \A r \in Requests :
    LET b == Home[r]
    IN  (pc'[r] = "idle" /\ known'[b] # Unknown) =>
          /\ (AnsweredAlone(r, "callback") /\ job[r].token = NoUser) =>
               token'[b] = job[r].account /\ known'[b].user = job[r].account
          /\ AnsweredAlone(r, "logout") =>
               token'[b] = NoUser /\ known'[b].user = NoUser

SignInAndOutTakeEffect == [][AnswerTakesEffect]_vars

\* A login that was completed and answered, with nothing else in flight, is not
\* completed again, whatever the browser resubmits (OAuthCallback clears
\* StateData).
CompletesUnspent ==
  \A r \in Requests :
    (pc[r] = "handler" /\ job'[r].served = "handler" /\ job[r].kind = "callback")
    => job[r].nonce \notin spent

CompletedOnce == [][CompletesUnspent]_vars

\* Signing in sets the token of the user who signed in ("user login detected;
\* setting cookie", jwtissuer), whoever was signed in before.
LoginSetsToken ==
  [][\A r \in Requests :
       AnsweredAlone(r, "callback") /\ known'[Home[r]] # Unknown /\ pc'[r] = "idle"
       => token'[Home[r]] = job[r].account]_vars

-----------------------------------------------------------------------------
(* Why they hold: what is proved in SSOProofs.  LoginSetsToken does not.       *)

Jobs ==
  [kind : {"none", "page", "start", "callback", "logout"},
   nonce : Nonces \cup {NoNonce}, account : Users \cup {NoUser},
   redirect : BOOLEAN, token : Users \cup {NoUser}, out : Users \cup {Keep, Clear},
   served : {"not", "redirect", "handler", "none", "forbidden"},
   answer : {"none", "internal", "forbidden"}]

SSOTypes ==
  /\ backend = "kube"
  /\ token \in [Browsers -> Users \cup {NoUser}]
  /\ flows \in [Browsers -> SUBSET Nonces]
  /\ drawn \in SUBSET Nonces
  /\ job \in [Requests -> Jobs]
  /\ granted \in [Browsers -> SUBSET Users]
  /\ spent \in SUBSET drawn
  /\ logouts \in Nat

\* Requests that are over leave nothing, and those not yet served have changed
\* nothing.
Unserved(r) ==
  /\ pc[r] = "idle" => sess[r] = NewSession /\ cookie[r] = NoSID /\ job[r] = NoJob
  /\ pc[r] \in {"lookup", "handler"} =>
       job[r].kind # "none" /\ job[r].served = "not" /\ job[r].out = Keep
  /\ job[r].kind = "callback" => job[r].nonce # NoNonce

\* What a served request leaves in the session and in the token's cookie.
Served(r) ==
  LET j == job[r]
      u == sess[r].val.user
  IN  pc[r] \in {"write", "update", "ok"} =>
        /\ j.served \in {"redirect", "handler"}
        /\ j.served = "handler" =>
             /\ j.kind = "start" => j.nonce # NoNonce
             /\ j.kind = "logout" => u = NoUser
             /\ j.kind = "callback" =>
                  /\ u = j.account /\ sess[r].val.nonce = NoNonce
                  /\ j.token = NoUser => j.out = u
        /\ \/ j.kind = "callback" /\ j.token # NoUser
           \/ j.out = Clear \/ (j.out = u /\ u \in Users)
           \/ (j.out = Keep /\ j.token \in {u, NoUser})

\* The token a request came with is its browser's, unless that is gone, or
\* another request of the browser was answered meanwhile.
CameWithToken(r) ==
  InFlight(r) /\ clean[r] => token[Home[r]] \in {job[r].token, NoUser}

\* What a browser's sessions hold: those stored, and those requests work on.
Has(b, data) ==
  \/ \E s \in SIDs : Holds(b, s) /\ data = Found(s)
  \/ \E r \in Requests : Home[r] = b /\ data = sess[r].val

\* IdentityEarned of the tokens and of the sessions.
TokensEarned ==
  /\ \A b \in Browsers : Earned(b, token[b])
  /\ \A r \in Requests : Earned(Home[r], job[r].token) /\ Earned(Home[r], job[r].out)

SessionsEarned ==
  \A b \in Browsers, data \in SessionData : Has(b, data) => Earned(b, data.user)

\* The nonces that a browser started a login with.
Started(b, n) ==
  \/ n \in flows[b]
  \/ \E r \in Requests : Home[r] = b /\ job[r].nonce = n
  \/ \E data \in SessionData : Has(b, data) /\ data.nonce = n

\* Each belongs to one browser, and was drawn.
NoncesApart ==
  \A b \in Browsers, n \in Nonces : Started(b, n) =>
    n \in drawn /\ \A c \in Browsers : Started(c, n) => b = c

\* No session holds one that is spent.
SpentAreGone ==
  \A n \in spent, b \in Browsers, data \in SessionData :
    Has(b, data) => data.nonce # n

SSOInv ==
  /\ SessionsInv /\ SSOTypes
  /\ \A r \in Requests : Unserved(r) /\ Served(r) /\ CameWithToken(r)
  /\ TokensEarned /\ SessionsEarned /\ NoncesApart /\ SpentAreGone
=============================================================================
