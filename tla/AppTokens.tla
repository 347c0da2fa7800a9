------------------------------ MODULE AppTokens ------------------------------
(* components/github, GetClient and appauth.go: a request that wants to call   *)
(* GitHub gets a client for the first installation in its user's namespace.    *)
(* The client asks for an installation token when it needs one, proving itself *)
(* to GitHub with a JWT signed by the app's key.  The goroutines of a request  *)
(* share the client; GitHub's clock may differ from the process's.             *)
EXTENDS KubeClient

CONSTANTS
  Goroutines,   \* What uses the client.
  Held,         \* Installations (positive ids) whose objects may be in the user's namespace.
  Skews,        \* By how much GitHub's clock is ahead of the process's.
  TokenLife,    \* The life of an installation token (an hour).
  JwtLife,      \* GitHub's limit for the life of a JWT (ten minutes).
  Backdating,   \* How far a JWT is dated back (a minute).
  OwnMargin,    \* What userTokenSource wants left of a token (a minute).
  ReuseMargin,  \* What oauth2 wants left of a token (ten seconds).
  MaxNow        \* Bound: the clock.

ASSUME GoroutinesAssumption == "nobody" \notin Goroutines
ASSUME HeldAssumption == Held \subseteq Nat \ {0}
ASSUME SkewsAssumption == Skews \subseteq Int
ASSUME MarginsAssumption ==
  /\ {ReuseMargin, OwnMargin, TokenLife} \subseteq Nat
  /\ 0 < ReuseMargin /\ ReuseMargin < OwnMargin /\ OwnMargin < TokenLife
ASSUME JwtAssumption ==
  /\ {Backdating, JwtLife} \subseteq Nat
  /\ 0 < Backdating /\ Backdating < JwtLife

VARIABLES
  now,       \* The process's clock.
  skew,
  user,      \* Whether somebody is signed in.
  held,      \* The installations in the user's namespace.
  client,    \* GetClient's answer: not asked yet, nil, an error, or for whom.
  reused,    \* The token oauth2's ReuseTokenSource keeps.
  token,     \* userTokenSource.token.
  holder,    \* Who holds the mutex of the ReuseTokenSource, and within it that
             \* of the userTokenSource.
  at,        \* Per goroutine: where it is.
  jwt,       \* Per goroutine: the claims it has sent to GitHub.
  sent,      \* Per goroutine: the token its latest call is made with.
  created    \* History: the latest two tokens GitHub created: when, and whether
             \* they were received.

tokenVars == <<now, skew, user, held, client, reused, token, holder, at, jwt,
               sent, created>>

\* Answers of GetClient other than an installation.
NotAsked == -1
Nil == 0
ListFailed == -2
NoToken == [expiry |-> -1]
NoJwt == [iat |-> 0, exp |-> 0]
Nobody == "nobody"
NoCreation == [when |-> -1, received |-> FALSE]
NothingSent == [expiry |-> -1, when |-> -1, fresh |-> TRUE]

GithubNow == now + skew

TokensInit ==
  /\ now = 0
  /\ skew \in Skews
  /\ user \in BOOLEAN
  /\ held \in SUBSET Held
  /\ client = NotAsked
  /\ reused = NoToken /\ token = NoToken
  /\ holder = Nobody
  /\ at = [g \in Goroutines |-> "idle"]
  /\ jwt = [g \in Goroutines |-> NoJwt]
  /\ sent = [g \in Goroutines |-> NothingSent]
  /\ created = [before |-> NoCreation, latest |-> NoCreation]

-----------------------------------------------------------------------------
\* GetClient: nil for nobody, and for a user in whose namespace there are no
\* installations; otherwise a client for the first of them, in the order of
\* their objects' names, which is left open.  (A request that the component's
\* filter has not seen gets nil too, like nobody's.)
ClientsFor(told) ==
  CASE ~user      -> {Nil}
    [] told # Ok  -> {ListFailed}
    [] held = {}  -> {Nil}
    [] OTHER      -> held

GetClient ==
  /\ client = NotAsked
  /\ \E status \in {200, 404, 500, 0} : client' \in ClientsFor(ToldByList(status))
  /\ UNCHANGED <<now, skew, user, held, reused, token, holder, at, jwt, sent,
                 created>>

\* A goroutine makes a call to GitHub; the client's transport wants a token.
Call(g) ==
  /\ client \in Held
  /\ at[g] = "idle"
  /\ at' = [at EXCEPT ![g] = "waiting"]
  /\ sent' = [sent EXCEPT ![g] = NothingSent]
  /\ UNCHANGED <<now, skew, user, held, client, reused, token, holder, jwt,
                 created>>

\* oauth2: Token.Valid.
Reusable(t) == t # NoToken /\ now <= t.expiry - ReuseMargin

\* userTokenSource: "less than one minute remaining".
Keeps(t) == t # NoToken /\ t.expiry >= now + OwnMargin

HandOut(g, t, fresh) ==
  /\ jwt' = [jwt EXCEPT ![g] = NoJwt]
  /\ sent' = [sent EXCEPT ![g] =
                [expiry |-> t.expiry, when |-> now, fresh |-> fresh]]
  /\ at' = [at EXCEPT ![g] = "idle"]

\* The mutex.  Mutant: there is none.
AlwaysAvailable == TRUE
Available == holder = Nobody

\* ReuseTokenSource.Token: its own token while that is valid.
ReuseToken(g) ==
  /\ at[g] = "waiting"
  /\ Available
  /\ Reusable(reused)
  /\ HandOut(g, reused, FALSE)
  /\ UNCHANGED <<now, skew, user, held, client, reused, token, holder,
                 created>>

\* buildJWT.  Mutant: the dating back is added to the life.
ClaimsFromNow ==
  [iat |-> now - Backdating, exp |-> now + Backdating + JwtLife]
Claims == [iat |-> now - Backdating, exp |-> now + JwtLife]

\* ... or else that of userTokenSource, which has its own if there is enough
\* left of it, or else asks GitHub.  appClient makes a new appTokenSource every
\* time, so the JWT is always built anew, when the request is sent.
OwnToken(g) ==
  /\ at[g] = "waiting"
  /\ Available
  /\ ~Reusable(reused)
  /\ IF Keeps(token)
     THEN /\ reused' = token
          /\ HandOut(g, token, FALSE)
          /\ UNCHANGED holder
     ELSE /\ holder' = g
          /\ jwt' = [jwt EXCEPT ![g] = Claims]
          /\ at' = [at EXCEPT ![g] = "asking"]
          /\ UNCHANGED <<reused, sent>>
  /\ UNCHANGED <<now, skew, user, held, client, token, created>>

\* GitHub refuses a JWT issued in its future, expired, or with an expiry
\* further off than it allows.
Acceptable(claims) ==
  /\ claims.iat <= GithubNow
  /\ GithubNow < claims.exp
  /\ claims.exp <= GithubNow + JwtLife

\* GitHub creates a token.
Creates(received) ==
  created' = [before |-> created.latest,
              latest |-> [when |-> now, received |-> received]]

\* CreateInstallationToken succeeds: both caches take the token.
TokenCreated(g) ==
  LET t == [expiry |-> GithubNow + TokenLife] IN
  /\ at[g] = "asking"
  /\ Acceptable(jwt[g])
  /\ token' = t
  /\ reused' = t
  /\ HandOut(g, t, TRUE)
  /\ holder' = Nobody
  /\ Creates(TRUE)
  /\ UNCHANGED <<now, skew, user, held, client>>

\* It fails, and neither cache is touched: the JWT is refused ...
TokenRefused(g) ==
  /\ at[g] = "asking"
  /\ ~Acceptable(jwt[g])
  /\ at' = [at EXCEPT ![g] = "refused"]
  /\ holder' = Nobody
  /\ UNCHANGED <<now, skew, user, held, client, reused, token, jwt, sent,
                 created>>

\* ... or something else goes wrong, before GitHub creates a token or after:
\* then there is a token that nobody has.
TokenFails(g) ==
  /\ at[g] = "asking"
  /\ \/ UNCHANGED created
     \/ Acceptable(jwt[g]) /\ Creates(FALSE)
  /\ jwt' = [jwt EXCEPT ![g] = NoJwt]
  /\ at' = [at EXCEPT ![g] = "idle"]
  /\ holder' = Nobody
  /\ UNCHANGED <<now, skew, user, held, client, reused, token, sent>>

\* The caller gets the error, and may try again.
GiveUp(g) ==
  /\ at[g] = "refused"
  /\ jwt' = [jwt EXCEPT ![g] = NoJwt]
  /\ at' = [at EXCEPT ![g] = "idle"]
  /\ UNCHANGED <<now, skew, user, held, client, reused, token, holder, sent,
                 created>>

\* Time passes; GitHub answers a request for a token before another JwtLife
\* has passed.
Tick ==
  /\ now < MaxNow
  /\ \A g \in Goroutines : at[g] = "asking" => now + 1 < jwt[g].exp
  /\ now' = now + 1
  /\ UNCHANGED <<skew, user, held, client, reused, token, holder, at, jwt,
                 sent, created>>

TokensNext ==
  \/ GetClient
  \/ \E g \in Goroutines :
       \/ Call(g) \/ ReuseToken(g) \/ OwnToken(g)
       \/ TokenCreated(g) \/ TokenRefused(g) \/ TokenFails(g) \/ GiveUp(g)
  \/ Tick

TokensSpec == TokensInit /\ [][TokensNext]_tokenVars

-----------------------------------------------------------------------------
\* However many goroutines call at once, GitHub creates a token only once the
\* one before is within ReuseMargin of its end, or if that one was never
\* received: then the next call has another created at once.  The cache that
\* decides is oauth2's; the one minute userTokenSource asks for comes too late
\* to matter.
CreationsSpaced ==
  created.before.received =>
    created.latest.when - created.before.when > TokenLife + skew - ReuseMargin

\* A token that did not come fresh from GitHub is one GitHub still takes when
\* the call is made, unless its clock is ahead by as much as the margin.
TokensAccepted ==
  \A g \in Goroutines :
    ~sent[g].fresh /\ skew < ReuseMargin => sent[g].when + skew < sent[g].expiry

\* GitHub refuses the app's JWT only if the clocks differ: if the process's
\* clock is ahead at all -- the expiry is already the furthest allowed, so that
\* dating the JWT back a minute buys nothing -- or if GitHub's is so far ahead
\* that with the time under way the JWT is over.
RefusedOnlyIfSkewed ==
  \A g \in Goroutines :
    at[g] = "refused" => skew < 0 \/ now + skew >= jwt[g].iat + Backdating + JwtLife

-----------------------------------------------------------------------------
(* Why the three hold: what is proved in GithubProofs.                         *)

Token == [expiry : Int]
Creation == [when : Int, received : BOOLEAN]

TokenTypes ==
  /\ now \in Nat
  /\ skew \in Int
  /\ token \in Token
  /\ at \in [Goroutines -> {"idle", "waiting", "asking", "refused"}]
  /\ jwt \in [Goroutines -> [iat : Int, exp : Int]]
  /\ sent \in [Goroutines -> [expiry : Int, when : Int, fresh : BOOLEAN]]
  /\ created \in [before : Creation, latest : Creation]

\* The two caches have one token between them, so that userTokenSource's own
\* rule never decides; and it is the token created last, if that was received.
OneToken ==
  /\ reused = token
  /\ created.latest.received =>
       /\ token # NoToken
       /\ token.expiry = created.latest.when + skew + TokenLife

\* Whoever asks for a token holds the mutex, because there is none to reuse.
Asking(g) ==
  at[g] = "asking" => holder = g /\ ~Reusable(token)

\* A JWT that is under way, or was refused, has the claims of an earlier moment.
Claimed(g) ==
  at[g] \in {"asking", "refused"} =>
    /\ jwt[g].iat + Backdating \in 0..now
    /\ jwt[g].exp = jwt[g].iat + Backdating + JwtLife

TokensInv ==
  /\ TokenTypes
  /\ OneToken
  /\ \A g \in Goroutines : Asking(g) /\ Claimed(g)
  /\ CreationsSpaced
  /\ TokensAccepted
  /\ RefusedOnlyIfSkewed
=============================================================================
