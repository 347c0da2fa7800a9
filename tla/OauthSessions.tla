---------------------------- MODULE OauthSessions ----------------------------
(* components/oauthsessions: the tokens a provider gave a user, kept as        *)
(* objects of the user's namespace, which all users share by default.  Every   *)
(* token is stored as a new object; the best one is looked for each time; a    *)
(* refreshed one is written back to its object.  Nothing in the repository     *)
(* calls this yet: the callers here do what its interface allows.              *)
EXTENDS Integers, FiniteSets

CONSTANTS
  Callers,
  Users,        \* Users of one namespace.
  Names,        \* Session ids: random, so a list is in no order of theirs.
  Lifetimes,    \* For how long providers give tokens.
  NeverExpires, \* A token without expiry: time.Time's zero, the year 1.
  MaxTime,      \* Bound: the clock.
  MaxIssued     \* Bound: tokens given by the provider.

ASSUME NeverAssumption == NeverExpires \in Int /\ NeverExpires < 0
ASSUME LifetimesAssumption == Lifetimes \subseteq Nat \ {0}

VARIABLES
  time,
  issued,    \* Tokens given so far; a token is its number.
  sessions,  \* The session objects, by name.
  doing,     \* Per caller: where it is.
  userOf,    \* Per caller: its request's user.
  fresh,     \* Per caller: the token it is about to store.
  best       \* Per caller: GetOauthSession's answer, a copy of the object.

oauthVars == <<time, issued, sessions, doing, userOf, fresh, best>>

\* What a caller has when it is not in the middle of something.
NoUser == "none"
NoSession == [name |-> 0]
NoNewToken == [token |-> 0, expires |-> 0]

OauthInit ==
  /\ time = 1
  /\ issued = 0
  /\ sessions = [n \in {} |-> NoSession]
  /\ doing = [c \in Callers |-> "idle"]
  /\ userOf = [c \in Callers |-> NoUser]
  /\ fresh = [c \in Callers |-> NoNewToken]
  /\ best = [c \in Callers |-> NoSession]

\* The provider gives a token, with or without an end.
Issue(c) ==
  /\ issued < MaxIssued
  /\ issued' = issued + 1
  /\ \E expires \in {NeverExpires} \cup {time + l : l \in Lifetimes} :
       fresh' = [fresh EXCEPT ![c] = [token |-> issued + 1, expires |-> expires]]

LoggedIn(c) ==
  /\ doing[c] = "idle"
  /\ Issue(c)
  /\ \E u \in Users : userOf' = [userOf EXCEPT ![c] = u]
  /\ doing' = [doing EXCEPT ![c] = "storing"]
  /\ UNCHANGED <<time, sessions, best>>

\* The caller's request is over.
End(c) ==
  /\ doing' = [doing EXCEPT ![c] = "idle"]
  /\ userOf' = [userOf EXCEPT ![c] = NoUser]
  /\ fresh' = [fresh EXCEPT ![c] = NoNewToken]
  /\ best' = [best EXCEPT ![c] = NoSession]

\* StoreSession: a new object under a random id.
Session(c, n, version) ==
  [name |-> n, user |-> userOf[c], token |-> fresh[c].token,
   expires |-> fresh[c].expires, version |-> version]

Put(n, session) ==
  sessions' = [m \in DOMAIN sessions \cup {n} |->
                 IF m = n THEN session ELSE sessions[m]]

StoreSession(c) ==
  /\ doing[c] = "storing"
  /\ \E n \in Names \ DOMAIN sessions : Put(n, Session(c, n, 1))
  /\ End(c)
  /\ UNCHANGED <<time, issued>>

\* The reply is lost; whoever tries again stores the token a second time, under
\* another id.
StoreReplyLost(c) ==
  /\ doing[c] = "storing"
  /\ \E n \in Names \ DOMAIN sessions : Put(n, Session(c, n, 1))
  /\ UNCHANGED <<time, issued, doing, userOf, fresh, best>>

StoreFails(c) ==
  /\ doing[c] = "storing"
  /\ End(c)
  /\ UNCHANGED <<time, issued, sessions>>

\* LoadOauthSessions: the objects of the namespace that name the user.
Loaded(u) == {sessions[n] : n \in {m \in DOMAIN sessions : sessions[m].user = u}}

\* GetOauthSession: the one with the largest ExpiresAt, the first of those in
\* the list.  Mutant: the first of them all.
FirstOf(S) == S
Best(S) == {s \in S : \A t \in S : t.expires <= s.expires}

GetOauthSession(c) ==
  /\ doing[c] = "idle"
  /\ \E u \in Users :
       /\ userOf' = [userOf EXCEPT ![c] = u]
       /\ \E s \in Best(Loaded(u)) : best' = [best EXCEPT ![c] = s]
  /\ doing' = [doing EXCEPT ![c] = "using"]
  /\ UNCHANGED <<time, issued, sessions, fresh>>

\* The caller lets the provider refresh the session it got ...
Renew(c) ==
  /\ doing[c] = "using"
  /\ Issue(c)
  /\ doing' = [doing EXCEPT ![c] = "refreshing"]
  /\ UNCHANGED <<time, sessions, userOf, best>>

\* ... and RefreshSession writes it back: the object carries the version it was
\* read at, and the API server refuses an update of any other.  Mutant: the
\* object is sent without a version.
Refreshed(c) == Session(c, best[c].name, best[c].version + 1)
CurrentUnversioned(c) == TRUE
Current(c) == sessions[best[c].name].version = best[c].version

RefreshSession(c) ==
  /\ doing[c] = "refreshing"
  /\ IF Current(c) THEN Put(best[c].name, Refreshed(c)) ELSE UNCHANGED sessions
  /\ End(c)
  /\ UNCHANGED <<time, issued>>

Finish(c) ==
  /\ doing[c] = "using"
  /\ End(c)
  /\ UNCHANGED <<time, issued, sessions>>

TimePasses ==
  /\ time < MaxTime
  /\ time' = time + 1
  /\ UNCHANGED <<issued, sessions, doing, userOf, fresh, best>>

OauthNext ==
  \/ \E c \in Callers :
       \/ LoggedIn(c) \/ StoreSession(c) \/ StoreReplyLost(c) \/ StoreFails(c)
       \/ GetOauthSession(c) \/ Renew(c) \/ RefreshSession(c) \/ Finish(c)
  \/ TimePasses

OauthSpec == OauthInit /\ [][OauthNext]_oauthVars

-----------------------------------------------------------------------------
HasEnd(s) == s.expires # NeverExpires
Expired(s) == HasEnd(s) /\ s.expires <= time

\* An expired session is handed out only to a user all of whose sessions have
\* expired or never expire.  The second is no slip of the wording: a token
\* without end is kept with an expiry before all others, so that it is handed
\* out only to a user who has nothing else -- an expired session is preferred
\* to it -- and that is stated too.
LiveSessionPreferred ==
  [][\A c \in Callers :
       doing[c] = "idle" /\ doing'[c] = "using" =>
         /\ best'[c].user = userOf'[c]
         /\ Expired(best'[c]) =>
              \A s \in Loaded(userOf'[c]) : Expired(s) \/ ~HasEnd(s)
         /\ ~HasEnd(best'[c]) =>
              \A s \in Loaded(userOf'[c]) : ~HasEnd(s)]_oauthVars

\* Two callers that refresh one session do not undo each other: an object never
\* goes back to a token older than the one it has.
RefreshNeverFallsBack ==
  [][\A n \in DOMAIN sessions :
       n \in DOMAIN sessions' /\ sessions'[n].token >= sessions[n].token]_oauthVars

-----------------------------------------------------------------------------
(* Why the two hold: what is proved in GithubProofs.                           *)

\* Sessions as they are stored, and as callers hold them.
Expiries == {NeverExpires} \cup Nat

StoredSession ==
  [name : Names, user : Users, token : 0..issued, expires : Expiries, version : Nat]

OauthTypes ==
  /\ time \in Nat /\ issued \in Nat
  /\ DOMAIN sessions \subseteq Names
  /\ \A n \in DOMAIN sessions : sessions[n] \in StoredSession /\ sessions[n].name = n
  /\ doing \in [Callers -> {"idle", "storing", "using", "refreshing"}]
  /\ userOf \in [Callers -> Users \cup {NoUser}]
  /\ fresh \in [Callers -> [token : 0..issued, expires : Expiries]]
  /\ DOMAIN best = Callers

\* The copy a caller works on is of a stored object, at its version or before;
\* at the same version it has the same token, and what refreshes it is newer.
Carried(c) ==
  /\ doing[c] # "idle" => userOf[c] \in Users
  /\ doing[c] \in {"using", "refreshing"} =>
       /\ best[c] \in StoredSession
       /\ best[c].name \in DOMAIN sessions
       /\ LET stored == sessions[best[c].name] IN
            /\ best[c].version <= stored.version
            /\ best[c].version = stored.version => best[c].token = stored.token
  /\ doing[c] = "refreshing" => best[c].token < fresh[c].token

OauthInv == OauthTypes /\ \A c \in Callers : Carried(c)
=============================================================================
