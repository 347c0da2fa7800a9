----------------------------- MODULE TokenTrust -----------------------------
(* apps/sso: the replicas of the sign-in service over one keyset.  Each gets   *)
(* the keyset once, when it starts, and holds it while it lives.  It signs     *)
(* tokens with the active key, publishes all versions at .oidc/jwks, and       *)
(* believes a token that the published keys of some replica verify: discovery  *)
(* and keys are fetched from the issuer's address, behind which any replica    *)
(* may answer, the one that asks included.  The keystore is the registry it    *)
(* implements (KeyStore, KeyRegistry); keys are rotated and deleted by others. *)
EXTENDS KeySets

CONSTANTS
  Replicas,
  Requests,     \* Requests that can be under way at once.
  Keyset,       \* "oidc-keys".
  MaxKeys,      \* Bound: keys generated.
  MaxTokens,    \* Bound: tokens signed.
  MaxStarts     \* Bound: starts of replicas.

ASSUME KeysetAssumption == Keyset \in Names
ASSUME MaxKeysAssumption == MaxKeys \in Nat

VARIABLES
  reg,       \* The secret.
  held,      \* Per replica: the keyset it holds, or none while it is down.
  verifier,  \* Per replica: whether lazyVerifier is set.
  mutex,     \* Per replica: the request that holds the authenticator's mutex.
  cached,    \* Per replica: the keys its verifier has fetched.
  request,   \* Per request: replica, token and where it is.
  verdict,   \* What the step just taken answered, if it answered a request.
  tokens,    \* The tokens signed so far.
  starts,
  generated, \* The latest key generated; keys are numbered as they are made.
  met        \* History, per replica: the incarnations of the secret whose keys
             \* it, or a replica it shared the address with, has held.

vars == <<reg, held, verifier, mutex, cached, request, verdict, tokens, starts,
          generated, met>>

Registry == INSTANCE KeyRegistry WITH Materials <- 1..MaxKeys

Down == [uid |-> 0]
NoRequest == "none"
NoToken == [kid |-> 0]
NoVerdict == [who |-> "nobody asked"]
Idle == [pc |-> "idle"]
NoKeys == [uid |-> 0, generated |-> 0]

Up == {r \in Replicas : held[r] # Down}

Init ==
  /\ Registry!Init
  /\ held = [r \in Replicas |-> Down]
  /\ verifier = [r \in Replicas |-> FALSE]
  /\ mutex = [r \in Replicas |-> NoRequest]
  /\ cached = [r \in Replicas |-> {}]
  /\ request = [q \in Requests |-> Idle]
  /\ tokens = {}
  /\ verdict = NoVerdict
  /\ starts = 0
  /\ generated = 0
  /\ met = [r \in Replicas |-> {}]

serving == <<verifier, mutex, cached, request, tokens>>
secret == <<reg, generated>>

-----------------------------------------------------------------------------
(* The secret.                                                                 *)

\* A step of the registry that may use the next generated key, and may not.
CanGenerate == generated < MaxKeys
Ensure(type) ==
  /\ CanGenerate \/ HasActive(Decode(reg.sets[Keyset]))
  /\ Registry!Ensure(Keyset, type, generated + 1)
  /\ generated' = IF HasActive(Decode(reg.sets[Keyset])) THEN generated
                                                        ELSE generated + 1

\* main: KeySet(ctx, "oidc-keys", RSA).  An active key of another type is as
\* good to it, and the error to sign with it comes later.
StartReplica(r) ==
  /\ held[r] = Down
  /\ starts < MaxStarts
  /\ starts' = starts + 1
  /\ Ensure("RSA")
  /\ held' = [held EXCEPT ![r] =
       [uid |-> reg'.uid, generated |-> generated', set |-> Decode(reg'.sets[Keyset])]]
  /\ met' = [s \in Replicas |->
       IF s = r THEN {held'[q].uid : q \in Up \cup {r}} ELSE met[s] \cup {reg'.uid}]
  /\ verdict' = NoVerdict
  /\ UNCHANGED serving

\* Whatever the process holds goes with it, the requests it serves included.
StopReplica(r) ==
  /\ r \in Up
  /\ held' = [held EXCEPT ![r] = Down]
  /\ verifier' = [verifier EXCEPT ![r] = FALSE]
  /\ mutex' = [mutex EXCEPT ![r] = NoRequest]
  /\ cached' = [cached EXCEPT ![r] = {}]
  /\ request' = [q \in Requests |->
       IF request[q] # Idle /\ request[q].at = r THEN Idle ELSE request[q]]
  /\ verdict' = NoVerdict
  /\ UNCHANGED <<secret, tokens, starts, met>>

\* Others: the active key is retired, which makes the next start generate one,
\* a key of another type is made under the same name, and the secret deleted.
Retire ==
  /\ HasActive(reg.sets[Keyset])
  /\ Registry!Retire(Keyset)
  /\ UNCHANGED generated
  /\ verdict' = NoVerdict
  /\ UNCHANGED <<held, starts, met, serving>>

MakeOther ==
  /\ ~HasActive(reg.sets[Keyset])
  /\ Ensure("SECRETBOX")
  /\ verdict' = NoVerdict
  /\ UNCHANGED <<held, starts, met, serving>>

Delete ==
  /\ Registry!Delete
  /\ UNCHANGED generated
  /\ verdict' = NoVerdict
  /\ UNCHANGED <<held, starts, met, serving>>

-----------------------------------------------------------------------------
(* Signing and publishing.                                                     *)

\* buildJWTToken: the active key must be an RSA key, and its id becomes the
\* token's kid.  The rest of the header and the claims are the same for all.
Sign(r) ==
  /\ r \in Up
  /\ Cardinality(tokens) < MaxTokens
  /\ HasActive(held[r].set)
  /\ LET key == ActiveKeyOf(held[r].set) IN
       /\ key.type = "RSA"
       /\ tokens' = tokens \cup
            {[kid |-> key.id, mat |-> key.mat, uid |-> held[r].uid]}
  /\ verdict' = NoVerdict
  /\ UNCHANGED <<secret, held, verifier, mutex, cached, request, starts, met>>

\* ServeJWKS: the public keys of all versions under their ids.  One key that
\* has no public key fails the whole document.
\* Mutant: only the active key is published.
ActiveJWKS(r) == {[kid |-> k.id, mat |-> k.mat] :
                    k \in {x \in held[r].set.keys : x.id = held[r].set.active}}
JWKS(r) == {[kid |-> k.id, mat |-> k.mat] : k \in held[r].set.keys}
ServesJWKS(r) == \A k \in held[r].set.keys : k.type = "RSA"

\* Who answers a request to the issuer that comes without a token: such a
\* request passes the filters without the authenticator, and so without its
\* mutex.  Mutant: every request asks for the verifier.
WhoeverHasAVerifier == {r \in Up : mutex[r] = NoRequest}
Answering == Up

-----------------------------------------------------------------------------
(* A request.                                                                  *)

Goto(q, pc) == request' = [request EXCEPT ![q].pc = pc]

\* What the browser gets.  ServeUserInfo answers with the user, or with 401 or
\* 500; the filter in front of every page lets the request pass as nobody's, and
\* has no answer but an error if the user cannot be loaded.  Which of the two it
\* was makes no difference before.
Answers(who) ==
  CASE who = "user"   -> {"userinfo", "page"}
    [] who = "nobody" -> {"unauthorized", "anonymous page"}
    [] who = "error"  -> {"internal error"}

\* The request is over, and what was answered: to whom, for which token, and by
\* which keys it was turned down.
Verdict(who, token, keys) ==
  \E answer \in Answers(who) :
    verdict' = [who |-> who, answer |-> answer, token |-> token, keys |-> keys]

Ends(q, who, keys) ==
  /\ request' = [request EXCEPT ![q] = Idle]
  /\ Verdict(who, request[q].token, keys)

\* A request without a token does not ask the authenticator at either place.
ArriveAnonymous(q) ==
  /\ request[q] = Idle
  /\ Up # {}
  /\ Verdict("nobody", NoToken, NoKeys)
  /\ UNCHANGED <<secret, held, verifier, mutex, cached, request, tokens, starts,
                 met>>

\* A token in the cookie, or in the header of a request for .oidc/userinfo.
Arrive(q) ==
  /\ request[q] = Idle
  /\ \E r \in Up, t \in tokens :
       request' = [request EXCEPT ![q] =
         [pc |-> "lock", at |-> r, token |-> t]]
  /\ verdict' = NoVerdict
  /\ UNCHANGED <<secret, held, verifier, mutex, cached, tokens, starts, met>>

At(q, pc) == request[q] # Idle /\ request[q].pc = pc

\* verifier: the mutex is kept while the provider's document is fetched.
GetVerifier(q) ==
  LET r == request[q].at IN
  /\ At(q, "lock")
  /\ mutex[r] = NoRequest
  /\ IF verifier[r]
     THEN Goto(q, "verify") /\ UNCHANGED mutex
     ELSE Goto(q, "discover") /\ mutex' = [mutex EXCEPT ![r] = q]
  /\ verdict' = NoVerdict
  /\ UNCHANGED <<secret, held, verifier, cached, tokens, starts, met>>

\* oidc.NewProvider reads .well-known/openid-configuration; the document is the
\* same whoever answers.
Discover(q) ==
  LET r == request[q].at IN
  /\ At(q, "discover")
  /\ Answering # {}
  /\ verifier' = [verifier EXCEPT ![r] = TRUE]
  /\ mutex' = [mutex EXCEPT ![r] = NoRequest]
  /\ Goto(q, "verify")
  /\ verdict' = NoVerdict
  /\ UNCHANGED <<secret, held, cached, tokens, starts, met>>

\* An error leaves lazyVerifier unset, and the request is nobody's.
DiscoverFails(q) ==
  LET r == request[q].at IN
  /\ At(q, "discover")
  /\ mutex' = [mutex EXCEPT ![r] = NoRequest]
  /\ Ends(q, "nobody", NoKeys)
  /\ UNCHANGED <<secret, held, verifier, cached, tokens, starts, met>>

\* A signature: the key with the token's id made it.  Mutant: the id is enough.
VerifiesById(keys, t) == \E k \in keys : k.kid = t.kid
Verifies(keys, t) == \E k \in keys : k.kid = t.kid /\ k.mat = t.mat

\* Verify: the keys fetched before, and if they will not do, those of today.
VerifyCached(q) ==
  /\ At(q, "verify")
  /\ Goto(q, IF Verifies(cached[request[q].at], request[q].token)
             THEN "loadUser" ELSE "fetch")
  /\ verdict' = NoVerdict
  /\ UNCHANGED <<secret, held, verifier, mutex, cached, tokens, starts, met>>

FetchKeys(q) ==
  LET r == request[q].at IN
  /\ At(q, "fetch")
  /\ \E s \in Answering :
       /\ ServesJWKS(s)
       /\ cached' = [cached EXCEPT ![r] = JWKS(s)]
       /\ IF Verifies(JWKS(s), request[q].token)
          THEN Goto(q, "loadUser") /\ verdict' = NoVerdict
          ELSE Ends(q, "nobody", [uid |-> held[s].uid, generated |-> held[s].generated])
  /\ UNCHANGED <<secret, held, verifier, mutex, tokens, starts, met>>

FetchFails(q) ==
  /\ At(q, "fetch")
  /\ Ends(q, "nobody", NoKeys)
  /\ UNCHANGED <<secret, held, verifier, mutex, cached, tokens, starts, met>>

\* UserFromJWT: the user the token names; not to find it is an error.
LoadUser(q) ==
  /\ At(q, "loadUser")
  /\ \E who \in {"user", "error"} : Ends(q, who, NoKeys)
  /\ UNCHANGED <<secret, held, verifier, mutex, cached, tokens, starts, met>>

\* What the process does by itself, given that calls are answered or fail.
Step(q) ==
  GetVerifier(q) \/ Discover(q) \/ VerifyCached(q) \/ FetchKeys(q) \/ LoadUser(q)

Next ==
  \/ \E r \in Replicas : StartReplica(r) \/ StopReplica(r) \/ Sign(r)
  \/ Retire \/ MakeOther \/ Delete
  \/ \E q \in Requests : \/ ArriveAnonymous(q) \/ Arrive(q) \/ Step(q)
                         \/ DiscoverFails(q) \/ FetchFails(q)

Spec == Init /\ [][Next]_vars

\* Requests are goroutines, and Go hands a mutex to whoever waits for it.
FairSpec == Spec /\ \A q \in Requests :
                      SF_vars(GetVerifier(q)) /\ WF_vars(Step(q) \/ FetchFails(q))

-----------------------------------------------------------------------------

\* A token a replica has signed is turned down only if the keys could not be
\* fetched, or if they came from a replica that got its keyset before the
\* token's key was made or from another incarnation of the secret: rotations
\* alone, in whatever order replicas are restarted, never sign a user out for
\* longer than it takes to restart them.
RefusedForCause ==
  verdict.who = "nobody" /\ verdict.token # NoToken /\ verdict.keys # NoKeys =>
    \/ verdict.keys.uid # verdict.token.uid
    \/ verdict.keys.generated < verdict.token.mat

\* Deleting the secret revokes its tokens: a replica that started afterwards,
\* and has met no replica with the old keys since, believes none of them, though
\* ids are counted from 1 again in the new secret.
Revoked ==
  \A q \in Requests :
    At(q, "loadUser") => request[q].token.uid \in met[request[q].at]

\* Every request is answered, even the one that makes a replica fetch the
\* discovery document from itself with the mutex held.
EveryRequestAnswered ==
  \A q \in Requests : request[q] # Idle ~> request[q] = Idle

-----------------------------------------------------------------------------
(* Why the two invariants hold: what is proved in TokenTrustProofs.            *)

\* The keys a secret holds under the keyset's name, as a replica reads them,
\* and keys with the incarnation of the secret they belong to.
Stored == Decode(reg.sets[Keyset]).keys
KeysOf(keys, uid) == {[kid |-> k.id, mat |-> k.mat, uid |-> uid] : k \in keys}
HeldKeys(r) == KeysOf(held[r].set.keys, held[r].uid)
StoredKeys == KeysOf(Stored, reg.uid)

\* Every key that a token, a replica or the secret still tells of.
AllHeldKeys == UNION {HeldKeys(r) : r \in Up}
Made == tokens \cup AllHeldKeys \cup StoredKeys

\* A request that is under way.
Asked == [pc : {"lock", "discover", "verify", "fetch", "loadUser"},
          at : Up, token : tokens]

Types ==
  /\ reg = [present |-> reg.present, uid |-> reg.uid, sets |-> reg.sets]
  /\ reg.present \in BOOLEAN /\ reg.uid \in Nat /\ DOMAIN reg.sets = Names
  /\ reg.sets[Keyset] = [active |-> reg.sets[Keyset].active,
                         keys   |-> reg.sets[Keyset].keys]
  /\ reg.present => reg.uid > 0
  /\ ~reg.present => Stored = {}
  /\ generated \in Nat
  /\ DOMAIN held = Replicas /\ DOMAIN cached = Replicas /\ DOMAIN met = Replicas
  /\ request \in [Requests -> {Idle} \cup Asked]

Holding(r) ==
  IF r \in Up THEN held[r].uid \in 1..reg.uid /\ held[r].generated \in 0..generated
              ELSE cached[r] = {}

\* Keys are numbered as they are made, in one incarnation each.
Numbered ==
  /\ \A x \in Made : x.mat \in 1..generated /\ x.uid \in 1..reg.uid
  /\ \A x, y \in Made : x.mat = y.mat => x.uid = y.uid

\* The secret loses no key while it exists, and a replica holds every key that
\* was made before it got its keyset.
Complete ==
  /\ reg.present => \A x \in Made : x.uid = reg.uid => x \in StoredKeys
  /\ \A r \in Up : \A x \in Made :
       x.uid = held[r].uid /\ x.mat <= held[r].generated => x \in HeldKeys(r)

\* What a replica has cached comes from replicas it has met.
Met ==
  /\ \A r, s \in Up : held[s].uid \in met[r]
  /\ \A r \in Replicas : \A k \in cached[r] :
       /\ k.mat \in 1..generated
       /\ \A x \in Made : x.mat = k.mat => x.uid \in met[r]

IInv ==
  /\ Types
  /\ \A r \in Replicas : Holding(r)
  /\ Numbered
  /\ Complete
  /\ Met
  /\ RefusedForCause
  /\ Revoked
=============================================================================
