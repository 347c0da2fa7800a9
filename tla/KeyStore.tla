------------------------------- MODULE KeyStore -------------------------------
(* components/keystore/kubernetes.go: several server processes that keep      *)
(* their keysets in one Kubernetes secret.  KeySet creates a missing key with *)
(* a read, a private edit and a write the API server accepts only if the      *)
(* secret has not changed; every server also caches the secret, from its own  *)
(* writes and from a watch.                                                   *)
(*                                                                            *)
(* The API server is external.  "log" is the history of the secret, one       *)
(* element per resource version, which is also what a watch replays.          *)
EXTENDS KeySets, Sequences

CONSTANTS
  Servers,        \* Server processes.
  Callers,        \* Goroutines that call KeySet.
  Home,           \* The server each caller runs in.
  Watchers,       \* The servers that run WatchForever.
  NoName,         \* Not a name of a keyset.
  AskedTypes,     \* The key types callers ask for.
  MaxVersions,    \* Bound: resource versions of the secret.
  MaxKeys,        \* Bound: keys generated.
  MaxRestarts     \* Bound: crashes of a server.

ASSUME HomeAssumption == Home \in [Callers -> Servers]
ASSUME WatchersAssumption == Watchers \subseteq Servers
ASSUME NoNameAssumption == NoName \notin Names
ASSUME AskedTypesAssumption == AskedTypes \subseteq KeyTypes
ASSUME BoundsAssumption ==
  MaxVersions \in Nat /\ MaxKeys \in Nat \ {0} /\ MaxRestarts \in Nat

VARIABLES
  log,        \* Seq(Secret): the secret at each resource version.
  nextMat,    \* The next unused key material.
  cache,      \* Per server: resourceVersion and keySets.
  watch,      \* Per server: where WatchForever is, and its stream position.
  pc,         \* Per caller: where KeySet is, "idle" outside of it.
  call,       \* Per caller: the arguments of KeySet.
  txn,        \* Per caller: the secret mutateSecret is about to write.
  wrote,      \* Per caller: the resource version its write produced.
  held,       \* Per caller: the KeySet it was last given, under which name.
  restarts

apiVars    == <<log, nextMat>>
callerVars == <<pc, call, txn, wrote, held>>
vars       == <<apiVars, cache, watch, callerVars, restarts>>

Locations == {"idle", "get", "write", "apply", "reread", "missing"}

NoCall == [name |-> NoName, type |-> "RSA"]
NoTxn  == [base |-> 0, sets |-> EmptySets]
NoHeld == [name |-> NoName, rv |-> 0, ks |-> EmptyKeySet]

NewCache == [rv |-> 0, sets |-> EmptySets]
NewWatch(s) == [pc |-> IF s \in Watchers THEN "list" ELSE "off", pos |-> 0]

RV     == Len(log)
Latest == log[RV]

Init ==
  /\ log = <<[present |-> FALSE, uid |-> 0, sets |-> EmptySets]>>
  /\ nextMat = 1
  /\ cache = [s \in Servers |-> NewCache]
  /\ watch = [s \in Servers |-> NewWatch(s)]
  /\ pc = [c \in Callers |-> "idle"]
  /\ call = [c \in Callers |-> NoCall]
  /\ txn = [c \in Callers |-> NoTxn]
  /\ wrote = [c \in Callers |-> 0]
  /\ held = [c \in Callers |-> NoHeld]
  /\ restarts = 0

-----------------------------------------------------------------------------
(* The cache of a server, under its mutex.                                    *)

\* Mutant of Observe: versions are applied in the order they come.
ObserveAnyOrder(s, rv) ==
  cache' = [cache EXCEPT ![s] = [rv |-> rv, sets |-> DecodeSecret(log[rv].sets)]]

\* Replace the cache by resource version rv, unless it is not a newer one.
Observe(s, rv) ==
  cache' = IF rv <= cache[s].rv THEN cache
           ELSE [cache EXCEPT ![s] = [rv   |-> rv,
                                      sets |-> DecodeSecret(log[rv].sets)]]

OnUpdateSecret(s, rv) == log[rv].present /\ Observe(s, rv)

\* A deletion has a resource version of its own and leaves no keysets.
OnDeleteSecret(s, rv) == ~log[rv].present /\ Observe(s, rv)

-----------------------------------------------------------------------------
(* KeySet, one action per step another process can come between.             *)

\* The cached keyset of a caller's server, read without the mutex.
Cached(c, n) == cache[Home[c]].sets[n]

Goto(c, l) == pc' = [pc EXCEPT ![c] = l]

\* KeySet returns, with an error or after Hold; its locals are gone.
Return(c) ==
  /\ Goto(c, "idle")
  /\ call' = [call EXCEPT ![c] = NoCall]
  /\ txn' = [txn EXCEPT ![c] = NoTxn]
  /\ wrote' = [wrote EXCEPT ![c] = 0]

Hold(c, n) ==
  held' = [held EXCEPT ![c] = [name |-> n, rv |-> cache[Home[c]].rv, ks |-> Cached(c, n)]]

Idle(c) == pc[c] \in {"idle", "missing"}

\* KeySet finds an active key in the cache and returns the cached object.
KeySetHit(c) ==
  /\ Idle(c)
  /\ \E n \in Names : HasActive(Cached(c, n)) /\ Hold(c, n)
  /\ Return(c)
  /\ UNCHANGED <<apiVars, cache, watch, restarts>>

\* KeySet finds none, and goes on to ensureKeySet.
KeySetMiss(c) ==
  /\ Idle(c)
  /\ \E n \in Names, type \in AskedTypes :
       /\ ~HasActive(Cached(c, n))
       /\ call' = [call EXCEPT ![c] = [name |-> n, type |-> type]]
  /\ wrote' = [wrote EXCEPT ![c] = 0]
  /\ Goto(c, "get")
  /\ UNCHANGED <<apiVars, cache, watch, txn, held, restarts>>

\* mutateSecret reads the secret and runs the mutator on its copy.
GetAndMutate(c) ==
  LET n       == call[c].name
      minting == ~HasActive(Decode(Latest.sets[n]))
  IN  /\ pc[c] = "get"
      /\ minting => call[c].type \in KnownTypes /\ nextMat <= MaxKeys
      /\ nextMat' = IF minting THEN nextMat + 1 ELSE nextMat
      /\ txn' = [txn EXCEPT ![c] =
                   [base |-> IF Latest.present THEN RV ELSE 0,
                    sets |-> EnsureKeySet(Latest.sets, n, call[c].type, nextMat)]]
      /\ Goto(c, "write")
      /\ UNCHANGED <<log, cache, watch, call, wrote, held, restarts>>

\* The read fails, or the mutator does: "unknown keytype".
GetFails(c) ==
  /\ pc[c] = "get"
  /\ Return(c)
  /\ UNCHANGED <<apiVars, cache, watch, held, restarts>>

\* A transaction read from an absent secret creates it, any other updates the
\* version it read.
Creates(c) == txn[c].base = 0

WriteAccepted(c) ==
  /\ pc[c] = "write"
  /\ IF Creates(c) THEN ~Latest.present ELSE txn[c].base = RV
  /\ RV < MaxVersions

\* An update that changes nothing keeps its resource version.
WriteLog(c) ==
  IF ~Creates(c) /\ txn[c].sets = Latest.sets
  THEN log
  ELSE Append(log, [present |-> TRUE,
                    uid     |-> IF Creates(c) THEN Latest.uid + 1 ELSE Latest.uid,
                    sets    |-> txn[c].sets])

WriteSecret(c) ==
  /\ WriteAccepted(c)
  /\ log' = WriteLog(c)
  /\ wrote' = [wrote EXCEPT ![c] = Len(log')]
  /\ txn' = [txn EXCEPT ![c] = NoTxn]
  /\ Goto(c, "apply")
  /\ UNCHANGED <<nextMat, cache, watch, call, held, restarts>>

\* The write is accepted but its reply is lost: KeySet fails all the same.
WriteReplyLost(c) ==
  /\ WriteAccepted(c)
  /\ log' = WriteLog(c)
  /\ Return(c)
  /\ UNCHANGED <<nextMat, cache, watch, held, restarts>>

\* Mutant of WriteFails: a refused write is tried again on the newest version,
\* without reading the secret again ("retry?").
WriteFailsRetrying(c) ==
  /\ pc[c] = "write"
  /\ txn' = [txn EXCEPT ![c].base = IF Latest.present THEN RV ELSE 0]
  /\ UNCHANGED <<apiVars, cache, watch, pc, call, wrote, held, restarts>>

\* The API server refuses the write, or cannot be reached; no retry.
WriteFails(c) ==
  /\ pc[c] = "write"
  /\ Return(c)
  /\ UNCHANGED <<apiVars, cache, watch, held, restarts>>

\* Mutant of ApplyWrite: the stored secret is left to the watch.
ApplyWriteLater(c) ==
  /\ pc[c] = "apply"
  /\ Goto(c, "reread")
  /\ UNCHANGED <<apiVars, cache, watch, call, txn, wrote, held, restarts>>

\* mutateSecret hands the stored secret to onUpdateSecret.
ApplyWrite(c) ==
  /\ pc[c] = "apply"
  /\ OnUpdateSecret(Home[c], wrote[c])
  /\ Goto(c, "reread")
  /\ UNCHANGED <<apiVars, watch, call, txn, wrote, held, restarts>>

\* KeySet looks into the cache again; what it finds may be newer than what it
\* wrote.
RereadFound(c) ==
  /\ pc[c] = "reread"
  /\ HasActive(Cached(c, call[c].name))
  /\ Hold(c, call[c].name)
  /\ Return(c)
  /\ UNCHANGED <<apiVars, cache, watch, restarts>>

\* "created key was not found"
RereadMissing(c) ==
  /\ pc[c] = "reread"
  /\ ~HasActive(Cached(c, call[c].name))
  /\ Goto(c, "missing")
  /\ UNCHANGED <<apiVars, cache, watch, call, txn, wrote, held, restarts>>

-----------------------------------------------------------------------------
(* WatchForever.                                                              *)

WatchGoto(s, l, pos) == watch' = [watch EXCEPT ![s] = [pc |-> l, pos |-> pos]]

\* watchOnce: the list is answered at the current resource version ...
ListSecret(s) ==
  /\ watch[s].pc = "list"
  /\ WatchGoto(s, "listed", RV)
  /\ UNCHANGED <<apiVars, cache, callerVars, restarts>>

\* Mutant of ApplyList: only the list's resource version is used.
ApplyListSkipping(s) ==
  /\ watch[s].pc = "listed"
  /\ WatchGoto(s, "stream", watch[s].pos)
  /\ UNCHANGED <<apiVars, cache, callerVars, restarts>>

\* ... its item, if there is one, goes to onUpdateSecret (an absent secret
\* changes nothing), and the watch starts from there.
ApplyList(s) ==
  /\ watch[s].pc = "listed"
  /\ IF log[watch[s].pos].present
     THEN OnUpdateSecret(s, watch[s].pos)
     ELSE UNCHANGED cache
  /\ WatchGoto(s, "stream", watch[s].pos)
  /\ UNCHANGED <<apiVars, callerVars, restarts>>

\* The next event of the stream.
WatchEvent(s) ==
  /\ watch[s].pc = "stream"
  /\ watch[s].pos < RV
  /\ \/ OnUpdateSecret(s, watch[s].pos + 1)
     \/ OnDeleteSecret(s, watch[s].pos + 1)
  /\ WatchGoto(s, "stream", watch[s].pos + 1)
  /\ UNCHANGED <<apiVars, callerVars, restarts>>

\* A request fails, or the stream ends with an error or is closed: the events
\* not yet delivered are gone, and WatchForever sleeps before it lists again.
WatchBreaks(s) ==
  /\ watch[s].pc \in {"list", "listed", "stream"}
  /\ WatchGoto(s, "sleep", 0)
  /\ UNCHANGED <<apiVars, cache, callerVars, restarts>>

\* Mutant of WatchRetries: the watch starts again without a list.
WatchRetriesWithoutList(s) ==
  /\ watch[s].pc = "sleep"
  /\ WatchGoto(s, "stream", RV)
  /\ UNCHANGED <<apiVars, cache, callerVars, restarts>>

WatchRetries(s) ==
  /\ watch[s].pc = "sleep"
  /\ WatchGoto(s, "list", 0)
  /\ UNCHANGED <<apiVars, cache, callerVars, restarts>>

-----------------------------------------------------------------------------
(* The environment.                                                           *)

\* A server crashes and starts again; its calls and its cache are gone.
Restart(s) ==
  LET mine == {c \in Callers : Home[c] = s}
  IN  /\ restarts < MaxRestarts
      /\ restarts' = restarts + 1
      /\ cache' = [cache EXCEPT ![s] = NewCache]
      /\ watch' = [watch EXCEPT ![s] = NewWatch(s)]
      /\ pc' = [c \in Callers |-> IF c \in mine THEN "idle" ELSE pc[c]]
      /\ call' = [c \in Callers |-> IF c \in mine THEN NoCall ELSE call[c]]
      /\ txn' = [c \in Callers |-> IF c \in mine THEN NoTxn ELSE txn[c]]
      /\ wrote' = [c \in Callers |-> IF c \in mine THEN 0 ELSE wrote[c]]
      /\ held' = [c \in Callers |-> IF c \in mine THEN NoHeld ELSE held[c]]
      /\ UNCHANGED apiVars

\* An administrator clears the active id of a keyset, to have a new key made.
RetireActive(n) ==
  /\ RV < MaxVersions
  /\ Latest.present
  /\ Latest.sets[n].active # 0
  /\ log' = Append(log, [Latest EXCEPT !.sets[n].active = 0])
  /\ UNCHANGED <<nextMat, cache, watch, callerVars, restarts>>

\* Another release of the program stores a key of a type unknown to this one.
StoreUnknown(n) ==
  /\ RV < MaxVersions
  /\ Latest.present
  /\ nextMat <= MaxKeys
  /\ log' = Append(log, [Latest EXCEPT !.sets[n] = AddKey(@, "UNKNOWN", nextMat)])
  /\ nextMat' = nextMat + 1
  /\ UNCHANGED <<cache, watch, callerVars, restarts>>

DeleteSecret ==
  /\ RV < MaxVersions
  /\ Latest.present
  /\ log' = Append(log, [Latest EXCEPT !.present = FALSE, !.sets = EmptySets])
  /\ UNCHANGED <<nextMat, cache, watch, callerVars, restarts>>

-----------------------------------------------------------------------------

CallerStep(c) ==
  \/ GetAndMutate(c) \/ GetFails(c)
  \/ WriteSecret(c) \/ WriteReplyLost(c) \/ WriteFails(c)
  \/ ApplyWrite(c)
  \/ RereadFound(c) \/ RereadMissing(c)

WatchStep(s) ==
  \/ ListSecret(s) \/ ApplyList(s) \/ WatchEvent(s)
  \/ WatchBreaks(s) \/ WatchRetries(s)

Administrator ==
  \/ \E n \in Names : RetireActive(n) \/ StoreUnknown(n)
  \/ DeleteSecret

Next ==
  \/ \E c \in Callers : KeySetHit(c) \/ KeySetMiss(c) \/ CallerStep(c)
  \/ \E s \in Servers : WatchStep(s) \/ Restart(s)
  \/ Administrator

Spec == Init /\ [][Next]_vars
\* The client retries and the API server is there again and again, so a list
\* that keeps being attempted succeeds some time, and so do the delivery of
\* its result and of an event that was sent (SF: a break may come first).
WatchFairness(s) ==
  /\ WF_vars(WatchRetries(s))
  /\ SF_vars(ListSecret(s)) /\ SF_vars(ApplyList(s)) /\ SF_vars(WatchEvent(s))

FairSpec == Spec /\ \A s \in Watchers : WatchFairness(s)

-----------------------------------------------------------------------------
(* keySet.Encrypt and keySet.AuthenticateAndDecrypt, on the key they find.    *)

\* "if !!ok" takes the error return for the type that does support it; for
\* any other it calls a method of a nil secretboxKey.
Encrypt(key) == IF key.type = "SECRETBOX" THEN "does not support Encrypt" ELSE "panic"

AuthenticateAndDecrypt(key) ==
  IF key.type = "SECRETBOX" THEN "does not support AuthenticateAndDecrypt" ELSE "panic"

-----------------------------------------------------------------------------

TypeOK ==
  /\ log \in Seq(Secret) /\ RV > 0
  /\ nextMat \in Nat \ {0}
  /\ cache \in [Servers -> [rv : 0..RV, sets : [Names -> KeySetData]]]
  /\ watch \in [Servers -> [pc  : {"off", "list", "listed", "stream", "sleep"},
                            pos : 0..RV]]
  /\ pc \in [Callers -> Locations]
  /\ call \in [Callers -> [name : Names \cup {NoName}, type : KeyTypes]]
  /\ txn \in [Callers -> [base : 0..RV, sets : [Names -> KeySetData]]]
  /\ wrote \in [Callers -> 0..RV]
  /\ held \in [Callers -> [name : Names \cup {NoName}, rv : 0..RV, ks : KeySetData]]
  /\ restarts \in Nat

\* A server's cache is what the secret held at the cache's resource version,
\* never a mixture of versions, whatever order its own writes, list results
\* and watch events are applied in (onUpdateSecret, onDeleteSecret).
CacheIsVersion ==
  \A s \in Servers :
    cache[s].sets = IF cache[s].rv = 0 THEN EmptySets
                    ELSE DecodeSecret(log[cache[s].rv].sets)

\* However stale, two servers never hold different keys under one id of one
\* incarnation of the secret: what one signs or encrypts with key id i, the
\* other never checks with another key (ensureKeySet, mutateSecret).
KeyAgreement ==
  \A s, t \in Servers : \A n \in Names :
    (/\ cache[s].rv > 0 /\ cache[t].rv > 0
     /\ log[cache[s].rv].uid = log[cache[t].rv].uid)
    => \A k \in cache[s].sets[n].keys, l \in cache[t].sets[n].keys :
         k.id = l.id => k = l

\* A keyset is handed out once and never refreshed (apps/sso keeps it for the
\* life of the process).  What its active key signs, every keyset handed out
\* at the same or a later version can still verify, until the secret is
\* deleted.
LaterHoldersVerify ==
  \A c, d \in Callers :
    (/\ 0 < held[c].rv /\ held[c].rv <= held[d].rv
     /\ log[held[c].rv].uid = log[held[d].rv].uid
     /\ held[c].name = held[d].name)
    => ActiveKeyOf(held[c].ks) \in held[d].ks.keys

\* "created key was not found" is reported only if the keyset lost its active
\* key after this call had stored it, by other hands.
MissingOnlyIfTakenAway ==
  \A c \in Callers : pc[c] = "missing" =>
    \E v \in wrote[c] + 1 .. RV : ~HasActive(Decode(log[v].sets[call[c].name]))

\* A cache behind its own watch has only one explanation: the list found no
\* secret, and an absent secret is not taken for a deletion (watchOnce).
BehindOnlyOnMissedDelete ==
  \A s \in Servers :
    (watch[s].pc = "stream" /\ cache[s].rv < watch[s].pos)
    => ~log[watch[s].pos].present

\* No write of a server loses a readable key another one stored meanwhile: a
\* key leaves the secret only by the deletion of the secret.
KeysSurvive ==
  [][(Latest.present /\ Latest'.present) =>
       \A n \in Names :
         Decode(Latest.sets[n]).keys \subseteq Decode(Latest'.sets[n]).keys]_log

\* A caller is never given an older keyset than any caller of the same server
\* was given before it, although the cache is filled by several goroutines.
NeverHandedOlder ==
  [][\A c, d \in Callers :
       (Home[c] = Home[d] /\ held'[c] # held[c] /\ held'[c] # NoHeld)
       => held[d].rv <= held'[c].rv]_vars

\* ensureKeySet on any number of servers is one atomic step of the registry.
Registry == INSTANCE KeyRegistry WITH reg <- Latest, Materials <- 1..MaxKeys

RegistrySpec == Registry!Spec

\* A server that watches ends up with the secret as it is, once it stops
\* changing, through lost events and failed lists (WatchForever).  A secret
\* that stays deleted is excepted: see BehindOnlyOnMissedDelete.
WatchConverges ==
  \A s \in Watchers : <>[](Latest.present => cache[s].rv = RV)

\* The error of Encrypt, "key type %v does not support Encrypt", is reported
\* only for a key type without an encrypt method.
EncryptErrorIsTrue ==
  \A c \in Callers :
    held[c] # NoHeld =>
      LET key == ActiveKeyOf(held[c].ks)
      IN  Encrypt(key) = "does not support Encrypt" => key.type # "SECRETBOX"
-----------------------------------------------------------------------------
(* The inductive invariant of the proofs in KeyStoreProofs.                   *)

\* Every keyset has one key per id, and any of its ids have a greatest one
\* (which is all that is needed of their finiteness).
WellFormed(ks) ==
  /\ \A k, l \in ks.keys : k.id = l.id => k = l
  /\ \A T \in SUBSET ({0} \cup Ids(ks)) :
       T # {} => \E m \in T : \A i \in T : i <= m

LogInv ==
  /\ \A v \in 1..RV : /\ \A n \in Names : WellFormed(log[v].sets[n])
                      /\ ~log[v].present => log[v].sets = EmptySets
  /\ \A v, w \in 1..RV : v <= w =>
       /\ log[v].uid <= log[w].uid
       /\ (log[v].uid = log[w].uid /\ log[v].present /\ log[w].present) =>
            \A n \in Names : Decode(log[v].sets[n]).keys \subseteq Decode(log[w].sets[n]).keys

\* What a transaction is about to write is one ensureKeySet away from what it
\* read.
TxnInv(c) ==
  pc[c] = "write" =>
    /\ ~Creates(c) => log[txn[c].base].present
    /\ \E type \in KnownTypes, mat \in 1..MaxKeys :
         txn[c].sets = EnsureKeySet(IF Creates(c) THEN EmptySets ELSE log[txn[c].base].sets,
                                    call[c].name, type, mat)

CallInv(c) ==
  /\ pc[c] # "idle" => call[c].name \in Names
  /\ pc[c] \in {"apply", "reread", "missing"} =>
       /\ wrote[c] > 0
       /\ log[wrote[c]].present
       /\ HasActive(Decode(log[wrote[c]].sets[call[c].name]))
  /\ pc[c] = "reread" => wrote[c] <= cache[Home[c]].rv
  /\ pc[c] = "missing" =>
       \E v \in wrote[c] + 1 .. RV : ~HasActive(Decode(log[v].sets[call[c].name]))

HeldInv(c) ==
  /\ held[c].rv = 0 => held[c] = NoHeld
  /\ held[c].rv > 0 =>
       /\ held[c].name \in Names
       /\ held[c].rv <= cache[Home[c]].rv
       /\ held[c].ks = Decode(log[held[c].rv].sets[held[c].name])
       /\ HasActive(held[c].ks)

CacheInv(s) ==
  cache[s].sets = IF cache[s].rv = 0 THEN EmptySets
                  ELSE DecodeSecret(log[cache[s].rv].sets)

WatchInv(s) ==
  /\ watch[s].pc \in {"listed", "stream"} => watch[s].pos > 0
  /\ (watch[s].pc = "stream" /\ cache[s].rv < watch[s].pos)
       => ~log[watch[s].pos].present

IInv ==
  /\ TypeOK /\ LogInv
  /\ \A c \in Callers : TxnInv(c) /\ CallInv(c) /\ HeldInv(c)
  /\ \A s \in Servers : CacheInv(s) /\ WatchInv(s)
=============================================================================
