---------------------------- MODULE KeyStoreProofs ----------------------------
(* Proofs about KeyStore, for any number of servers, callers, names, versions *)
(* and restarts.                                                              *)
EXTENDS KeyStore, TLAPS

(* The operators of KeySets.                                                  *)

\* Decoding only drops keys, and leaves a well-formed keyset so.
LEMMA DecodeLemma ==
  ASSUME NEW ks \in KeySetData
  PROVE  /\ Decode(ks) \in KeySetData
         /\ Decode(ks).keys \subseteq ks.keys
         /\ Decode(ks).active = ks.active
         /\ WellFormed(ks) => WellFormed(Decode(ks))
<1>1. /\ Decode(ks) \in KeySetData
      /\ Decode(ks).keys \subseteq ks.keys
      /\ Decode(ks).active = ks.active
  BY DEF Decode, KeySetData
<1>2. ASSUME WellFormed(ks) PROVE WellFormed(Decode(ks))
  <2>1. {0} \cup Ids(Decode(ks)) \subseteq {0} \cup Ids(ks)
    BY <1>1 DEF Ids
  <2>2. SUBSET ({0} \cup Ids(Decode(ks))) \subseteq SUBSET ({0} \cup Ids(ks))
    BY <2>1
  <2> QED
    BY <1>1, <1>2, <2>2 DEF WellFormed
<1> QED
  BY <1>1, <1>2

\* The loop of ensureKeySet over the ids finds a bound of all of them.
LEMMA MaxIdLemma ==
  ASSUME NEW ks \in KeySetData, WellFormed(ks)
  PROVE  /\ MaxId(ks) \in Nat
         /\ \A k \in ks.keys : k.id <= MaxId(ks)
<1> DEFINE S == {0} \cup Ids(ks)
<1>1. S \subseteq Nat
  BY DEF Ids, KeySetData, Key
<1>2. PICK m \in S : \A i \in S : i <= m
  <2>1. S \in SUBSET S /\ S # {}
    OBVIOUS
  <2> QED
    BY <2>1 DEF WellFormed
<1>3. \A i \in S : m >= i
  BY <1>1, <1>2
<1>4. Max(S) \in S /\ \A i \in S : Max(S) >= i
  BY <1>2, <1>3 DEF Max
<1>5. MaxId(ks) = Max(S)
  BY DEF MaxId
<1>6. \A k \in ks.keys : k.id \in S
  BY DEF Ids
<1> QED
  BY <1>1, <1>4, <1>5, <1>6

\* A generated key has an id no key of the keyset has, is the active one, and
\* takes no other key away.
LEMMA AddKeyLemma ==
  ASSUME NEW ks \in KeySetData, WellFormed(ks),
         NEW type \in KeyTypes, NEW mat \in Nat
  PROVE  /\ AddKey(ks, type, mat) \in KeySetData
         /\ WellFormed(AddKey(ks, type, mat))
         /\ HasActive(AddKey(ks, type, mat))
         /\ ks.keys \subseteq AddKey(ks, type, mat).keys
         /\ AddKey(ks, type, mat).keys
              \subseteq ks.keys \cup {[id |-> MaxId(ks) + 1, mat |-> mat, type |-> type]}
<1> DEFINE id == MaxId(ks) + 1
           k0 == [id |-> id, mat |-> mat, type |-> type]
           new == AddKey(ks, type, mat)
<1>1. id \in Nat \ {0} /\ \A k \in ks.keys : k.id < id
  BY MaxIdLemma DEF KeySetData, Key
<1>2. /\ new.active = id /\ new.keys = ks.keys \cup {k0} /\ k0.id = id
      /\ new = [active |-> id, keys |-> ks.keys \cup {k0}]
  BY DEF AddKey
<1> HIDE DEF new, id
<1>3. k0 \in Key
  BY <1>1 DEF Key
<1> HIDE DEF k0
<1>4. new \in KeySetData
  BY <1>1, <1>2, <1>3 DEF KeySetData
<1>5. HasActive(new)
  BY <1>2 DEF HasActive
<1>6. \A k, l \in new.keys : k.id = l.id => k = l
  BY <1>1, <1>2 DEF WellFormed, KeySetData, Key
<1>7. ASSUME NEW T \in SUBSET ({0} \cup Ids(new)), T # {}
      PROVE  \E m \in T : \A i \in T : i <= m
  <2>1. Ids(new) = Ids(ks) \cup {id}
    BY <1>2 DEF Ids
  <2>2. \A i \in {0} \cup Ids(new) : i <= id
    BY <1>1, <2>1 DEF Ids
  <2>3. CASE id \in T
    BY <2>2, <2>3
  <2>4. CASE id \notin T
    <3>1. T \in SUBSET ({0} \cup Ids(ks))
      BY <2>1, <2>4
    <3> QED
      BY <3>1, <1>7 DEF WellFormed
  <2> QED
    BY <2>3, <2>4
<1> QED
  BY <1>2, <1>4, <1>5, <1>6, <1>7 DEF WellFormed, new, k0, id

\* The mutator keeps every readable key of every keyset, and gives its own an
\* active key.
LEMMA EnsureLemma ==
  ASSUME NEW sets \in [Names -> KeySetData],
         \A n \in Names : WellFormed(sets[n]),
         NEW n0 \in Names, NEW type \in KnownTypes, NEW mat \in Nat,
         NEW new, new = EnsureKeySet(sets, n0, type, mat)
  PROVE  /\ new \in [Names -> KeySetData]
         /\ \A n \in Names : WellFormed(new[n])
         /\ HasActive(Decode(new[n0]))
         /\ \A n \in Names : Decode(sets[n]).keys \subseteq Decode(new[n]).keys
<1> DEFINE ks  == Decode(sets[n0])
           res == IF HasActive(ks) THEN ks ELSE AddKey(ks, type, mat)
<1>1. ks \in KeySetData /\ WellFormed(ks) /\ (\A k \in ks.keys : k.type \in KnownTypes)
  BY DecodeLemma DEF Decode, KeySetData
<1>2. type \in KeyTypes
  BY DEF KeyTypes
<1>3. new = [sets EXCEPT ![n0] = res]
  BY DEF EnsureKeySet
<1>4. res \in KeySetData /\ WellFormed(res) /\ HasActive(res) /\ ks.keys \subseteq res.keys
  BY <1>1, <1>2, AddKeyLemma
<1>5. \A k \in res.keys : k.type \in KnownTypes
  <2>1. CASE HasActive(ks)
    BY <2>1, <1>1
  <2>2. CASE ~HasActive(ks)
    BY <2>2, <1>1, <1>2, AddKeyLemma
  <2> QED
    BY <2>1, <2>2
<1>6. Decode(res) = res
  <2>1. {k \in res.keys : k.type \in KnownTypes} = res.keys
    BY <1>5
  <2> QED
    BY <2>1, <1>4 DEF Decode, KeySetData
<1>7. new \in [Names -> KeySetData] /\ new[n0] = res
      /\ \A n \in Names \ {n0} : new[n] = sets[n]
  BY <1>3, <1>4
<1>8. \A n \in Names : WellFormed(new[n])
  BY <1>4, <1>7
<1>9. \A n \in Names : Decode(sets[n]).keys \subseteq Decode(new[n]).keys
  BY <1>4, <1>6, <1>7
<1> HIDE DEF res, ks
<1>10. HasActive(Decode(new[n0]))
  BY <1>4, <1>6, <1>7
<1> QED
  BY <1>7, <1>8, <1>9, <1>10
-----------------------------------------------------------------------------
(* What the steps have in common.                                             *)

\* The history only grows.
LogGrows ==
  /\ log' \in Seq(Secret)
  /\ RV <= RV'
  /\ \A v \in 1..RV : log'[v] = log[v]

\* A secret may follow the latest one: its keysets are well-formed, and as
\* long as the secret is not deleted no readable key is lost.
Follows(new) ==
  /\ new \in Secret
  /\ \A n \in Names : WellFormed(new.sets[n])
  /\ ~new.present => new.sets = EmptySets
  /\ Latest.uid <= new.uid
  /\ (new.present /\ new.uid = Latest.uid) =>
       /\ Latest.present
       /\ \A n \in Names : Decode(Latest.sets[n]).keys \subseteq Decode(new.sets[n]).keys

LEMMA AppendLemma ==
  ASSUME IInv, NEW new, Follows(new), log' = Append(log, new)
  PROVE  LogGrows /\ LogInv' /\ RV' = RV + 1 /\ Latest' = new
<1> USE DEF RV
<1>1. log \in Seq(Secret) /\ RV \in Nat /\ RV > 0
  BY DEF IInv, TypeOK
<1>2. new \in Secret
  BY DEF Follows
<1>3. /\ log' \in Seq(Secret) /\ RV' = RV + 1 /\ log'[RV + 1] = new
      /\ \A v \in 1..RV : log'[v] = log[v]
  BY <1>1, <1>2
<1> USE DEF Latest
<1>4. \A v \in 1..RV + 1 : /\ \A n \in Names : WellFormed(log'[v].sets[n])
                           /\ ~log'[v].present => log'[v].sets = EmptySets
  BY <1>1, <1>3 DEF IInv, LogInv, Follows
<1>5. ASSUME NEW v \in 1..RV + 1, NEW w \in 1..RV + 1, v <= w
      PROVE  /\ log'[v].uid <= log'[w].uid
             /\ (log'[v].uid = log'[w].uid /\ log'[v].present /\ log'[w].present) =>
                  \A n \in Names : Decode(log'[v].sets[n]).keys
                                     \subseteq Decode(log'[w].sets[n]).keys
  <2>1. CASE w <= RV
    <3>1. v \in 1..RV /\ w \in 1..RV
      BY <1>1, <1>5, <2>1
    <3>2. log'[v] = log[v] /\ log'[w] = log[w]
      BY <1>3, <3>1
    <3> QED
      BY <1>5, <3>1, <3>2 DEF IInv, LogInv
  <2>2. CASE v = RV + 1
    <3>1. w = RV + 1
      BY <1>1, <1>5, <2>2
    <3> QED
      BY <1>2, <1>3, <2>2, <3>1 DEF Secret
  <2>3. CASE v <= RV /\ w = RV + 1
    <3>1. log'[v] = log[v] /\ log'[w] = new /\ v \in 1..RV /\ RV \in 1..RV
      BY <1>1, <1>3, <2>3
    <3>2. log[v] \in Secret /\ log[RV] \in Secret
      BY <1>1, <3>1
    <3>3. /\ log[v].uid <= log[RV].uid
          /\ (log[v].uid = log[RV].uid /\ log[v].present /\ log[RV].present) =>
               \A n \in Names : Decode(log[v].sets[n]).keys
                                  \subseteq Decode(log[RV].sets[n]).keys
      BY <1>1, <3>1 DEF IInv, LogInv
    <3>4. log[RV].uid <= new.uid /\ log[v].uid \in Nat /\ log[RV].uid \in Nat /\ new.uid \in Nat
      BY <1>2, <3>2 DEF Follows, Secret
    <3>5. log[v].uid <= new.uid
      BY <3>3, <3>4
    <3>6. ASSUME log[v].uid = new.uid, log[v].present, new.present, NEW n \in Names
          PROVE  Decode(log[v].sets[n]).keys \subseteq Decode(new.sets[n]).keys
      <4>1. log[RV].uid = new.uid /\ log[v].uid = log[RV].uid
        BY <3>3, <3>4, <3>6
      <4>2. /\ log[RV].present
            /\ Decode(log[RV].sets[n]).keys \subseteq Decode(new.sets[n]).keys
        BY <3>6, <4>1 DEF Follows
      <4> QED
        BY <3>3, <3>6, <4>1, <4>2
    <3> QED
      BY <3>1, <3>5, <3>6
  <2>4. w <= RV \/ v = RV + 1 \/ (v <= RV /\ w = RV + 1)
    BY <1>1, <1>5
  <2> QED
    BY <2>1, <2>2, <2>3, <2>4
<1>6. LogInv'
  BY <1>3, <1>4, <1>5 DEF LogInv
<1> QED
  BY <1>1, <1>3, <1>6 DEF LogGrows

LEMMA LogSame ==
  ASSUME IInv, UNCHANGED log
  PROVE  LogGrows /\ LogInv' /\ RV' = RV
<1>1. log' = log /\ RV' = RV /\ LogInv /\ log \in Seq(Secret) /\ RV \in Nat
  BY DEF IInv, TypeOK, RV
<1>2. LogGrows
  BY <1>1 DEF LogGrows
<1>3. \A v \in 1..RV' : /\ \A n \in Names : WellFormed(log'[v].sets[n])
                        /\ ~log'[v].present => log'[v].sets = EmptySets
  <2>1. \A v \in 1..RV : /\ \A n \in Names : WellFormed(log[v].sets[n])
                         /\ ~log[v].present => log[v].sets = EmptySets
    BY <1>1 DEF LogInv
  <2> QED
    BY <1>1, <2>1
<1>4. \A v, w \in 1..RV' : v <= w =>
        /\ log'[v].uid <= log'[w].uid
        /\ (log'[v].uid = log'[w].uid /\ log'[v].present /\ log'[w].present) =>
             \A n \in Names : Decode(log'[v].sets[n]).keys \subseteq Decode(log'[w].sets[n]).keys
  <2>1. \A v, w \in 1..RV : v <= w =>
          /\ log[v].uid <= log[w].uid
          /\ (log[v].uid = log[w].uid /\ log[v].present /\ log[w].present) =>
               \A n \in Names : Decode(log[v].sets[n]).keys \subseteq Decode(log[w].sets[n]).keys
    BY <1>1 DEF LogInv
  <2> QED
    BY <1>1, <2>1
<1>5. LogInv'
  BY <1>3, <1>4 DEF LogInv
<1> QED
  BY <1>1, <1>2, <1>5

\* A caller that does not move, while its server's cache does not go back.
LEMMA CallerStable ==
  ASSUME IInv, LogGrows, NEW c \in Callers,
         pc'[c] = pc[c], call'[c] = call[c], txn'[c] = txn[c],
         wrote'[c] = wrote[c], held'[c] = held[c],
         cache'[Home[c]].rv \in Nat, cache[Home[c]].rv <= cache'[Home[c]].rv
  PROVE  TxnInv(c)' /\ CallInv(c)' /\ HeldInv(c)'
<1>1. /\ RV \in Nat /\ RV' \in Nat /\ RV <= RV'
      /\ txn[c].base \in 0..RV /\ wrote[c] \in 0..RV /\ held[c].rv \in 0..RV
      /\ cache[Home[c]].rv \in Nat
      /\ TxnInv(c) /\ CallInv(c) /\ HeldInv(c)
  BY HomeAssumption DEF IInv, TypeOK, LogGrows, RV
<1>2. \A v \in 1..RV : log'[v] = log[v]
  BY DEF LogGrows
<1>3. TxnInv(c)'
  <2>1. Creates(c)' = Creates(c)
    BY DEF Creates
  <2>2. ~Creates(c) => log'[txn[c].base] = log[txn[c].base]
    BY <1>1, <1>2 DEF Creates
  <2> QED
    BY <1>1, <2>1, <2>2 DEF TxnInv
<1>4. CallInv(c)'
  BY <1>1, <1>2 DEF CallInv
<1>5. HeldInv(c)'
  BY <1>1, <1>2 DEF HeldInv
<1> QED
  BY <1>3, <1>4, <1>5

\* A server that does not move.
LEMMA ServerStable ==
  ASSUME IInv, LogGrows, NEW s \in Servers, cache'[s] = cache[s], watch'[s] = watch[s]
  PROVE  CacheInv(s)' /\ WatchInv(s)'
<1>1. /\ RV \in Nat /\ RV' \in Nat /\ RV <= RV'
      /\ cache[s].rv \in 0..RV /\ watch[s].pos \in 0..RV
      /\ CacheInv(s) /\ WatchInv(s)
  BY DEF IInv, TypeOK, LogGrows, RV
<1> QED
  BY <1>1 DEF CacheInv, WatchInv, LogGrows

\* onUpdateSecret and onDeleteSecret with a version of the secret.
LEMMA ObserveLemma ==
  ASSUME IInv, UNCHANGED log, NEW s \in Servers, NEW rv \in 1..RV, Observe(s, rv)
  PROVE  /\ cache' \in [Servers -> [rv : 0..RV, sets : [Names -> KeySetData]]]
         /\ \A t \in Servers : cache[t].rv <= cache'[t].rv /\ CacheInv(t)'
         /\ \A t \in Servers \ {s} : cache'[t] = cache[t]
         /\ rv <= cache'[s].rv
<1>1. /\ RV \in Nat /\ log[rv] \in Secret
      /\ cache \in [Servers -> [rv : 0..RV, sets : [Names -> KeySetData]]]
      /\ \A t \in Servers : CacheInv(t)
  BY DEF IInv, TypeOK, RV
<1>2. DecodeSecret(log[rv].sets) \in [Names -> KeySetData]
  BY <1>1, DecodeLemma DEF DecodeSecret, Secret
<1>3. CASE rv <= cache[s].rv
  BY <1>1, <1>3 DEF Observe, CacheInv
<1>4. CASE ~(rv <= cache[s].rv)
  <2>1. cache' = [cache EXCEPT ![s] = [rv |-> rv, sets |-> DecodeSecret(log[rv].sets)]]
    BY <1>4 DEF Observe
  <2> QED
    BY <1>1, <1>2, <1>4, <2>1 DEF CacheInv
<1> QED
  BY <1>3, <1>4
-----------------------------------------------------------------------------
(* The inductive invariant: the initial states, then one lemma per kind of    *)
(* step.                                                                      *)

LEMMA InitIInv == Init => IInv
<1> SUFFICES ASSUME Init PROVE IInv
  OBVIOUS
<1> DEFINE s0 == [present |-> FALSE, uid |-> 0, sets |-> EmptySets]
<1>1. EmptySets \in [Names -> KeySetData]
  BY DEF EmptySets, EmptyKeySet, KeySetData
<1>2. s0 \in Secret
  BY <1>1 DEF Secret
<1>3. log = <<s0>> /\ log \in Seq(Secret) /\ RV = 1 /\ log[1] = s0
  BY <1>2 DEF Init, RV
<1>4. \A n \in Names : WellFormed(EmptySets[n])
  <2>1. ASSUME NEW n \in Names, NEW T \in SUBSET ({0} \cup Ids(EmptySets[n])), T # {}
        PROVE  \E m \in T : \A i \in T : i <= m
    <3>1. T = {0}
      BY <2>1 DEF EmptySets, EmptyKeySet, Ids
    <3> QED
      BY <3>1
  <2> QED
    BY <2>1 DEF EmptySets, EmptyKeySet, WellFormed
<1>5. TypeOK
  BY <1>1, <1>3 DEF Init, TypeOK, NewCache, NewWatch, NoCall, NoTxn, NoHeld, EmptyKeySet,
                    KeySetData, KeyTypes, KnownTypes, Locations
<1>6. LogInv
  <2>1. \A v \in 1..RV : v = 1
    BY <1>3
  <2>2. s0.uid <= s0.uid /\ s0.sets = EmptySets
    OBVIOUS
  <2> QED
    BY <1>3, <1>4, <2>1, <2>2 DEF LogInv
<1>7. \A c \in Callers : TxnInv(c) /\ CallInv(c) /\ HeldInv(c)
  BY DEF Init, TxnInv, CallInv, HeldInv, NoHeld
<1>8. \A s \in Servers : CacheInv(s) /\ WatchInv(s)
  BY DEF Init, CacheInv, WatchInv, NewCache, NewWatch
<1> QED
  BY <1>5, <1>6, <1>7, <1>8 DEF IInv

\* Return(c) leaves a caller with nothing to keep but the keyset it holds.
LEMMA ReturnLemma ==
  ASSUME IInv, NEW c \in Callers, Return(c)
  PROVE  /\ pc' \in [Callers -> Locations]
         /\ call' \in [Callers -> [name : Names \cup {NoName}, type : KeyTypes]]
         /\ txn' \in [Callers -> [base : 0..RV, sets : [Names -> KeySetData]]]
         /\ wrote' \in [Callers -> 0..RV]
         /\ TxnInv(c)' /\ CallInv(c)'
         /\ \A d \in Callers \ {c} : /\ pc'[d] = pc[d] /\ call'[d] = call[d]
                                     /\ txn'[d] = txn[d] /\ wrote'[d] = wrote[d]
<1>1. EmptySets \in [Names -> KeySetData]
  BY DEF EmptySets, EmptyKeySet, KeySetData
<1> QED
  BY <1>1 DEF IInv, TypeOK, Return, Goto, RV, NoCall, NoTxn, KeyTypes, KnownTypes,
              Locations, TxnInv, CallInv

\* Hold(c, n) takes a keyset with an active key out of the cache.
LEMMA HoldLemma ==
  ASSUME IInv, UNCHANGED <<log, cache>>, NEW c \in Callers, NEW n \in Names,
         HasActive(Cached(c, n)), Hold(c, n)
  PROVE  /\ held' \in [Callers -> [name : Names \cup {NoName}, rv : 0..RV, ks : KeySetData]]
         /\ HeldInv(c)'
         /\ \A d \in Callers \ {c} : held'[d] = held[d]
<1> DEFINE s == Home[c]
<1>1. /\ s \in Servers /\ CacheInv(s) /\ RV \in Nat
      /\ cache[s].rv \in 0..RV /\ cache[s].sets \in [Names -> KeySetData]
      /\ held \in [Callers -> [name : Names \cup {NoName}, rv : 0..RV, ks : KeySetData]]
  BY HomeAssumption DEF IInv, TypeOK, RV
<1>2. cache[s].rv # 0
  BY <1>1 DEF CacheInv, Cached, HasActive, EmptySets, EmptyKeySet
<1>3. Cached(c, n) = Decode(log[cache[s].rv].sets[n])
  BY <1>1, <1>2 DEF CacheInv, Cached, DecodeSecret
<1>4. held' = [held EXCEPT ![c] = [name |-> n, rv |-> cache[s].rv, ks |-> Cached(c, n)]]
  BY DEF Hold
<1>5. Cached(c, n) \in KeySetData
  BY <1>1 DEF Cached
<1>6. /\ held' \in [Callers -> [name : Names \cup {NoName}, rv : 0..RV, ks : KeySetData]]
      /\ \A d \in Callers \ {c} : held'[d] = held[d]
  BY <1>1, <1>4, <1>5
<1>7. held'[c] = [name |-> n, rv |-> cache[s].rv, ks |-> Cached(c, n)]
  BY <1>1, <1>4
<1>8. HeldInv(c)'
  BY <1>1, <1>2, <1>3, <1>7 DEF HeldInv
<1> QED
  BY <1>6, <1>8

\* The steps of a caller that leave the API server and the cache alone.
LEMMA LocalCallerStep ==
  ASSUME IInv, NEW c \in Callers,
         KeySetHit(c) \/ KeySetMiss(c) \/ GetFails(c) \/ WriteFails(c)
         \/ RereadFound(c) \/ RereadMissing(c)
  PROVE  IInv'
<1> USE DEF RV
<1>1. UNCHANGED <<log, nextMat, cache, watch, restarts>>
  BY DEF KeySetHit, KeySetMiss, GetFails, WriteFails, RereadFound, RereadMissing, apiVars
<1>2. LogGrows /\ LogInv' /\ RV' = RV
  BY <1>1, LogSame
<1>3. \A s \in Servers : CacheInv(s)' /\ WatchInv(s)'
  BY <1>1, <1>2, ServerStable
<1>4. \A t \in Servers : cache'[t].rv \in Nat /\ cache[t].rv <= cache'[t].rv
  BY <1>1 DEF IInv, TypeOK
<1> DEFINE CallerTypes ==
             /\ pc' \in [Callers -> Locations]
             /\ call' \in [Callers -> [name : Names \cup {NoName}, type : KeyTypes]]
             /\ txn' \in [Callers -> [base : 0..RV, sets : [Names -> KeySetData]]]
             /\ wrote' \in [Callers -> 0..RV]
             /\ held' \in [Callers -> [name : Names \cup {NoName}, rv : 0..RV, ks : KeySetData]]
           Mine == TxnInv(c)' /\ CallInv(c)' /\ HeldInv(c)'
           Others == \A d \in Callers \ {c} :
                       /\ pc'[d] = pc[d] /\ call'[d] = call[d] /\ txn'[d] = txn[d]
                       /\ wrote'[d] = wrote[d] /\ held'[d] = held[d]
<1>5. ASSUME KeySetHit(c) PROVE CallerTypes /\ Mine /\ Others
  <2>1. PICK n \in Names : HasActive(Cached(c, n)) /\ Hold(c, n)
    BY <1>5 DEF KeySetHit
  <2> QED
    BY <1>1, <1>5, <2>1, HoldLemma, ReturnLemma DEF KeySetHit
<1>6. ASSUME RereadFound(c) PROVE CallerTypes /\ Mine /\ Others
  <2>1. call[c].name \in Names
    BY <1>6 DEF IInv, CallInv, RereadFound
  <2> QED
    BY <1>1, <1>6, <2>1, HoldLemma, ReturnLemma DEF RereadFound
<1>7. ASSUME GetFails(c) \/ WriteFails(c) PROVE CallerTypes /\ Mine /\ Others
  <2>1. Return(c) /\ held' = held
    BY <1>7 DEF GetFails, WriteFails
  <2>2. HeldInv(c)'
    BY <1>1, <2>1 DEF IInv, HeldInv
  <2> QED
    BY <2>1, <2>2, ReturnLemma DEF IInv, TypeOK
<1>8. ASSUME KeySetMiss(c) PROVE CallerTypes /\ Mine /\ Others
  <2>1. PICK n \in Names, type \in AskedTypes :
          call' = [call EXCEPT ![c] = [name |-> n, type |-> type]]
    BY <1>8 DEF KeySetMiss
  <2>2. type \in KeyTypes
    BY AskedTypesAssumption
  <2>3. /\ pc' = [pc EXCEPT ![c] = "get"] /\ wrote' = [wrote EXCEPT ![c] = 0]
        /\ UNCHANGED <<txn, held>>
    BY <1>8 DEF KeySetMiss, Goto
  <2>4. HeldInv(c)'
    BY <1>1, <2>3 DEF IInv, HeldInv
  <2> QED
    BY <2>1, <2>2, <2>3, <2>4 DEF IInv, TypeOK, Locations, TxnInv, CallInv
<1>9. ASSUME RereadMissing(c) PROVE CallerTypes /\ Mine /\ Others
  <2> DEFINE s == Home[c]
             n == call[c].name
             v == cache[s].rv
  <2>1. /\ pc[c] = "reread" /\ ~HasActive(Cached(c, n))
        /\ pc' = [pc EXCEPT ![c] = "missing"] /\ UNCHANGED <<call, txn, wrote, held>>
    BY <1>9 DEF RereadMissing, Goto
  <2>2. /\ n \in Names /\ wrote[c] > 0 /\ log[wrote[c]].present /\ wrote[c] <= v
        /\ HasActive(Decode(log[wrote[c]].sets[n]))
    BY <2>1 DEF IInv, CallInv
  <2>3. s \in Servers /\ CacheInv(s) /\ v \in 0..RV /\ wrote[c] \in 0..RV /\ RV \in Nat
    BY HomeAssumption DEF IInv, TypeOK
  <2>4. Cached(c, n) = Decode(log[v].sets[n])
    BY <2>2, <2>3 DEF CacheInv, Cached, DecodeSecret
  <2>5. v \in wrote[c] + 1 .. RV /\ ~HasActive(Decode(log[v].sets[n]))
    <3>1. v # wrote[c]
      BY <2>1, <2>2, <2>4
    <3> QED
      BY <2>1, <2>2, <2>3, <2>4, <3>1
  <2>6. CallInv(c)'
    BY <1>1, <2>1, <2>2, <2>5 DEF IInv, TypeOK, CallInv
  <2>7. TxnInv(c)' /\ HeldInv(c)'
    BY <1>1, <2>1 DEF IInv, TypeOK, TxnInv, HeldInv
  <2> QED
    BY <2>1, <2>6, <2>7 DEF IInv, TypeOK, Locations
<1>10. CallerTypes /\ Mine /\ Others
  BY <1>5, <1>6, <1>7, <1>8, <1>9
<1>11. \A d \in Callers : TxnInv(d)' /\ CallInv(d)' /\ HeldInv(d)'
  <2> SUFFICES ASSUME NEW d \in Callers \ {c} PROVE TxnInv(d)' /\ CallInv(d)' /\ HeldInv(d)'
    BY <1>10
  <2>1. Home[d] \in Servers
    BY HomeAssumption
  <2> QED
    BY <1>2, <1>4, <1>10, <2>1, CallerStable
<1>12. TypeOK'
  BY <1>1, <1>2, <1>10 DEF IInv, TypeOK
<1> QED
  BY <1>2, <1>3, <1>11, <1>12 DEF IInv
LEMMA GetAndMutateStep ==
  ASSUME IInv, NEW c \in Callers, GetAndMutate(c)
  PROVE  IInv'
<1> USE DEF RV
<1> DEFINE n == call[c].name
           minting == ~HasActive(Decode(Latest.sets[n]))
           new == EnsureKeySet(Latest.sets, n, call[c].type, nextMat)
           base == IF Latest.present THEN RV ELSE 0
<1>1. /\ pc[c] = "get" /\ pc' = [pc EXCEPT ![c] = "write"]
      /\ minting => call[c].type \in KnownTypes /\ nextMat <= MaxKeys
      /\ nextMat' = IF minting THEN nextMat + 1 ELSE nextMat
      /\ txn' = [txn EXCEPT ![c] = [base |-> base, sets |-> new]]
      /\ UNCHANGED <<log, cache, watch, call, wrote, held, restarts>>
  BY DEF GetAndMutate, Goto
<1>2. LogGrows /\ LogInv' /\ RV' = RV
  BY <1>1, LogSame
<1>3. /\ n \in Names /\ RV \in Nat /\ RV > 0 /\ Latest \in Secret
      /\ \A m \in Names : WellFormed(Latest.sets[m])
      /\ ~Latest.present => Latest.sets = EmptySets
      /\ nextMat \in Nat \ {0}
  BY <1>1 DEF IInv, TypeOK, CallInv, LogInv, Latest
<1>4. PICK type \in KnownTypes, mat \in 1..MaxKeys : new = EnsureKeySet(Latest.sets, n, type, mat)
  <2>1. CASE minting
    BY <1>1, <1>3, <2>1, BoundsAssumption
  <2>2. CASE ~minting
    <3>1. \A type, mat : EnsureKeySet(Latest.sets, n, type, mat)
                           = [Latest.sets EXCEPT ![n] = Decode(Latest.sets[n])]
      BY <2>2 DEF EnsureKeySet
    <3>2. "RSA" \in KnownTypes /\ 1 \in 1..MaxKeys
      BY BoundsAssumption DEF KnownTypes
    <3> QED
      BY <3>1, <3>2
  <2> QED
    BY <2>1, <2>2
<1>5. new \in [Names -> KeySetData]
  BY <1>3, <1>4, EnsureLemma DEF Secret
<1>5a. base \in 0..RV /\ (base = 0 <=> ~Latest.present) /\ (base # 0 => base = RV)
  BY <1>3
<1> HIDE DEF new, base, minting
<1>6. TxnInv(c)'
  <2>1. txn'[c] = [base |-> base, sets |-> new] /\ (Creates(c)' <=> base = 0)
    BY <1>1 DEF IInv, TypeOK, Creates
  <2>2. Creates(c)' => Latest.sets = EmptySets
    BY <1>3, <1>5a, <2>1
  <2>3. ~Creates(c)' => base = RV /\ log'[base] = Latest /\ Latest.present
    BY <1>1, <1>5a, <2>1 DEF Latest
  <2> QED
    BY <1>1, <1>4, <2>1, <2>2, <2>3 DEF TxnInv
<1>7. CallInv(c)' /\ HeldInv(c)'
  BY <1>1, <1>3 DEF IInv, TypeOK, CallInv, HeldInv
<1>8. \A d \in Callers : TxnInv(d)' /\ CallInv(d)' /\ HeldInv(d)'
  <2> SUFFICES ASSUME NEW d \in Callers \ {c} PROVE TxnInv(d)' /\ CallInv(d)' /\ HeldInv(d)'
    BY <1>6, <1>7
  <2>0. cache' = cache /\ Home[d] \in Servers /\ RV \in Nat
    BY <1>1, <1>3, HomeAssumption
  <2>1. cache'[Home[d]].rv \in Nat /\ cache[Home[d]].rv <= cache'[Home[d]].rv
    BY <2>0 DEF IInv, TypeOK
  <2>2. pc'[d] = pc[d] /\ txn'[d] = txn[d]
    BY <1>1 DEF IInv, TypeOK
  <2> QED
    BY <1>1, <1>2, <2>1, <2>2, CallerStable
<1>9. \A s \in Servers : CacheInv(s)' /\ WatchInv(s)'
  BY <1>1, <1>2, ServerStable
<1>10. TypeOK'
  <2>1. nextMat' \in Nat \ {0}
    BY <1>1, <1>3
  <2> QED
    BY <1>1, <1>2, <1>5, <1>5a, <2>1 DEF IInv, TypeOK, Locations
<1> QED
  BY <1>2, <1>8, <1>9, <1>10 DEF IInv

\* A write the API server accepts was computed from the secret as it still is.
LEMMA PendingLemma ==
  ASSUME IInv, NEW c \in Callers, WriteAccepted(c)
  PROVE  /\ call[c].name \in Names /\ RV \in Nat /\ RV > 0
         /\ Latest \in Secret
         /\ \A m \in Names : WellFormed(Latest.sets[m])
         /\ IF Creates(c) THEN ~Latest.present ELSE Latest.present
         /\ \E type \in KnownTypes, mat \in 1..MaxKeys :
              txn[c].sets = EnsureKeySet(Latest.sets, call[c].name, type, mat)
<1> USE DEF RV
<1> DEFINE n == call[c].name
           from == IF Creates(c) THEN EmptySets ELSE log[txn[c].base].sets
<1>1. pc[c] = "write" /\ n \in Names
  <2>1. pc[c] = "write"
    BY DEF WriteAccepted
  <2> QED
    BY <2>1 DEF IInv, CallInv
<1>2. RV \in 1..RV /\ RV \in Nat /\ RV > 0 /\ Latest \in Secret
  BY DEF IInv, TypeOK, Latest
<1>3. /\ \A m \in Names : WellFormed(Latest.sets[m])
      /\ ~Latest.present => Latest.sets = EmptySets
  BY <1>2 DEF IInv, LogInv, Latest
<1>4. /\ IF Creates(c) THEN ~Latest.present ELSE Latest.present
      /\ from = Latest.sets
  BY <1>1, <1>3 DEF IInv, TxnInv, WriteAccepted, Latest
<1>5. \E type \in KnownTypes, mat \in 1..MaxKeys :
        txn[c].sets = EnsureKeySet(Latest.sets, n, type, mat)
  BY <1>1, <1>4 DEF IInv, TxnInv
<1> QED
  BY <1>1, <1>2, <1>3, <1>4, <1>5

\* A write the API server accepts: what the history becomes.
LEMMA WriteLemma ==
  ASSUME IInv, NEW c \in Callers, WriteAccepted(c), log' = WriteLog(c)
  PROVE  /\ LogGrows /\ LogInv' /\ RV' \in RV .. RV + 1
         /\ Latest'.present /\ HasActive(Decode(Latest'.sets[call[c].name]))
<1> DEFINE n == call[c].name
<1>1. /\ n \in Names /\ RV \in Nat /\ RV > 0 /\ Latest \in Secret
      /\ \A m \in Names : WellFormed(Latest.sets[m])
      /\ IF Creates(c) THEN ~Latest.present ELSE Latest.present
  BY PendingLemma
<1>3. PICK type \in KnownTypes, mat \in 1..MaxKeys :
        txn[c].sets = EnsureKeySet(Latest.sets, n, type, mat)
  BY PendingLemma
<1>4. /\ txn[c].sets \in [Names -> KeySetData]
      /\ \A m \in Names : WellFormed(txn[c].sets[m])
      /\ HasActive(Decode(txn[c].sets[n]))
      /\ \A m \in Names : Decode(Latest.sets[m]).keys \subseteq Decode(txn[c].sets[m]).keys
  <2> DEFINE old == Latest.sets
             new == txn[c].sets
  <2>1. mat \in Nat /\ old \in [Names -> KeySetData]
    BY <1>1 DEF Secret
  <2>2. \A m \in Names : WellFormed(old[m])
    BY <1>1
  <2>3. n \in Names /\ new = EnsureKeySet(old, n, type, mat)
    BY <1>1, <1>3
  <2> HIDE DEF old, new, n
  <2>4. /\ new \in [Names -> KeySetData]
        /\ \A m \in Names : WellFormed(new[m])
        /\ HasActive(Decode(new[n]))
        /\ \A m \in Names : Decode(old[m]).keys \subseteq Decode(new[m]).keys
    BY <2>1, <2>2, <2>3, EnsureLemma
  <2> QED
    BY <2>4 DEF old, new
<1>5. CASE ~Creates(c) /\ txn[c].sets = Latest.sets
  <2>1. log' = log
    BY <1>5 DEF WriteLog
  <2>2. Latest' = Latest
    BY <2>1, LogSame DEF Latest
  <2> QED
    BY <1>1, <1>4, <1>5, <2>1, <2>2, LogSame
<1>6. CASE ~(~Creates(c) /\ txn[c].sets = Latest.sets)
  <2> DEFINE new == [present |-> TRUE,
                     uid     |-> IF Creates(c) THEN Latest.uid + 1 ELSE Latest.uid,
                     sets    |-> txn[c].sets]
  <2>1. log' = Append(log, new)
    BY <1>6 DEF WriteLog
  <2>2. Latest.uid \in Nat
    BY <1>1 DEF Secret
  <2>3. /\ new.present = TRUE /\ new.sets = txn[c].sets /\ new \in Secret
        /\ Latest.uid <= new.uid /\ (new.uid = Latest.uid => ~Creates(c))
    BY <1>4, <2>2 DEF Secret
  <2> HIDE DEF new
  <2>4. Follows(new)
    BY <1>1, <1>4, <2>3 DEF Follows
  <2> QED
    BY <1>1, <1>4, <2>1, <2>3, <2>4, AppendLemma
<1> QED
  BY <1>5, <1>6

LEMMA WriteStep ==
  ASSUME IInv, NEW c \in Callers, WriteSecret(c) \/ WriteReplyLost(c)
  PROVE  IInv'
<1> USE DEF RV
<1>1. /\ WriteAccepted(c) /\ log' = WriteLog(c)
      /\ UNCHANGED <<nextMat, cache, watch, held, restarts>>
  BY DEF WriteSecret, WriteReplyLost
<1>2. /\ LogGrows /\ LogInv' /\ RV' \in RV .. RV + 1
      /\ Latest'.present /\ HasActive(Decode(Latest'.sets[call[c].name]))
  BY <1>1, WriteLemma
<1>3. /\ RV \in Nat /\ RV > 0 /\ RV' \in Nat /\ RV <= RV' /\ 0..RV \subseteq 0..RV'
      /\ log' \in Seq(Secret) /\ Latest' = log'[RV']
  BY <1>2 DEF IInv, TypeOK, LogGrows, Latest
<1>4. \A s \in Servers : CacheInv(s)' /\ WatchInv(s)'
  BY <1>1, <1>2, ServerStable
<1>5. HeldInv(c)'
  <2>1. held[c].rv \in 0..RV
    BY DEF IInv, TypeOK
  <2> QED
    BY <1>1, <1>2, <1>3, <2>1 DEF IInv, HeldInv, LogGrows
<1> DEFINE CallerTypes ==
             /\ pc' \in [Callers -> Locations]
             /\ call' \in [Callers -> [name : Names \cup {NoName}, type : KeyTypes]]
             /\ txn' \in [Callers -> [base : 0..RV', sets : [Names -> KeySetData]]]
             /\ wrote' \in [Callers -> 0..RV']
           Others == \A d \in Callers \ {c} :
                       /\ pc'[d] = pc[d] /\ call'[d] = call[d] /\ txn'[d] = txn[d]
                       /\ wrote'[d] = wrote[d]
<1>6. ASSUME WriteSecret(c) PROVE CallerTypes /\ TxnInv(c)' /\ CallInv(c)' /\ Others
  <2>1. /\ wrote' = [wrote EXCEPT ![c] = RV'] /\ txn' = [txn EXCEPT ![c] = NoTxn]
        /\ pc' = [pc EXCEPT ![c] = "apply"] /\ call' = call
    BY <1>6 DEF WriteSecret, Goto
  <2>2. EmptySets \in [Names -> KeySetData]
    BY DEF EmptySets, EmptyKeySet, KeySetData
  <2>3. call[c].name \in Names
    BY <1>1 DEF IInv, CallInv, WriteAccepted
  <2>4. /\ pc \in [Callers -> Locations] /\ wrote \in [Callers -> 0..RV]
        /\ call \in [Callers -> [name : Names \cup {NoName}, type : KeyTypes]]
        /\ txn \in [Callers -> [base : 0..RV, sets : [Names -> KeySetData]]]
    BY DEF IInv, TypeOK
  <2>5. CallerTypes /\ Others
    BY <1>3, <2>1, <2>2, <2>4 DEF Locations, NoTxn
  <2>6. pc'[c] = "apply" /\ wrote'[c] = RV'
    BY <2>1, <2>4
  <2>7. TxnInv(c)' /\ CallInv(c)'
    BY <1>2, <1>3, <2>1, <2>3, <2>6 DEF TxnInv, CallInv
  <2> QED
    BY <2>5, <2>7
<1>7. ASSUME WriteReplyLost(c) PROVE CallerTypes /\ TxnInv(c)' /\ CallInv(c)' /\ Others
  <2>1. Return(c)
    BY <1>7 DEF WriteReplyLost
  <2> QED
    BY <1>3, <2>1, ReturnLemma
<1>8. CallerTypes /\ TxnInv(c)' /\ CallInv(c)' /\ Others
  BY <1>6, <1>7
<1>9. \A d \in Callers : TxnInv(d)' /\ CallInv(d)' /\ HeldInv(d)'
  <2> SUFFICES ASSUME NEW d \in Callers \ {c} PROVE TxnInv(d)' /\ CallInv(d)' /\ HeldInv(d)'
    BY <1>5, <1>8
  <2>1. cache'[Home[d]].rv \in Nat /\ cache[Home[d]].rv <= cache'[Home[d]].rv
    BY <1>1, HomeAssumption DEF IInv, TypeOK
  <2> QED
    BY <1>1, <1>2, <1>8, <2>1, CallerStable
<1>10. TypeOK'
  BY <1>1, <1>3, <1>8 DEF IInv, TypeOK
<1> QED
  BY <1>2, <1>4, <1>9, <1>10 DEF IInv
LEMMA ApplyWriteStep ==
  ASSUME IInv, NEW c \in Callers, ApplyWrite(c)
  PROVE  IInv'
<1> USE DEF RV
<1> DEFINE s == Home[c]
<1>1. /\ pc[c] = "apply" /\ pc' = [pc EXCEPT ![c] = "reread"] /\ Observe(s, wrote[c])
      /\ UNCHANGED <<log, nextMat, watch, call, txn, wrote, held, restarts>>
  BY DEF ApplyWrite, Goto, OnUpdateSecret, apiVars
<1>2. s \in Servers /\ wrote[c] \in 1..RV /\ RV \in Nat
  <2>1. s \in Servers /\ RV \in Nat /\ wrote[c] \in 0..RV
    BY HomeAssumption DEF IInv, TypeOK
  <2>2. wrote[c] > 0
    BY <1>1 DEF IInv, CallInv
  <2> QED
    BY <2>1, <2>2
<1>3. LogGrows /\ LogInv' /\ RV' = RV
  BY <1>1, LogSame
<1>4. /\ cache' \in [Servers -> [rv : 0..RV, sets : [Names -> KeySetData]]]
      /\ \A t \in Servers : cache[t].rv <= cache'[t].rv /\ CacheInv(t)'
      /\ \A t \in Servers \ {s} : cache'[t] = cache[t]
      /\ wrote[c] <= cache'[s].rv
  BY <1>1, <1>2, ObserveLemma
<1>5. \A t \in Servers : cache'[t].rv \in Nat /\ cache[t].rv \in Nat
  BY <1>4 DEF IInv, TypeOK
<1>6. \A t \in Servers : CacheInv(t)' /\ WatchInv(t)'
  <2> SUFFICES ASSUME NEW t \in Servers PROVE WatchInv(t)'
    BY <1>4
  <2>1. watch[t].pos \in Nat
    BY DEF IInv, TypeOK
  <2> QED
    BY <1>1, <1>4, <1>5, <2>1 DEF IInv, WatchInv
<1>7. \A d \in Callers : TxnInv(d)' /\ CallInv(d)' /\ HeldInv(d)'
  <2> TAKE d \in Callers
  <2>1. Home[d] \in Servers
    BY HomeAssumption
  <2>2. CASE d # c
    <3>1. pc'[d] = pc[d]
      BY <1>1, <2>2 DEF IInv, TypeOK
    <3> QED
      BY <1>1, <1>3, <1>4, <1>5, <2>1, <3>1, CallerStable
  <2>3. CASE d = c
    <3>1. pc'[c] = "reread"
      BY <1>1 DEF IInv, TypeOK
    <3>2. TxnInv(c)'
      BY <3>1 DEF TxnInv
    <3>3. CallInv(c)'
      BY <1>1, <1>4, <3>1 DEF IInv, CallInv
    <3>4. HeldInv(c)'
      <4>1. held[c].rv \in Nat /\ HeldInv(c)
        BY DEF IInv, TypeOK
      <4> QED
        BY <1>1, <1>2, <1>4, <1>5, <4>1 DEF HeldInv
    <3> QED
      BY <2>3, <3>2, <3>3, <3>4
  <2> QED
    BY <2>2, <2>3
<1>8. TypeOK'
  BY <1>1, <1>3, <1>4 DEF IInv, TypeOK, Locations
<1> QED
  BY <1>3, <1>6, <1>7, <1>8 DEF IInv

\* The steps of WatchForever.
LEMMA WatchStepLemma ==
  ASSUME IInv, NEW s \in Servers, WatchStep(s)
  PROVE  IInv'
<1> USE DEF RV
<1>1. UNCHANGED <<log, nextMat, pc, call, txn, wrote, held, restarts>>
  BY DEF WatchStep, ListSecret, ApplyList, WatchEvent, WatchBreaks, WatchRetries,
         apiVars, callerVars
<1>2. LogGrows /\ LogInv' /\ RV' = RV /\ RV \in Nat /\ RV > 0
  BY <1>1, LogSame DEF IInv, TypeOK
<1>3. /\ watch \in [Servers -> [pc  : {"off", "list", "listed", "stream", "sleep"},
                                pos : 0..RV]]
      /\ \A t \in Servers : CacheInv(t) /\ WatchInv(t)
  BY DEF IInv, TypeOK
<1> DEFINE Moved ==
             /\ cache' \in [Servers -> [rv : 0..RV, sets : [Names -> KeySetData]]]
             /\ \A t \in Servers : cache[t].rv <= cache'[t].rv /\ CacheInv(t)'
             /\ \A t \in Servers \ {s} : cache'[t] = cache[t]
<1>4. (cache' = cache) => Moved
  BY <1>1 DEF IInv, TypeOK, CacheInv
<1>5. ASSUME ListSecret(s) \/ WatchBreaks(s) \/ WatchRetries(s)
      PROVE  /\ Moved /\ WatchInv(s)'
             /\ \E l \in {"list", "listed", "sleep"}, pos \in 0..RV : WatchGoto(s, l, pos)
  <2>1. cache' = cache
    BY <1>5 DEF ListSecret, WatchBreaks, WatchRetries
  <2>2. /\ \E l \in {"list", "listed", "sleep"}, pos \in 0..RV : WatchGoto(s, l, pos)
        /\ ListSecret(s) => WatchGoto(s, "listed", RV)
        /\ ~ListSecret(s) => \E l \in {"list", "sleep"} : WatchGoto(s, l, 0)
    BY <1>2, <1>5 DEF ListSecret, WatchBreaks, WatchRetries
  <2>3. WatchInv(s)'
    BY <1>2, <1>3, <2>2 DEF WatchInv, WatchGoto
  <2> QED
    BY <1>4, <2>1, <2>2, <2>3
<1>6. ASSUME ApplyList(s)
      PROVE  Moved /\ WatchInv(s)' /\ \E pos \in 0..RV : WatchGoto(s, "stream", pos)
  <2> DEFINE pos == watch[s].pos
  <2>1. pos \in 1..RV /\ WatchGoto(s, "stream", pos)
    BY <1>2, <1>3, <1>6 DEF ApplyList, WatchInv
  <2>2. watch'[s] = [pc |-> "stream", pos |-> pos]
    BY <1>3, <2>1 DEF WatchGoto
  <2>3. CASE log[pos].present
    <3>1. Observe(s, pos)
      BY <1>6, <2>3 DEF ApplyList, OnUpdateSecret
    <3>2. Moved /\ pos <= cache'[s].rv
      BY <1>1, <2>1, <3>1, ObserveLemma
    <3>3. cache'[s].rv \in Nat
      BY <1>2, <3>2
    <3> QED
      BY <2>1, <2>2, <3>2, <3>3 DEF WatchInv
  <2>4. CASE ~log[pos].present
    <3>1. cache' = cache
      BY <1>6, <2>4 DEF ApplyList
    <3> QED
      BY <1>1, <1>4, <2>1, <2>2, <2>4, <3>1 DEF WatchInv
  <2> QED
    BY <2>3, <2>4
<1>7. ASSUME WatchEvent(s)
      PROVE  Moved /\ WatchInv(s)' /\ \E pos \in 0..RV : WatchGoto(s, "stream", pos)
  <2> DEFINE pos == watch[s].pos + 1
  <2>1. pos \in 1..RV /\ WatchGoto(s, "stream", pos) /\ Observe(s, pos)
    BY <1>2, <1>3, <1>7 DEF WatchEvent, OnUpdateSecret, OnDeleteSecret
  <2>2. watch'[s] = [pc |-> "stream", pos |-> pos]
    BY <1>3, <2>1 DEF WatchGoto
  <2>3. Moved /\ pos <= cache'[s].rv
    BY <1>1, <2>1, ObserveLemma
  <2>4. cache'[s].rv \in Nat
    BY <1>2, <2>3
  <2> QED
    BY <2>1, <2>2, <2>3, <2>4 DEF WatchInv
<1>8. /\ Moved /\ WatchInv(s)'
      /\ \E l \in {"list", "listed", "stream", "sleep"}, pos \in 0..RV : WatchGoto(s, l, pos)
  BY <1>5, <1>6, <1>7 DEF WatchStep
<1>9. /\ watch' \in [Servers -> [pc  : {"off", "list", "listed", "stream", "sleep"},
                                 pos : 0..RV]]
      /\ \A t \in Servers \ {s} : watch'[t] = watch[t]
  BY <1>3, <1>8 DEF WatchGoto
<1>10. \A t \in Servers : CacheInv(t)' /\ WatchInv(t)'
  BY <1>2, <1>8, <1>9, ServerStable
<1>11. \A d \in Callers : TxnInv(d)' /\ CallInv(d)' /\ HeldInv(d)'
  <2> TAKE d \in Callers
  <2>1. Home[d] \in Servers
    BY HomeAssumption
  <2>2. cache'[Home[d]].rv \in Nat /\ cache[Home[d]].rv <= cache'[Home[d]].rv
    BY <1>2, <1>8, <2>1
  <2> QED
    BY <1>1, <1>2, <2>2, CallerStable
<1>12. TypeOK'
  BY <1>1, <1>2, <1>8, <1>9 DEF IInv, TypeOK
<1> QED
  BY <1>2, <1>10, <1>11, <1>12 DEF IInv
LEMMA RestartStep ==
  ASSUME IInv, NEW s \in Servers, Restart(s)
  PROVE  IInv'
<1> USE DEF RV
<1> DEFINE mine == {c \in Callers : Home[c] = s}
<1>1. /\ UNCHANGED <<log, nextMat>> /\ restarts' = restarts + 1
      /\ cache' = [cache EXCEPT ![s] = NewCache]
      /\ watch' = [watch EXCEPT ![s] = NewWatch(s)]
      /\ pc' = [c \in Callers |-> IF c \in mine THEN "idle" ELSE pc[c]]
      /\ call' = [c \in Callers |-> IF c \in mine THEN NoCall ELSE call[c]]
      /\ txn' = [c \in Callers |-> IF c \in mine THEN NoTxn ELSE txn[c]]
      /\ wrote' = [c \in Callers |-> IF c \in mine THEN 0 ELSE wrote[c]]
      /\ held' = [c \in Callers |-> IF c \in mine THEN NoHeld ELSE held[c]]
  BY DEF Restart, apiVars
<1>2. LogGrows /\ LogInv' /\ RV' = RV /\ RV \in Nat
  BY <1>1, LogSame DEF IInv, TypeOK
<1>3. EmptySets \in [Names -> KeySetData] /\ EmptyKeySet \in KeySetData
  BY DEF EmptySets, EmptyKeySet, KeySetData
<1>4. TypeOK'
  BY <1>1, <1>2, <1>3 DEF IInv, TypeOK, NewCache, NewWatch, NoCall, NoTxn, NoHeld,
                          Locations, KeyTypes, KnownTypes
<1>5. \A t \in Servers : CacheInv(t)' /\ WatchInv(t)'
  <2> TAKE t \in Servers
  <2>1. CASE t # s
    BY <1>1, <1>2, <2>1, ServerStable DEF IInv, TypeOK
  <2>2. CASE t = s
    <3>1. cache'[t] = NewCache /\ watch'[t] = NewWatch(s)
      BY <1>1, <2>2 DEF IInv, TypeOK
    <3> QED
      BY <3>1 DEF CacheInv, WatchInv, NewCache, NewWatch
  <2> QED
    BY <2>1, <2>2
<1>6. \A c \in Callers : TxnInv(c)' /\ CallInv(c)' /\ HeldInv(c)'
  <2> TAKE c \in Callers
  <2>1. CASE c \in mine
    BY <1>1, <2>1 DEF TxnInv, CallInv, HeldInv, NoHeld
  <2>2. CASE c \notin mine
    <3>1. Home[c] \in Servers \ {s}
      BY <2>2, HomeAssumption
    <3>2. cache'[Home[c]] = cache[Home[c]] /\ cache[Home[c]].rv \in Nat
      BY <1>1, <1>2, <3>1 DEF IInv, TypeOK
    <3>3. cache'[Home[c]].rv \in Nat /\ cache[Home[c]].rv <= cache'[Home[c]].rv
      BY <3>2
    <3>4. /\ pc'[c] = pc[c] /\ call'[c] = call[c] /\ txn'[c] = txn[c]
          /\ wrote'[c] = wrote[c] /\ held'[c] = held[c]
      BY <1>1, <2>2
    <3> QED
      BY <1>2, <3>3, <3>4, CallerStable
  <2> QED
    BY <2>1, <2>2
<1> QED
  BY <1>2, <1>4, <1>5, <1>6 DEF IInv

\* The steps of administrators and of other releases.
LEMMA AdministratorStep ==
  ASSUME IInv, Administrator
  PROVE  IInv'
<1> USE DEF RV
<1>1. /\ UNCHANGED <<cache, watch, pc, call, txn, wrote, held, restarts>>
      /\ nextMat' \in {nextMat, nextMat + 1}
  BY DEF Administrator, RetireActive, StoreUnknown, DeleteSecret, callerVars
<1>2. /\ RV \in Nat /\ RV > 0 /\ Latest \in Secret /\ Latest.uid \in Nat
      /\ \A n \in Names : WellFormed(Latest.sets[n])
      /\ nextMat \in Nat \ {0}
  <2>1. RV \in 1..RV /\ RV \in Nat /\ RV > 0 /\ Latest \in Secret /\ nextMat \in Nat \ {0}
    BY DEF IInv, TypeOK, Latest
  <2> QED
    BY <2>1 DEF IInv, LogInv, Latest, Secret
<1>3. ASSUME NEW n \in Names, NEW ks \in KeySetData, WellFormed(ks), Latest.present,
             Latest.sets[n].keys \subseteq ks.keys
      PROVE  Follows([Latest EXCEPT !.sets[n] = ks])
  <2> DEFINE new == [Latest EXCEPT !.sets[n] = ks]
  <2>1. /\ new.present /\ new.present = Latest.present /\ new.uid = Latest.uid
        /\ new.sets = [Latest.sets EXCEPT ![n] = ks] /\ new \in Secret
    BY <1>2, <1>3 DEF Secret
  <2>2. /\ new.sets[n] = ks
        /\ \A m \in Names \ {n} : new.sets[m] = Latest.sets[m]
    BY <1>2, <2>1 DEF Secret
  <2> HIDE DEF new
  <2>3. \A m \in Names : WellFormed(new.sets[m])
    BY <1>2, <1>3, <2>2
  <2>4. \A m \in Names : Decode(Latest.sets[m]).keys \subseteq Decode(new.sets[m]).keys
    <3>1. Latest.sets[n] \in KeySetData
      BY <1>2 DEF Secret
    <3>2. Decode(Latest.sets[n]).keys \subseteq Decode(ks).keys
      BY <1>3, <3>1 DEF Decode, KeySetData
    <3> QED
      BY <2>2, <3>2
  <2>5. Follows(new)
    BY <1>2, <1>3, <2>1, <2>3, <2>4 DEF Follows
  <2> QED
    BY <2>5 DEF new
<1>4. \E new : Follows(new) /\ log' = Append(log, new)
  <2>1. ASSUME NEW n \in Names, RetireActive(n)
        PROVE  \E new : Follows(new) /\ log' = Append(log, new)
    <3> DEFINE old == Latest.sets[n]
               ks == [old EXCEPT !.active = 0]
    <3>1. old \in KeySetData /\ WellFormed(old)
      BY <1>2 DEF Secret
    <3>2. ks \in KeySetData /\ WellFormed(ks) /\ old.keys \subseteq ks.keys
      BY <3>1 DEF KeySetData, WellFormed, Ids
    <3>3. [Latest EXCEPT !.sets[n].active = 0] = [Latest EXCEPT !.sets[n] = ks]
      BY <1>2 DEF Secret
    <3>4. Latest.present /\ log' = Append(log, [Latest EXCEPT !.sets[n] = ks])
      BY <2>1, <3>3 DEF RetireActive
    <3> QED
      BY <1>3, <3>2, <3>4
  <2>2. ASSUME NEW n \in Names, StoreUnknown(n)
        PROVE  \E new : Follows(new) /\ log' = Append(log, new)
    <3> DEFINE ks == AddKey(Latest.sets[n], "UNKNOWN", nextMat)
    <3>1. Latest.sets[n] \in KeySetData /\ WellFormed(Latest.sets[n]) /\ "UNKNOWN" \in KeyTypes
      BY <1>2 DEF Secret, KeyTypes
    <3>2. ks \in KeySetData /\ WellFormed(ks) /\ Latest.sets[n].keys \subseteq ks.keys
      BY <1>2, <3>1, AddKeyLemma
    <3>3. Latest.present /\ log' = Append(log, [Latest EXCEPT !.sets[n] = ks])
      BY <2>2 DEF StoreUnknown
    <3> HIDE DEF ks
    <3> QED
      BY <1>3, <3>2, <3>3
  <2>3. ASSUME DeleteSecret
        PROVE  \E new : Follows(new) /\ log' = Append(log, new)
    <3> DEFINE new == [Latest EXCEPT !.present = FALSE, !.sets = EmptySets]
    <3>1. EmptySets \in [Names -> KeySetData]
      BY DEF EmptySets, EmptyKeySet, KeySetData
    <3>2. /\ new \in Secret /\ ~new.present /\ new.sets = EmptySets /\ new.uid = Latest.uid
      BY <1>2, <3>1 DEF Secret
    <3>3. \A n \in Names : WellFormed(EmptySets[n])
      <4>1. ASSUME NEW n \in Names, NEW T \in SUBSET ({0} \cup Ids(EmptySets[n])), T # {}
            PROVE  \E m \in T : \A i \in T : i <= m
        <5>1. T = {0}
          BY <4>1 DEF EmptySets, EmptyKeySet, Ids
        <5> QED
          BY <5>1
      <4> QED
        BY <4>1 DEF EmptySets, EmptyKeySet, WellFormed
    <3>4. log' = Append(log, new)
      BY <2>3 DEF DeleteSecret
    <3> HIDE DEF new
    <3>5. Follows(new)
      BY <1>2, <3>2, <3>3 DEF Follows
    <3> QED
      BY <3>4, <3>5
  <2> QED
    BY <2>1, <2>2, <2>3 DEF Administrator
<1>5. LogGrows /\ LogInv' /\ RV' = RV + 1
  BY <1>4, AppendLemma
<1>6. TypeOK'
  BY <1>1, <1>2, <1>5 DEF IInv, TypeOK, LogGrows
<1>7. \A s \in Servers : CacheInv(s)' /\ WatchInv(s)'
  BY <1>1, <1>5, ServerStable
<1>8. \A c \in Callers : TxnInv(c)' /\ CallInv(c)' /\ HeldInv(c)'
  <2> TAKE c \in Callers
  <2>1. Home[c] \in Servers
    BY HomeAssumption
  <2>2. cache'[Home[c]].rv \in Nat /\ cache[Home[c]].rv <= cache'[Home[c]].rv
    BY <1>1, <2>1 DEF IInv, TypeOK
  <2> QED
    BY <1>1, <1>5, <2>2, CallerStable
<1> QED
  BY <1>5, <1>6, <1>7, <1>8 DEF IInv

LEMMA StutterStep ==
  ASSUME IInv, UNCHANGED vars
  PROVE  IInv'
<1>1. UNCHANGED <<log, nextMat, cache, watch, pc, call, txn, wrote, held, restarts>>
  BY DEF vars, apiVars, callerVars
<1>2. LogGrows /\ LogInv' /\ RV' = RV
  BY <1>1, LogSame
<1>3. \A s \in Servers : CacheInv(s)' /\ WatchInv(s)'
  BY <1>1, <1>2, ServerStable
<1>4. \A c \in Callers : TxnInv(c)' /\ CallInv(c)' /\ HeldInv(c)'
  <2> TAKE c \in Callers
  <2>1. Home[c] \in Servers
    BY HomeAssumption
  <2>2. cache'[Home[c]].rv \in Nat /\ cache[Home[c]].rv <= cache'[Home[c]].rv
    BY <1>1, <2>1 DEF IInv, TypeOK
  <2> QED
    BY <1>1, <1>2, <2>2, CallerStable
<1>5. TypeOK'
  BY <1>1, <1>2 DEF IInv, TypeOK
<1> QED
  BY <1>2, <1>3, <1>4, <1>5 DEF IInv

LEMMA NextIInv == IInv /\ [Next]_vars => IInv'
<1> SUFFICES ASSUME IInv, [Next]_vars PROVE IInv'
  OBVIOUS
<1>1. ASSUME NEW c \in Callers, KeySetHit(c) \/ KeySetMiss(c) \/ CallerStep(c) PROVE IInv'
  BY <1>1, LocalCallerStep, GetAndMutateStep, WriteStep, ApplyWriteStep DEF CallerStep
<1>2. ASSUME NEW s \in Servers, WatchStep(s) \/ Restart(s) PROVE IInv'
  BY <1>2, WatchStepLemma, RestartStep
<1>3. CASE Administrator
  BY <1>3, AdministratorStep
<1>4. CASE UNCHANGED vars
  BY <1>4, StutterStep
<1> QED
  BY <1>1, <1>2, <1>3, <1>4 DEF Next

\* Every reachable state satisfies the inductive invariant.
THEOREM Inductive == Spec => []IInv
BY InitIInv, NextIInv, PTL DEF Spec
-----------------------------------------------------------------------------
(* What follows from it.                                                      *)

LEMMA InvariantsFollow ==
  IInv => /\ TypeOK /\ CacheIsVersion /\ KeyAgreement /\ LaterHoldersVerify
          /\ MissingOnlyIfTakenAway /\ BehindOnlyOnMissedDelete
<1> SUFFICES ASSUME IInv
             PROVE  /\ CacheIsVersion /\ KeyAgreement /\ LaterHoldersVerify
                    /\ MissingOnlyIfTakenAway /\ BehindOnlyOnMissedDelete
  BY DEF IInv
<1> USE DEF RV
<1>1. CacheIsVersion /\ MissingOnlyIfTakenAway /\ BehindOnlyOnMissedDelete
  BY DEF IInv, CacheIsVersion, MissingOnlyIfTakenAway, BehindOnlyOnMissedDelete,
         CacheInv, CallInv, WatchInv
\* Of two versions with one uid, the later one has the keys of the earlier one,
\* unless the secret is gone by then.
<1>2. ASSUME NEW v \in 1..RV, NEW w \in 1..RV, v <= w, log[v].uid = log[w].uid,
             NEW n \in Names,
             NEW k \in Decode(log[v].sets[n]).keys, NEW l \in Decode(log[w].sets[n]).keys
      PROVE  log[v].present /\ log[w].present /\ k \in Decode(log[w].sets[n]).keys
  <2>1. log[v].present /\ log[w].present
    BY <1>2 DEF IInv, LogInv, EmptySets, EmptyKeySet, Decode
  <2> QED
    BY <1>2, <2>1 DEF IInv, LogInv
<1>3. ASSUME NEW v \in 1..RV, NEW w \in 1..RV, v <= w, log[v].uid = log[w].uid,
             NEW n \in Names,
             NEW k \in Decode(log[v].sets[n]).keys, NEW l \in Decode(log[w].sets[n]).keys,
             k.id = l.id
      PROVE  k = l
  <2>1. k \in Decode(log[w].sets[n]).keys
    BY <1>2, <1>3
  <2>2. log[w].sets[n] \in KeySetData /\ WellFormed(log[w].sets[n])
    <3>1. log[w] \in Secret
      BY DEF IInv, TypeOK
    <3> QED
      BY <3>1 DEF IInv, LogInv, Secret
  <2>3. WellFormed(Decode(log[w].sets[n]))
    BY <2>2, DecodeLemma
  <2> QED
    BY <1>3, <2>1, <2>3 DEF WellFormed
<1>4. KeyAgreement
  <2> SUFFICES ASSUME NEW s \in Servers, NEW t \in Servers, NEW n \in Names,
                      cache[s].rv > 0, cache[t].rv > 0,
                      log[cache[s].rv].uid = log[cache[t].rv].uid,
                      NEW k \in cache[s].sets[n].keys, NEW l \in cache[t].sets[n].keys,
                      k.id = l.id
               PROVE  k = l
    BY DEF KeyAgreement
  <2>1. /\ cache[s].rv \in 1..RV /\ cache[s].sets[n] = Decode(log[cache[s].rv].sets[n])
        /\ cache[t].rv \in 1..RV /\ cache[t].sets[n] = Decode(log[cache[t].rv].sets[n])
    <3>1. \A u \in Servers : cache[u].rv > 0 =>
            cache[u].rv \in 1..RV /\ cache[u].sets[n] = Decode(log[cache[u].rv].sets[n])
      <4> SUFFICES ASSUME NEW u \in Servers, cache[u].rv > 0
                   PROVE  /\ cache[u].rv \in 1..RV
                          /\ cache[u].sets[n] = Decode(log[cache[u].rv].sets[n])
        OBVIOUS
      <4>1. cache[u].rv \in 0..RV /\ RV \in Nat
        BY DEF IInv, TypeOK
      <4>2. cache[u].sets = DecodeSecret(log[cache[u].rv].sets)
        BY <4>1 DEF IInv, CacheInv
      <4> QED
        BY <4>1, <4>2 DEF DecodeSecret
    <3> QED
      BY <3>1
  <2>2. cache[s].rv <= cache[t].rv \/ cache[t].rv <= cache[s].rv
    BY <2>1
  <2> QED
    BY <1>3, <2>1, <2>2
<1>5. LaterHoldersVerify
  <2> SUFFICES ASSUME NEW c \in Callers, NEW d \in Callers,
                      0 < held[c].rv, held[c].rv <= held[d].rv,
                      log[held[c].rv].uid = log[held[d].rv].uid,
                      held[c].name = held[d].name
               PROVE  ActiveKeyOf(held[c].ks) \in held[d].ks.keys
    BY DEF LaterHoldersVerify
  <2> DEFINE n == held[c].name
  <2>1. held[c].rv \in 1..RV /\ held[d].rv \in 1..RV
    BY DEF IInv, TypeOK
  <2>2. /\ n \in Names /\ HasActive(held[c].ks) /\ HasActive(held[d].ks)
        /\ held[c].ks = Decode(log[held[c].rv].sets[n])
        /\ held[d].ks = Decode(log[held[d].rv].sets[n])
    BY <2>1 DEF IInv, HeldInv
  <2>3. ActiveKeyOf(held[c].ks) \in held[c].ks.keys
    BY <2>2 DEF HasActive, ActiveKeyOf
  <2>4. PICK l : l \in held[d].ks.keys
    BY <2>2 DEF HasActive
  <2> DEFINE v == held[c].rv
             w == held[d].rv
             k == ActiveKeyOf(held[c].ks)
  <2>5. /\ v \in 1..RV /\ w \in 1..RV /\ v <= w /\ log[v].uid = log[w].uid /\ n \in Names
        /\ k \in Decode(log[v].sets[n]).keys /\ l \in Decode(log[w].sets[n]).keys
    BY <2>1, <2>2, <2>3, <2>4
  <2>6. held[d].ks = Decode(log[w].sets[n])
    BY <2>2
  <2> HIDE DEF v, w, k, n
  <2>7. k \in Decode(log[w].sets[n]).keys
    BY <1>2, <2>5
  <2> QED
    BY <2>6, <2>7 DEF k
<1> QED
  BY <1>1, <1>4, <1>5

\* Type correctness: every variable keeps its type, the resource versions held
\* anywhere are versions the secret has had.
THEOREM TypeCorrect == Spec => []TypeOK
BY Inductive, InvariantsFollow, PTL

\* A cache is never a mixture of versions (onUpdateSecret, onDeleteSecret).
THEOREM CacheCorrect == Spec => []CacheIsVersion
BY Inductive, InvariantsFollow, PTL

\* No two servers hold different keys under one id (ensureKeySet, mutateSecret).
THEOREM KeysAgree == Spec => []KeyAgreement
BY Inductive, InvariantsFollow, PTL

\* A keyset handed out later can verify what an earlier one signs (KeySet).
THEOREM HoldersVerify == Spec => []LaterHoldersVerify
BY Inductive, InvariantsFollow, PTL

\* "created key was not found" is somebody else's doing (KeySet).
THEOREM MissingExplained == Spec => []MissingOnlyIfTakenAway
BY Inductive, InvariantsFollow, PTL

\* Only a missed deletion leaves a cache behind its watch (watchOnce).
THEOREM BehindExplained == Spec => []BehindOnlyOnMissedDelete
BY Inductive, InvariantsFollow, PTL

-----------------------------------------------------------------------------
(* The refinement.                                                            *)

LEMMA InitRefines == Init => Registry!Init
BY DEF Init, Registry!Init, Latest, RV, EmptySets, Registry!EmptySets, EmptyKeySet,
       Registry!EmptyKeySet

\* The registry's operators on keysets are those of the servers.
LEMMA SameOperators ==
  /\ \A sets, n, type, mat :
       Registry!EnsureKeySet(sets, n, type, mat) = EnsureKeySet(sets, n, type, mat)
  /\ \A ks, type, mat : Registry!AddKey(ks, type, mat) = AddKey(ks, type, mat)
  /\ Registry!KnownTypes = KnownTypes
  /\ Registry!EmptySets = EmptySets
BY DEF Registry!EnsureKeySet, EnsureKeySet, Registry!AddKey, AddKey, Registry!MaxId, MaxId,
       Registry!Max, Max, Registry!Ids, Ids, Registry!Decode, Decode, Registry!HasActive,
       HasActive, Registry!KnownTypes, KnownTypes, Registry!EmptySets, EmptySets,
       Registry!EmptyKeySet, EmptyKeySet

LEMMA NextRefines == IInv /\ IInv' /\ [Next]_vars => [Registry!Next]_Latest
<1> SUFFICES ASSUME IInv, [Next]_vars PROVE [Registry!Next]_Latest
  OBVIOUS
<1>0. RV \in Nat /\ RV > 0 /\ log \in Seq(Secret) /\ Latest \in Secret
  BY DEF IInv, TypeOK, RV, Latest
<1>1. ASSUME UNCHANGED log PROVE UNCHANGED Latest
  BY <1>1 DEF Latest, RV
<1>2. ASSUME NEW new \in Secret, log' = Append(log, new) PROVE Latest' = new
  BY <1>0, <1>2 DEF Latest, RV
<1>3. ASSUME NEW c \in Callers, WriteAccepted(c), log' = WriteLog(c)
      PROVE  [Registry!Next]_Latest
  <2>1. CASE ~Creates(c) /\ txn[c].sets = Latest.sets
    BY <1>1, <1>3, <2>1 DEF WriteLog
  <2>2. CASE ~(~Creates(c) /\ txn[c].sets = Latest.sets)
    <3> DEFINE n == call[c].name
               new == [present |-> TRUE,
                       uid     |-> IF Creates(c) THEN Latest.uid + 1 ELSE Latest.uid,
                       sets    |-> txn[c].sets]
    <3>1. n \in Names /\ IF Creates(c) THEN ~Latest.present ELSE Latest.present
      BY <1>3, PendingLemma
    <3>2. PICK type \in KnownTypes, mat \in 1..MaxKeys :
            txn[c].sets = EnsureKeySet(Latest.sets, n, type, mat)
      BY <1>3, PendingLemma
    <3>3. new \in Secret
      <4>1. txn[c].sets \in [Names -> KeySetData]
        BY DEF IInv, TypeOK
      <4> QED
        BY <1>0, <4>1 DEF Secret
    <3>4. Latest' = new
      BY <1>2, <1>3, <2>2, <3>3 DEF WriteLog
    <3>5. Registry!Ensure(n, type, mat)
      BY <3>1, <3>2, <3>4, SameOperators DEF Registry!Ensure
    <3> QED
      BY <3>1, <3>5, SameOperators DEF Registry!Next
  <2> QED
    BY <2>1, <2>2
<1>4. ASSUME NEW n \in Names, RetireActive(n) PROVE Registry!Next
  <2> DEFINE new == [Latest EXCEPT !.sets[n].active = 0]
  <2>1. new \in Secret
    BY <1>0 DEF Secret, KeySetData
  <2>2. Latest' = new /\ Latest.present
    BY <1>2, <1>4, <2>1 DEF RetireActive
  <2>3. Registry!Retire(n)
    BY <2>2 DEF Registry!Retire
  <2> QED
    BY <2>3 DEF Registry!Next
<1>5. ASSUME NEW n \in Names, StoreUnknown(n) PROVE Registry!Next
  <2> DEFINE ks == AddKey(Latest.sets[n], "UNKNOWN", nextMat)
             new == [Latest EXCEPT !.sets[n] = AddKey(@, "UNKNOWN", nextMat)]
  <2>1. /\ Latest.sets[n] \in KeySetData /\ WellFormed(Latest.sets[n])
        /\ "UNKNOWN" \in KeyTypes /\ nextMat \in 1..MaxKeys
    BY <1>0, <1>5, BoundsAssumption
       DEF IInv, TypeOK, LogInv, Latest, Secret, KeyTypes, StoreUnknown
  <2>2. ks \in KeySetData
    BY <2>1, AddKeyLemma
  <2>3. new = [Latest EXCEPT !.sets[n] = ks]
    BY <1>0 DEF Secret
  <2>4. new \in Secret
    BY <1>0, <2>2, <2>3 DEF Secret
  <2>5. Latest' = new /\ Latest.present
    BY <1>2, <1>5, <2>4 DEF StoreUnknown
  <2>6. Registry!StoreUnknown(n, nextMat)
    BY <2>5, SameOperators DEF Registry!StoreUnknown
  <2> QED
    BY <2>1, <2>6 DEF Registry!Next
<1>6. ASSUME DeleteSecret PROVE Registry!Next
  <2> DEFINE new == [Latest EXCEPT !.present = FALSE, !.sets = EmptySets]
  <2>1. new \in Secret
    BY <1>0 DEF Secret, EmptySets, EmptyKeySet, KeySetData
  <2>2. Latest' = new /\ Latest.present
    BY <1>2, <1>6, <2>1 DEF DeleteSecret
  <2>3. Registry!Delete
    BY <2>2, SameOperators DEF Registry!Delete
  <2> QED
    BY <2>3 DEF Registry!Next
<1>7. ASSUME NEW c \in Callers, KeySetHit(c) \/ KeySetMiss(c) \/ CallerStep(c)
      PROVE  [Registry!Next]_Latest
  <2>1. UNCHANGED log \/ (WriteAccepted(c) /\ log' = WriteLog(c))
    BY <1>7 DEF KeySetHit, KeySetMiss, CallerStep, GetAndMutate, GetFails, WriteSecret,
                WriteReplyLost, WriteFails, ApplyWrite, RereadFound, RereadMissing, apiVars
  <2> QED
    BY <1>1, <1>3, <2>1
<1>8. ASSUME NEW s \in Servers, WatchStep(s) \/ Restart(s) PROVE UNCHANGED log
  BY <1>8 DEF WatchStep, ListSecret, ApplyList, WatchEvent, WatchBreaks, WatchRetries,
              Restart, apiVars
<1>9. CASE UNCHANGED vars
  BY <1>1, <1>9 DEF vars, apiVars
<1> QED
  BY <1>1, <1>4, <1>5, <1>6, <1>7, <1>8, <1>9 DEF Next, Administrator

\* Any number of servers that read, edit and conditionally write the secret
\* implement a registry in which ensureKeySet is one atomic step.
THEOREM Refinement == Spec => RegistrySpec
<1>1. Spec => Registry!Init /\ [][Registry!Next]_Latest
  BY InitRefines, NextRefines, Inductive, PTL DEF Spec
<1> QED
  BY <1>1 DEF RegistrySpec, Registry!Spec
-----------------------------------------------------------------------------
(* The action properties.                                                     *)

LEMMA NextSurvives ==
  IInv /\ [Registry!Next]_Latest =>
    ((Latest.present /\ Latest'.present) =>
       \A n \in Names :
         Decode(Latest.sets[n]).keys \subseteq Decode(Latest'.sets[n]).keys)
<1> SUFFICES ASSUME IInv, [Registry!Next]_Latest, Latest.present, Latest'.present,
                    NEW m \in Names
             PROVE  Decode(Latest.sets[m]).keys \subseteq Decode(Latest'.sets[m]).keys
  OBVIOUS
<1> DEFINE old == Latest.sets
           new == Latest'.sets
<1>0. Latest \in Secret
  BY DEF IInv, TypeOK, Latest, RV
<1>1. old \in [Names -> KeySetData] /\ \A n \in Names : WellFormed(old[n])
  <2>1. RV \in 1..RV
    BY DEF IInv, TypeOK, RV
  <2> QED
    BY <1>0, <2>1 DEF IInv, LogInv, Latest, Secret
<1>2. ASSUME NEW n \in Names, NEW type \in KnownTypes, NEW mat \in 1..MaxKeys,
             Registry!Ensure(n, type, mat)
      PROVE  Decode(old[m]).keys \subseteq Decode(new[m]).keys
  <2>1. new = EnsureKeySet(old, n, type, mat)
    BY <1>2, SameOperators DEF Registry!Ensure
  <2>2. mat \in Nat
    OBVIOUS
  <2> HIDE DEF old, new
  <2> QED
    BY <1>1, <2>1, <2>2, EnsureLemma
<1>3. ASSUME NEW n \in Names, Registry!Retire(n)
      PROVE  Decode(old[m]).keys \subseteq Decode(new[m]).keys
  <2>1. new = [old EXCEPT ![n].active = 0]
    BY <1>0, <1>3 DEF Registry!Retire, Secret
  <2>2. new[m].keys = old[m].keys
    BY <1>1, <2>1 DEF KeySetData
  <2> QED
    BY <1>1, <2>1, <2>2 DEF Decode, KeySetData
<1>4. ASSUME NEW n \in Names, NEW mat \in 1..MaxKeys, Registry!StoreUnknown(n, mat)
      PROVE  Decode(old[m]).keys \subseteq Decode(new[m]).keys
  <2> DEFINE ks == AddKey(old[n], "UNKNOWN", mat)
  <2>1. new = [old EXCEPT ![n] = ks]
    <3>1. Latest' = [Latest EXCEPT !.sets[n] = AddKey(@, "UNKNOWN", mat)]
      BY <1>4, SameOperators DEF Registry!StoreUnknown
    <3> QED
      BY <1>0, <3>1 DEF Secret
  <2>2. ks \in KeySetData /\ old[n].keys \subseteq ks.keys
    BY <1>1, AddKeyLemma DEF KeyTypes
  <2>3. new[m] \in KeySetData /\ old[m] \in KeySetData /\ old[m].keys \subseteq new[m].keys
    BY <1>1, <2>1, <2>2
  <2> QED
    BY <2>3 DEF Decode, KeySetData
<1>5. ~Registry!Delete
  <2> SUFFICES ASSUME Registry!Delete PROVE FALSE
    OBVIOUS
  <2>1. Latest' = [Latest EXCEPT !.present = FALSE, !.sets = Registry!EmptySets]
    BY DEF Registry!Delete
  <2>2. Latest'.present = FALSE
    BY <1>0, <2>1 DEF Secret
  <2> QED
    BY <2>2
<1>6. CASE UNCHANGED Latest
  BY <1>6
<1> QED
  BY <1>2, <1>3, <1>4, <1>5, <1>6, SameOperators DEF Registry!Next

\* No step loses a readable key while the secret exists (mutateSecret).
THEOREM Survival == Spec => KeysSurvive
<1>1. IInv /\ IInv' /\ [Next]_vars =>
        [(Latest.present /\ Latest'.present) =>
           \A n \in Names :
             Decode(Latest.sets[n]).keys \subseteq Decode(Latest'.sets[n]).keys]_log
  BY NextRefines, NextSurvives
<1> QED
  BY <1>1, Inductive, PTL DEF Spec, KeysSurvive

LEMMA NextHands ==
  IInv /\ [Next]_vars =>
    \A c, d \in Callers :
      (Home[c] = Home[d] /\ held'[c] # held[c] /\ held'[c] # NoHeld)
      => held[d].rv <= held'[c].rv
<1> SUFFICES ASSUME IInv, [Next]_vars, NEW c \in Callers, NEW d \in Callers,
                    Home[c] = Home[d], held'[c] # held[c], held'[c] # NoHeld
             PROVE  held[d].rv <= held'[c].rv
  OBVIOUS
<1>1. held \in [Callers -> [name : Names \cup {NoName}, rv : 0..RV, ks : KeySetData]]
  BY DEF IInv, TypeOK
<1>2. PICK e \in Callers : KeySetHit(e) \/ RereadFound(e)
  <2>1. ~UNCHANGED vars
    BY DEF vars, callerVars
  <2>2. ~Administrator
    BY DEF Administrator, RetireActive, StoreUnknown, DeleteSecret, callerVars
  <2>3. \A s \in Servers : ~WatchStep(s)
    BY DEF WatchStep, ListSecret, ApplyList, WatchEvent, WatchBreaks, WatchRetries, callerVars
  <2>4. \A s \in Servers : ~Restart(s)
    BY <1>1 DEF Restart
  <2>5. PICK e \in Callers : KeySetHit(e) \/ KeySetMiss(e) \/ CallerStep(e)
    BY <2>1, <2>2, <2>3, <2>4 DEF Next
  <2> QED
    BY <2>5 DEF KeySetMiss, CallerStep, GetAndMutate, GetFails, WriteSecret, WriteReplyLost,
                WriteFails, ApplyWrite, RereadMissing
<1>3. PICK n \in Names \cup {call[e].name} : Hold(e, n)
  BY <1>2 DEF KeySetHit, RereadFound
<1>4. e = c /\ held'[c].rv = cache[Home[c]].rv
  BY <1>1, <1>3 DEF Hold
<1>5. held[d].rv <= cache[Home[d]].rv
  <2>1. held[d].rv \in Nat /\ cache[Home[d]].rv \in Nat
    BY <1>1, HomeAssumption DEF IInv, TypeOK
  <2> QED
    BY <2>1 DEF IInv, HeldInv
<1> QED
  BY <1>4, <1>5

\* KeySet never hands out an older version than it did before in the same
\* server, to whatever goroutine.
THEOREM HandsForward == Spec => NeverHandedOlder
BY NextHands, Inductive, PTL DEF Spec, NeverHandedOlder
=============================================================================
