-------------------------- MODULE TokenTrustProofs --------------------------
(* Proofs about TokenTrust, for any number of replicas, requests, keys, tokens *)
(* and restarts.                                                               *)
EXTENDS TokenTrust, TLAPS

USE KeysetAssumption

\* The registry is given the operators of KeySets under its own name.
LEMMA SameOperators ==
  /\ \A sets, n, type, mat :
       Registry!EnsureKeySet(sets, n, type, mat) = EnsureKeySet(sets, n, type, mat)
  /\ Registry!EmptySets = EmptySets
BY DEF Registry!EnsureKeySet, EnsureKeySet, Registry!AddKey, AddKey, Registry!MaxId,
       MaxId, Registry!Max, Max, Registry!Ids, Ids, Registry!Decode, Decode,
       Registry!HasActive, HasActive, Registry!KnownTypes, KnownTypes,
       Registry!EmptySets, EmptySets, Registry!EmptyKeySet, EmptyKeySet

-----------------------------------------------------------------------------
(* The secret.                                                                 *)

\* What decoding a well-formed keyset leaves of it.
LEMMA DecodeKeys ==
  ASSUME NEW active, NEW keys
  PROVE  Decode([active |-> active, keys |-> keys]) =
           [active |-> active, keys |-> {k \in keys : k.type \in KnownTypes}]
BY DEF Decode

LEMMA DecodeTwice ==
  ASSUME NEW active, NEW keys, \A k \in keys : k.type \in KnownTypes
  PROVE  Decode([active |-> active, keys |-> keys]) =
           [active |-> active, keys |-> keys]
<1>1. {k \in keys : k.type \in KnownTypes} = keys
  OBVIOUS
<1> QED BY <1>1, DecodeKeys

\* Making sure that the keyset has an active key leaves the keys there are, in
\* the incarnation there is, and adds at most one, which is the next generated.
LEMMA EnsureAdds ==
  ASSUME IInv, NEW type \in KnownTypes, Ensure(type)
  PROVE  /\ reg' = [present |-> reg'.present, uid |-> reg'.uid, sets |-> reg'.sets]
         /\ reg'.present = TRUE /\ DOMAIN reg'.sets = Names
         /\ reg'.sets[Keyset] = [active |-> reg'.sets[Keyset].active,
                                 keys   |-> reg'.sets[Keyset].keys]
         /\ reg'.uid \in Nat /\ reg'.uid > 0 /\ reg'.uid >= reg.uid
         /\ reg.present => reg'.uid = reg.uid
         /\ ~reg.present => reg'.uid > reg.uid /\ StoredKeys = {}
         /\ generated' \in Nat /\ generated' >= generated
         /\ Stored \subseteq Stored'
         /\ \A k \in Stored' \ Stored :
              generated' = generated + 1 /\ k.mat = generated'
<1> DEFINE a == reg.sets[Keyset].active
           ks == Decode(reg.sets[Keyset])
           id == MaxId(ks) + 1
           k0 == [id |-> id, mat |-> generated + 1, type |-> type]
           res == IF HasActive(ks) THEN ks ELSE [active |-> id, keys |-> ks.keys \cup {k0}]
           new == [reg.sets EXCEPT ![Keyset] = res]
<1>1. /\ reg' = [present |-> TRUE,
                 uid     |-> IF reg.present THEN reg.uid ELSE reg.uid + 1,
                 sets    |-> EnsureKeySet(reg.sets, Keyset, type, generated + 1)]
      /\ generated' = IF HasActive(ks) THEN generated ELSE generated + 1
  BY SameOperators DEF Ensure, Registry!Ensure
<1>2. EnsureKeySet(reg.sets, Keyset, type, generated + 1) = new
  BY DEF EnsureKeySet, AddKey
<1>3. ks = [active |-> a, keys |-> Stored] /\ \A k \in Stored : k.type \in KnownTypes
  <2> DEFINE all == reg.sets[Keyset].keys
             read == {k \in all : k.type \in KnownTypes}
  <2>1. reg.sets[Keyset] = [active |-> a, keys |-> all]
    BY DEF IInv, Types
  <2> HIDE DEF a, all
  <2>2. ks = [active |-> a, keys |-> read]
    BY <2>1, DecodeKeys
  <2>3. Stored = read
    BY <2>2 DEF Stored
  <2> QED BY <2>2, <2>3
<1>4. DOMAIN reg.sets = Names /\ generated \in Nat /\ reg.uid \in Nat
  BY DEF IInv, Types
<1> HIDE DEF ks, id, k0, a
<1>5. reg'.sets = new /\ DOMAIN new = Names /\ new[Keyset] = res
  BY <1>1, <1>2, <1>4
<1>6. Stored' = Decode(res).keys
  BY <1>5 DEF Stored
<1>7. CASE HasActive(ks)
  <2>1. Stored' = Stored
    BY <1>3, <1>6, <1>7, DecodeTwice
  <2>2. reg.present
    BY <1>3, <1>7 DEF HasActive, IInv, Types
  <2>3. reg'.sets[Keyset] = ks /\ reg'.uid = reg.uid /\ generated' = generated
    BY <1>1, <1>5, <1>7, <2>2
  <2>4. reg.uid > 0
    BY <2>2 DEF IInv, Types
  <2> QED BY <1>1, <1>2, <1>3, <1>4, <1>5, <2>1, <2>2, <2>3, <2>4
<1>8. CASE ~HasActive(ks)
  <2>1. k0.type \in KnownTypes /\ k0.mat = generated + 1
    BY DEF k0
  <2>2. res = [active |-> id, keys |-> Stored \cup {k0}]
    BY <1>3, <1>8
  <2>3. Stored' = Stored \cup {k0}
    BY <1>3, <1>6, <2>1, <2>2, DecodeTwice
  <2>4. generated' = generated + 1
    BY <1>1, <1>8
  <2>5. ~reg.present => StoredKeys = {}
    BY DEF IInv, Types, StoredKeys, KeysOf
  <2>6. reg.present => reg.uid > 0
    BY DEF IInv, Types
  <2>7. reg'.sets[Keyset] = [active |-> id, keys |-> Stored \cup {k0}]
    BY <1>5, <2>2
  <2>8. \A k \in Stored' \ Stored : generated' = generated + 1 /\ k.mat = generated'
    BY <2>1, <2>3, <2>4
  <2>9. reg'.sets[Keyset] = [active |-> reg'.sets[Keyset].active,
                             keys   |-> reg'.sets[Keyset].keys]
    BY <2>7
  <2>10. /\ reg'.uid \in Nat /\ reg'.uid > 0 /\ reg'.uid >= reg.uid
         /\ reg.present => reg'.uid = reg.uid
         /\ ~reg.present => reg'.uid > reg.uid
    BY <1>1, <1>4, <2>6
  <2> QED BY <1>1, <1>2, <1>4, <1>5, <2>3, <2>4, <2>5, <2>8, <2>9, <2>10
<1> QED BY <1>7, <1>8

-----------------------------------------------------------------------------
(* What there is of keys, and what a step may make of it.                      *)

LEMMA InMade ==
  /\ \A x : x \in Made <=> \/ x \in tokens
                           \/ \E r \in Up : x \in HeldKeys(r)
                           \/ x \in StoredKeys
  /\ \A x : x \in Made' <=> \/ x \in tokens'
                            \/ \E r \in Up' : x \in HeldKeys(r)'
                            \/ x \in StoredKeys'
<1>1. \A x : x \in AllHeldKeys <=> \E r \in Up : x \in HeldKeys(r)
  BY Zenon DEF AllHeldKeys
<1>2. \A x : x \in AllHeldKeys' <=> \E r \in Up' : x \in HeldKeys(r)'
  BY Zenon DEF AllHeldKeys
<1>3. \A x : x \in Made <=> x \in tokens \/ x \in AllHeldKeys \/ x \in StoredKeys
  BY DEF Made
<1>4. \A x : x \in Made' <=> x \in tokens' \/ x \in AllHeldKeys' \/ x \in StoredKeys'
  BY DEF Made
<1> QED BY <1>1, <1>2, <1>3, <1>4

\* Keys are made by no other step: what is known of them only grows here, by a
\* key numbered higher than all others.
LEMMA EnsureGrows ==
  ASSUME IInv, NEW type \in KnownTypes, Ensure(type), tokens' = tokens,
         \A r \in Up : r \in Up' /\ held'[r] = held[r],
         \A r \in Up' \ Up : /\ HeldKeys(r)' = StoredKeys'
                             /\ held'[r].uid = reg'.uid
                             /\ held'[r].generated = generated',
         \A r \in Up : Holding(r)
  PROVE  /\ Numbered' /\ Complete'
         /\ \A x \in Made' : x \in Made \/ x.mat > generated
<1> DEFINE New(x) == generated' = generated + 1 /\ x.mat = generated' /\ x.uid = reg'.uid
<1>1. /\ reg'.uid \in Nat /\ reg'.uid > 0 /\ reg'.uid >= reg.uid
      /\ reg.present => reg'.uid = reg.uid
      /\ ~reg.present => reg'.uid > reg.uid /\ StoredKeys = {} /\ Stored = {}
      /\ generated' \in Nat /\ generated' >= generated
      /\ Stored \subseteq Stored'
      /\ \A k \in Stored' \ Stored : generated' = generated + 1 /\ k.mat = generated'
  BY EnsureAdds DEF IInv, Types
<1>2. generated \in Nat /\ reg.uid \in Nat
  BY DEF IInv, Types
<1>3. StoredKeys \subseteq StoredKeys'
  BY <1>1 DEF StoredKeys, KeysOf
<1>4. \A x \in StoredKeys' : x \in StoredKeys \/ New(x)
  <2> SUFFICES ASSUME NEW k \in Stored',
                      NEW x, x = [kid |-> k.id, mat |-> k.mat, uid |-> reg'.uid]
               PROVE  x \in StoredKeys \/ New(x)
    BY DEF StoredKeys, KeysOf
  <2>1. CASE k \in Stored
    BY <1>1, <2>1 DEF StoredKeys, KeysOf
  <2>2. CASE k \notin Stored
    BY <1>1, <2>2
  <2> QED BY <2>1, <2>2
<1>5. \A r \in Up : HeldKeys(r)' = HeldKeys(r)
  BY DEF HeldKeys
<1>6. \A x \in Made' : x \in Made \/ x \in StoredKeys'
  <2> SUFFICES ASSUME NEW x \in Made', x \notin StoredKeys' PROVE x \in Made
    OBVIOUS
  <2>1. CASE x \in tokens
    BY <2>1, InMade
  <2>2. CASE \E r \in Up' : x \in HeldKeys(r)'
    <3>1. PICK r \in Up' : x \in HeldKeys(r)'
      BY <2>2
    <3>2. r \in Up
      BY <3>1
    <3>3. x \in HeldKeys(r)
      BY <1>5, <3>1, <3>2
    <3> QED BY <3>2, <3>3, InMade
  <2> QED BY <2>1, <2>2, InMade
<1>7. \A x \in Made' : x \in Made \/ New(x)
  <2>1. StoredKeys \subseteq Made
    BY InMade
  <2> QED BY <1>4, <1>6, <2>1
<1>8. \A x \in Made : /\ x.mat \in Nat /\ x.mat <= generated /\ x.mat > 0
                      /\ x.uid \in Nat /\ x.uid <= reg.uid /\ x.uid > 0
  BY <1>2 DEF IInv, Numbered
<1>9. Numbered'
  <2>1. \A x \in Made' : x.mat \in 1..generated' /\ x.uid \in 1..reg'.uid
    BY <1>1, <1>2, <1>7, <1>8
  <2>2. \A x, y \in Made' : x.mat = y.mat => x.uid = y.uid
    BY <1>2, <1>7, <1>8 DEF IInv, Numbered
  <2> QED BY <2>1, <2>2 DEF Numbered
<1>10. \A x \in Made' : x.uid = reg'.uid => x \in StoredKeys'
  <2> SUFFICES ASSUME NEW x \in Made, x.uid = reg'.uid PROVE x \in StoredKeys'
    BY <1>6
  <2>1. reg.present /\ x.uid = reg.uid
    BY <1>1, <1>2, <1>8
  <2> QED BY <1>3, <2>1 DEF IInv, Complete
<1>11. ASSUME NEW r \in Up', NEW x \in Made',
              x.uid = held'[r].uid, x.mat <= held'[r].generated
       PROVE  x \in HeldKeys(r)'
  <2>1. CASE r \in Up
    <3>1. held'[r] = held[r] /\ held[r].generated \in 0..generated
      BY <2>1 DEF Holding
    <3>2. x \in Made
      BY <1>2, <1>7, <1>11, <3>1
    <3> QED BY <1>5, <1>11, <2>1, <3>1, <3>2 DEF IInv, Complete
  <2>2. CASE r \notin Up
    BY <1>10, <1>11, <2>2
  <2> QED BY <2>1, <2>2
<1>12. Complete'
  BY <1>10, <1>11 DEF Complete
<1>13. \A x \in Made' : x \in Made \/ x.mat > generated
  BY <1>2, <1>7
<1> QED BY <1>9, <1>12, <1>13

LEMMA Shrinks ==
  ASSUME IInv, Made' \subseteq Made, generated' = generated, reg'.uid = reg.uid,
         reg'.present => reg.present /\ StoredKeys' = StoredKeys,
         \A r \in Up' : r \in Up /\ held'[r] = held[r]
  PROVE  Numbered' /\ Complete'
<1>1. Numbered'
  BY DEF IInv, Numbered
<1>2. \A r \in Up' : HeldKeys(r)' = HeldKeys(r)
  BY DEF HeldKeys
<1>3. Complete'
  BY <1>2 DEF IInv, Complete
<1> QED BY <1>1, <1>3

\* A step that answered no request with a refusal.
LEMMA Unblamed ==
  ASSUME verdict' = NoVerdict PROVE RefusedForCause'
BY DEF NoVerdict, RefusedForCause

LEMMA MetKept ==
  ASSUME IInv, generated' \in Nat, generated' >= generated,
         \A x \in Made' : x \in Made \/ x.mat > generated,
         \A r \in Replicas : cached'[r] = cached[r] \/ cached'[r] = {},
         \A r \in Replicas : cached'[r] # {} => met[r] \subseteq met'[r],
         \A r, s \in Up' : held'[s].uid \in met'[r]
  PROVE  Met'
<1>1. generated \in Nat
  BY DEF IInv, Types
<1>2. ASSUME NEW r \in Replicas, NEW k \in cached'[r]
      PROVE  /\ k.mat \in 1..generated'
             /\ \A x \in Made' : x.mat = k.mat => x.uid \in met'[r]
  <2>1. k \in cached[r] /\ met[r] \subseteq met'[r]
    BY <1>2
  <2>2. k.mat \in 1..generated /\ \A x \in Made : x.mat = k.mat => x.uid \in met[r]
    BY <2>1 DEF IInv, Met
  <2> QED BY <1>1, <2>1, <2>2
<1> QED BY <1>2 DEF Met

-----------------------------------------------------------------------------
(* Replicas and the secret.                                                    *)

LEMMA Initially == Init => IInv
<1> SUFFICES ASSUME Init PROVE IInv
  OBVIOUS
<1>1. reg = [present |-> FALSE, uid |-> 0, sets |-> EmptySets]
  BY SameOperators DEF Init, Registry!Init
<1>2. reg.sets[Keyset] = [active |-> 0, keys |-> {}] /\ DOMAIN reg.sets = Names
  BY <1>1 DEF EmptySets, EmptyKeySet
<1>3. Stored = {}
  <2>1. {k \in {} : k.type \in KnownTypes} = {}
    OBVIOUS
  <2> QED BY <1>2, <2>1, DecodeKeys DEF Stored
<1>4. Up = {} /\ tokens = {}
  BY DEF Init, Up
<1>5. Made = {}
  BY <1>3, <1>4, InMade DEF StoredKeys, KeysOf
<1>6. Types
  BY <1>1, <1>2, <1>3 DEF Types, Init
<1>7. \A r \in Replicas : Holding(r)
  BY <1>4 DEF Holding, Init
<1>8. Numbered /\ Complete /\ Met
  BY <1>4, <1>5 DEF Numbered, Complete, Met, Init
<1>9. RefusedForCause /\ Revoked
  BY DEF Init, NoVerdict, Idle, RefusedForCause, Revoked, At
<1> QED BY <1>6, <1>7, <1>8, <1>9 DEF IInv

\* A request that is under way is not idle.
LEMMA AskedNotIdle == Idle \notin Asked
BY DEF Idle, Asked

LEMMA StartPreserves ==
  ASSUME IInv, NEW r \in Replicas, StartReplica(r)
  PROVE  IInv'
<1> DEFINE h == [uid |-> reg'.uid, generated |-> generated',
                 set |-> Decode(reg'.sets[Keyset])]
<1>1. /\ held[r] = Down /\ Ensure("RSA") /\ "RSA" \in KnownTypes
      /\ held' = [held EXCEPT ![r] = h]
      /\ met' = [s \in Replicas |->
           IF s = r THEN {held'[q].uid : q \in Up \cup {r}} ELSE met[s] \cup {reg'.uid}]
      /\ verdict' = NoVerdict
      /\ UNCHANGED <<cached, request, tokens>>
  BY DEF StartReplica, serving, KnownTypes
<1>2. /\ reg' = [present |-> reg'.present, uid |-> reg'.uid, sets |-> reg'.sets]
      /\ reg'.present = TRUE /\ DOMAIN reg'.sets = Names
      /\ reg'.sets[Keyset] = [active |-> reg'.sets[Keyset].active,
                              keys   |-> reg'.sets[Keyset].keys]
      /\ reg'.uid \in Nat /\ reg'.uid > 0 /\ reg'.uid >= reg.uid
      /\ generated' \in Nat /\ generated' >= generated
  BY <1>1, EnsureAdds
<1>3. /\ DOMAIN held = Replicas /\ DOMAIN cached = Replicas /\ DOMAIN met = Replicas
      /\ generated \in Nat /\ reg.uid \in Nat
      /\ request \in [Requests -> {Idle} \cup Asked]
  BY DEF IInv, Types
<1>4. h.uid > 0 /\ Down.uid = 0
  BY <1>2 DEF Down
<1> HIDE DEF h
<1>5. held'[r] = h /\ DOMAIN held' = Replicas /\ \A s \in Replicas \ {r} : held'[s] = held[s]
  BY <1>1, <1>3
<1>6. Up' = Up \cup {r} /\ r \notin Up
  <2>1. h # Down
    BY <1>2, <1>4
  <2> QED BY <1>1, <1>5, <2>1 DEF Up
<1>7. h.uid = reg'.uid /\ h.generated = generated' /\ HeldKeys(r)' = StoredKeys'
  BY <1>5 DEF h, HeldKeys, StoredKeys, Stored
<1>8. \A s \in Replicas : Holding(s)
  BY DEF IInv
<1>9. /\ Numbered' /\ Complete'
      /\ \A x \in Made' : x \in Made \/ x.mat > generated
  <2>1. \A s \in Up : s \in Up' /\ held'[s] = held[s]
    BY <1>5, <1>6 DEF Up
  <2>2. \A s \in Up' \ Up : /\ HeldKeys(s)' = StoredKeys'
                            /\ held'[s].uid = reg'.uid
                            /\ held'[s].generated = generated'
    BY <1>5, <1>6, <1>7
  <2>3. \A s \in Up : Holding(s)
    BY <1>8 DEF Up
  <2> QED BY <1>1, <2>1, <2>2, <2>3, EnsureGrows
<1>10. Types'
  <2>1. Asked \subseteq Asked'
    BY <1>1, <1>6 DEF Asked
  <2> QED BY <1>1, <1>2, <1>3, <1>5, <2>1 DEF Types
<1>11. \A s \in Replicas : Holding(s)'
  <2> SUFFICES ASSUME NEW s \in Replicas PROVE Holding(s)'
    OBVIOUS
  <2>1. CASE s = r
    BY <1>2, <1>5, <1>6, <1>7, <2>1 DEF Holding
  <2>2. CASE s # r /\ s \in Up
    <3>1. held[s].uid \in 1..reg.uid /\ held[s].generated \in 0..generated
      BY <1>8, <2>2 DEF Holding
    <3> QED BY <1>2, <1>3, <1>5, <1>6, <2>2, <3>1 DEF Holding
  <2>3. CASE s # r /\ s \notin Up
    BY <1>1, <1>6, <1>8, <2>3 DEF Holding
  <2> QED BY <2>1, <2>2, <2>3
<1>12. Met'
  <2>1. cached[r] = {}
    BY <1>6, <1>8 DEF Holding
  <2>2. \A s \in Replicas : cached'[s] # {} => met[s] \subseteq met'[s]
    BY <1>1, <2>1
  <2>3. ASSUME NEW s \in Up', NEW q \in Up' PROVE held'[q].uid \in met'[s]
    <3>1. s \in Replicas /\ q \in Replicas /\ q \in Up \cup {r}
      BY <1>6, <2>3 DEF Up
    <3>2. CASE s = r
      BY <1>1, <3>1, <3>2
    <3>3. CASE s # r /\ q = r
      BY <1>1, <1>5, <1>7, <3>1, <3>3
    <3>4. CASE s # r /\ q # r
      BY <1>1, <1>5, <1>6, <3>1, <3>4 DEF IInv, Met
    <3> QED BY <3>2, <3>3, <3>4
  <2> QED BY <1>1, <1>2, <1>9, <2>2, <2>3, MetKept
<1>13. RefusedForCause'
  BY <1>1, Unblamed
<1>14. Revoked'
  <2> SUFFICES ASSUME NEW q \in Requests, At(q, "loadUser")'
               PROVE  request[q].token.uid \in met'[request[q].at]
    BY <1>1 DEF Revoked
  <2>1. At(q, "loadUser") /\ request[q] \in Asked
    BY <1>1, <1>3 DEF At
  <2>2. request[q].at \in Up /\ request[q].token.uid \in met[request[q].at]
    BY <2>1 DEF Asked, IInv, Revoked
  <2> QED BY <1>1, <1>6, <2>2 DEF Up
<1> QED BY <1>9, <1>10, <1>11, <1>12, <1>13, <1>14 DEF IInv

LEMMA StopPreserves ==
  ASSUME IInv, NEW r \in Replicas, StopReplica(r)
  PROVE  IInv'
<1>1. /\ r \in Up
      /\ held' = [held EXCEPT ![r] = Down]
      /\ cached' = [cached EXCEPT ![r] = {}]
      /\ request' = [q \in Requests |->
           IF request[q] # Idle /\ request[q].at = r THEN Idle ELSE request[q]]
      /\ verdict' = NoVerdict
      /\ UNCHANGED <<reg, generated, tokens, met>>
  BY DEF StopReplica, secret
<1>2. /\ DOMAIN held = Replicas /\ DOMAIN cached = Replicas
      /\ request \in [Requests -> {Idle} \cup Asked]
      /\ generated \in Nat
  BY DEF IInv, Types
<1>3. /\ Up' = Up \ {r} /\ held'[r] = Down
      /\ \A s \in Replicas \ {r} : held'[s] = held[s] /\ cached'[s] = cached[s]
  BY <1>1, <1>2 DEF Up
<1>4. \A s \in Up' : s \in Up /\ held'[s] = held[s]
  BY <1>3 DEF Up
<1>5. StoredKeys' = StoredKeys /\ Stored' = Stored
  BY <1>1 DEF StoredKeys, Stored
<1>6. Made' \subseteq Made
  <2>1. \A s \in Up' : HeldKeys(s)' = HeldKeys(s)
    BY <1>4 DEF HeldKeys
  <2> QED BY <1>1, <1>4, <1>5, <2>1, InMade
<1>7. Numbered' /\ Complete'
  BY <1>1, <1>4, <1>5, <1>6, Shrinks
<1>8. Types'
  <2>1. request' \in [Requests -> {Idle} \cup Asked']
    <3> SUFFICES ASSUME NEW q \in Requests, request'[q] # Idle
                 PROVE  request'[q] \in Asked'
      BY <1>1
    <3>1. request'[q] = request[q] /\ request[q] \in Asked /\ request[q].at # r
      BY <1>1, <1>2
    <3> QED BY <1>1, <1>3, <3>1 DEF Asked
  <2> QED BY <1>1, <1>2, <1>5, <2>1 DEF IInv, Types
<1>9. \A s \in Replicas : Holding(s)'
  BY <1>1, <1>2, <1>3 DEF IInv, Holding
<1>10. Met'
  BY <1>1, <1>2, <1>4, <1>6, MetKept DEF IInv, Met
<1>11. RefusedForCause'
  BY <1>1, Unblamed
<1>12. Revoked'
  <2> SUFFICES ASSUME NEW q \in Requests, request'[q] # Idle, request'[q].pc = "loadUser"
               PROVE  request'[q].token.uid \in met[request'[q].at]
    BY <1>1 DEF Revoked, At
  <2>1. request'[q] = request[q]
    BY <1>1
  <2> QED BY <2>1 DEF IInv, Revoked, At
<1> QED BY <1>7, <1>8, <1>9, <1>10, <1>11, <1>12 DEF IInv

\* The steps of others on the secret leave the replicas and requests alone.
LEMMA SecretPreserves ==
  ASSUME IInv, UNCHANGED <<held, met, cached, request, tokens>>, verdict' = NoVerdict,
         reg' = [present |-> reg'.present, uid |-> reg'.uid, sets |-> reg'.sets],
         reg'.present \in BOOLEAN, reg'.uid \in Nat, DOMAIN reg'.sets = Names,
         reg'.sets[Keyset] = [active |-> reg'.sets[Keyset].active,
                              keys   |-> reg'.sets[Keyset].keys],
         reg'.present => reg'.uid > 0,
         ~reg'.present => Stored' = {},
         reg'.uid >= reg.uid, generated' \in Nat, generated' >= generated,
         Numbered', Complete', \A x \in Made' : x \in Made \/ x.mat > generated
  PROVE  IInv'
<1>1. Up' = Up
  BY DEF Up
<1>2. Types'
  BY <1>1 DEF IInv, Types, Asked
<1>3. \A s \in Replicas : Holding(s)'
  BY <1>1 DEF IInv, Types, Holding
<1>4. Met'
  BY <1>1, MetKept DEF IInv, Met
<1>5. RefusedForCause' /\ Revoked'
  BY Unblamed DEF IInv, Revoked, At
<1> QED BY <1>2, <1>3, <1>4, <1>5 DEF IInv

LEMMA MakeOtherPreserves ==
  ASSUME IInv, MakeOther
  PROVE  IInv'
<1>1. /\ Ensure("SECRETBOX") /\ "SECRETBOX" \in KnownTypes /\ verdict' = NoVerdict
      /\ UNCHANGED <<held, met, cached, request, tokens>>
  BY DEF MakeOther, serving, KnownTypes
<1>2. Up' = Up /\ \A r \in Up : Holding(r)
  BY <1>1 DEF Up, IInv
<1>3. Numbered' /\ Complete' /\ \A x \in Made' : x \in Made \/ x.mat > generated
  BY <1>1, <1>2, EnsureGrows
<1> QED BY <1>1, <1>3, EnsureAdds, SecretPreserves

LEMMA RetirePreserves ==
  ASSUME IInv, Retire
  PROVE  IInv'
<1> DEFINE ks == reg.sets[Keyset]
           new == [active |-> 0, keys |-> ks.keys]
<1>1. /\ reg.present /\ reg' = [reg EXCEPT !.sets[Keyset].active = 0]
      /\ verdict' = NoVerdict
      /\ UNCHANGED <<held, met, cached, request, tokens, generated>>
  BY DEF Retire, serving, Registry!Retire
<1>2. /\ reg = [present |-> reg.present, uid |-> reg.uid, sets |-> reg.sets]
      /\ reg.present \in BOOLEAN /\ reg.uid \in Nat /\ DOMAIN reg.sets = Names
      /\ ks = [active |-> ks.active, keys |-> ks.keys]
      /\ reg.present => reg.uid > 0
      /\ generated \in Nat
  BY DEF IInv, Types
<1>3. reg' = [present |-> TRUE, uid |-> reg.uid,
              sets |-> [reg.sets EXCEPT ![Keyset] = [@ EXCEPT !.active = 0]]]
  BY <1>1, <1>2
<1>4. [ks EXCEPT !.active = 0] = new
  BY <1>2
<1>5. reg'.sets[Keyset] = new /\ DOMAIN reg'.sets = Names
  BY <1>2, <1>3, <1>4
<1>6. Stored' = Stored
  <2> DEFINE a == ks.active
             k == ks.keys
             read == {x \in k : x.type \in KnownTypes}
  <2>1. ks = [active |-> a, keys |-> k]
    BY <1>2
  <2>2. reg'.sets[Keyset] = [active |-> 0, keys |-> k]
    BY <1>5
  <2> HIDE DEF a, k
  <2>3. Decode(ks) = [active |-> a, keys |-> read]
    BY <2>1, DecodeKeys
  <2>4. Decode(reg'.sets[Keyset]) = [active |-> 0, keys |-> read]
    BY <2>2, DecodeKeys
  <2>5. Stored = read
    BY <2>3 DEF Stored
  <2>6. Stored' = read
    BY <2>4 DEF Stored
  <2> QED BY <2>5, <2>6
<1>7. StoredKeys' = StoredKeys /\ Up' = Up /\ \A r \in Up : HeldKeys(r)' = HeldKeys(r)
  BY <1>1, <1>3, <1>6 DEF StoredKeys, Up, HeldKeys
<1>8. Made' \subseteq Made
  BY <1>1, <1>7, InMade
<1>9. Numbered' /\ Complete'
  BY <1>1, <1>3, <1>7, <1>8, Shrinks
<1>10. /\ reg' = [present |-> reg'.present, uid |-> reg'.uid, sets |-> reg'.sets]
       /\ reg'.present = TRUE /\ reg'.uid \in Nat /\ reg'.uid > 0 /\ reg'.uid >= reg.uid
       /\ generated' \in Nat /\ generated' >= generated
  BY <1>1, <1>2, <1>3
<1>11. reg'.sets[Keyset] = [active |-> reg'.sets[Keyset].active,
                            keys   |-> reg'.sets[Keyset].keys]
  BY <1>5
<1> QED BY <1>1, <1>5, <1>8, <1>9, <1>10, <1>11, SecretPreserves

LEMMA DeletePreserves ==
  ASSUME IInv, Delete
  PROVE  IInv'
<1>1. /\ reg.present /\ reg' = [reg EXCEPT !.present = FALSE, !.sets = EmptySets]
      /\ verdict' = NoVerdict
      /\ UNCHANGED <<held, met, cached, request, tokens, generated>>
  BY SameOperators DEF Delete, serving, Registry!Delete
<1>2. reg' = [present |-> FALSE, uid |-> reg.uid, sets |-> EmptySets]
  BY <1>1 DEF IInv, Types
<1>3. reg'.sets[Keyset] = [active |-> 0, keys |-> {}] /\ DOMAIN reg'.sets = Names
  BY <1>2 DEF EmptySets, EmptyKeySet
<1>4. Stored' = {}
  <2>1. {k \in {} : k.type \in KnownTypes} = {}
    OBVIOUS
  <2> QED BY <1>3, <2>1, DecodeKeys DEF Stored
<1>5. StoredKeys' = {} /\ Up' = Up /\ \A r \in Up : HeldKeys(r)' = HeldKeys(r)
  BY <1>1, <1>4 DEF StoredKeys, KeysOf, Up, HeldKeys
<1>6. Made' \subseteq Made
  BY <1>1, <1>5, InMade
<1>7. Numbered' /\ Complete'
  BY <1>1, <1>2, <1>5, <1>6, Shrinks
<1>8. reg.uid \in Nat /\ generated \in Nat
  BY DEF IInv, Types
<1>9. /\ reg' = [present |-> reg'.present, uid |-> reg'.uid, sets |-> reg'.sets]
      /\ reg'.present = FALSE /\ reg'.uid \in Nat /\ reg'.uid >= reg.uid
      /\ generated' \in Nat /\ generated' >= generated
  <2>1. generated' = generated
    BY <1>1
  <2>2. reg'.present = FALSE /\ reg'.uid = reg.uid /\ reg'.sets = EmptySets
    BY <1>2
  <2>3. reg' = [present |-> reg'.present, uid |-> reg'.uid, sets |-> reg'.sets]
    BY <1>2
  <2> QED BY <1>8, <2>1, <2>2, <2>3
<1>10. reg'.sets[Keyset] = [active |-> reg'.sets[Keyset].active,
                            keys   |-> reg'.sets[Keyset].keys]
  BY <1>3
<1> QED BY <1>1, <1>3, <1>4, <1>6, <1>7, <1>9, <1>10, SecretPreserves

LEMMA SignPreserves ==
  ASSUME IInv, NEW r \in Replicas, Sign(r)
  PROVE  IInv'
<1> DEFINE key == ActiveKeyOf(held[r].set)
           t == [kid |-> key.id, mat |-> key.mat, uid |-> held[r].uid]
<1>1. /\ r \in Up /\ HasActive(held[r].set)
      /\ tokens' = tokens \cup {t} /\ verdict' = NoVerdict
      /\ UNCHANGED <<reg, generated, held, cached, request, met>>
  BY DEF Sign, secret
<1>2. key \in held[r].set.keys
  BY <1>1 DEF HasActive, ActiveKeyOf
<1>3. t \in HeldKeys(r)
  BY <1>2 DEF HeldKeys, KeysOf
<1> HIDE DEF t
<1>4. Up' = Up /\ StoredKeys' = StoredKeys /\ Stored' = Stored
      /\ \A s \in Up : HeldKeys(s)' = HeldKeys(s)
  BY <1>1 DEF Up, StoredKeys, Stored, HeldKeys
<1>5. Made' \subseteq Made
  BY <1>1, <1>3, <1>4, InMade
<1>6. Numbered' /\ Complete'
  BY <1>1, <1>4, <1>5, Shrinks
<1>7. Types'
  <2>1. Asked \subseteq Asked'
    BY <1>1, <1>4 DEF Asked
  <2> QED BY <1>1, <1>4, <2>1 DEF IInv, Types
<1>8. \A s \in Replicas : Holding(s)'
  BY <1>1, <1>4 DEF IInv, Holding
<1>9. Met'
  BY <1>1, <1>4, <1>5 DEF IInv, Met
<1>10. RefusedForCause' /\ Revoked'
  BY <1>1, Unblamed DEF IInv, Revoked, At
<1> QED BY <1>6, <1>7, <1>8, <1>9, <1>10 DEF IInv

-----------------------------------------------------------------------------
(* Requests.                                                                   *)

\* What the keys a replica publishes tell of the keys it holds.
LEMMA Published ==
  ASSUME NEW s \in Up, NEW k \in JWKS(s)
  PROVE  \E x \in HeldKeys(s) : x.mat = k.mat /\ x.kid = k.kid /\ x.uid = held[s].uid
<1>1. PICK h \in held[s].set.keys : k = [kid |-> h.id, mat |-> h.mat]
  BY DEF JWKS
<1> DEFINE x == [kid |-> h.id, mat |-> h.mat, uid |-> held[s].uid]
<1>2. x \in HeldKeys(s)
  BY DEF HeldKeys, KeysOf
<1>3. x.mat = k.mat /\ x.kid = k.kid /\ x.uid = held[s].uid
  BY <1>1
<1> QED BY <1>2, <1>3

\* What a request's step may put into the caches, and where it may believe.
CachesPublished ==
  \A r \in Replicas : \A k \in cached'[r] :
    k \in cached[r] \/ (r \in Up /\ \E s \in Up : k \in JWKS(s))
BelievesTheMet ==
  \A q \in Requests :
    \/ request'[q] = request[q]
    \/ request'[q] = Idle
    \/ request'[q].pc # "loadUser"
    \/ request'[q].token.uid \in met[request'[q].at]

\* A step of a request leaves all keys alone.  What it caches has been published
\* by a replica, and it believes a token by keys its replica has met.
LEMMA ServingPreserves ==
  ASSUME IInv, UNCHANGED <<reg, generated, held, tokens, met>>,
         request' \in [Requests -> {Idle} \cup Asked],
         DOMAIN cached' = Replicas,
         CachesPublished, BelievesTheMet, RefusedForCause'
  PROVE  IInv'
<1>1. Up' = Up /\ StoredKeys' = StoredKeys /\ Stored' = Stored
      /\ \A s \in Up : HeldKeys(s)' = HeldKeys(s)
  BY DEF Up, StoredKeys, Stored, HeldKeys
<1>2. \A x : x \in Made' <=> x \in Made
  BY <1>1, InMade
<1>3. Types'
  <2>1. Asked' = Asked
    BY <1>1 DEF Asked
  <2> QED BY <1>1, <2>1 DEF IInv, Types
<1>4. Numbered'
  BY <1>2 DEF IInv, Numbered
<1>5. Complete'
  BY <1>1, <1>2 DEF IInv, Complete
<1>6. \A r \in Replicas : Holding(r)'
  <2> SUFFICES ASSUME NEW r \in Replicas PROVE Holding(r)'
    OBVIOUS
  <2>1. CASE r \in Up
    BY <1>1, <2>1 DEF IInv, Holding
  <2>2. CASE r \notin Up
    <3>1. cached[r] = {}
      BY <2>2 DEF IInv, Holding
    <3>2. cached'[r] = {}
      BY <2>2, <3>1 DEF CachesPublished
    <3> QED BY <1>1, <2>2, <3>2 DEF Holding
  <2> QED BY <2>1, <2>2
<1>7. ASSUME NEW r \in Replicas, NEW k \in cached'[r]
      PROVE  /\ k.mat \in 1..generated
             /\ \A x \in Made : x.mat = k.mat => x.uid \in met[r]
  <2>1. CASE k \in cached[r]
    BY <2>1 DEF IInv, Met
  <2>2. CASE r \in Up /\ \E s \in Up : k \in JWKS(s)
    <3>1. PICK s \in Up : k \in JWKS(s)
      BY <2>2
    <3>2. PICK y \in HeldKeys(s) : y.mat = k.mat /\ y.uid = held[s].uid
      BY <3>1, Published
    <3>3. y \in Made /\ held[s].uid \in met[r]
      BY <2>2, <3>2, InMade DEF IInv, Met
    <3> QED BY <3>2, <3>3 DEF IInv, Numbered
  <2> QED BY <1>7, <2>1, <2>2 DEF CachesPublished
<1>8. Met'
  BY <1>1, <1>2, <1>7 DEF IInv, Met
<1>9. Revoked'
  <2> SUFFICES ASSUME NEW q \in Requests, request'[q] # Idle, request'[q].pc = "loadUser"
               PROVE  request'[q].token.uid \in met[request'[q].at]
    BY DEF Revoked, At
  <2>1. CASE request'[q] = request[q]
    BY <2>1 DEF IInv, Revoked, At
  <2> QED BY <2>1 DEF BelievesTheMet
<1> QED BY <1>3, <1>4, <1>5, <1>6, <1>8, <1>9 DEF IInv

\* The same where the caches are left alone.
LEMMA UncachedPreserves ==
  ASSUME IInv, UNCHANGED <<reg, generated, held, tokens, met, cached>>,
         request' \in [Requests -> {Idle} \cup Asked],
         BelievesTheMet, RefusedForCause'
  PROVE  IInv'
<1>1. CachesPublished
  <2> SUFFICES ASSUME NEW r \in Replicas, NEW k \in cached'[r]
               PROVE  k \in cached[r] \/ (r \in Up /\ \E s \in Up : k \in JWKS(s))
    BY Zenon DEF CachesPublished
  <2> QED OBVIOUS
<1>2. DOMAIN cached' = Replicas
  BY DEF IInv, Types
<1> QED BY <1>1, <1>2, ServingPreserves

\* A request goes on, and nothing but its place changes.
LEMMA GoesOn ==
  ASSUME IInv, NEW q \in Requests, request[q] # Idle,
         NEW pc \in {"lock", "discover", "verify", "fetch", "loadUser"}, Goto(q, pc)
  PROVE  /\ request' \in [Requests -> {Idle} \cup Asked]
         /\ request'[q].pc = pc /\ request'[q].at = request[q].at
         /\ request'[q].token = request[q].token
         /\ \A p \in Requests \ {q} : request'[p] = request[p]
<1>1. request \in [Requests -> {Idle} \cup Asked]
  BY DEF IInv, Types
<1>2. request[q] \in Asked
  BY <1>1
<1>3. request' = [request EXCEPT ![q] = [@ EXCEPT !.pc = pc]]
  BY DEF Goto
<1> DEFINE e == [request[q] EXCEPT !.pc = pc]
<1>4. e \in Asked /\ e.pc = pc /\ e.at = request[q].at /\ e.token = request[q].token
  BY <1>2 DEF Asked
<1> HIDE DEF e
<1>5. request' = [request EXCEPT ![q] = e]
  BY <1>3 DEF e
<1> QED BY <1>1, <1>4, <1>5

\* A request ends, and nothing is said of which keys refused it.
LEMMA EndsPreserves ==
  ASSUME IInv, NEW q \in Requests, NEW who, Ends(q, who, NoKeys),
         UNCHANGED <<reg, generated, held, tokens, met, cached>>
  PROVE  IInv'
<1>1. request \in [Requests -> {Idle} \cup Asked]
  BY DEF IInv, Types
<1>2. request' = [request EXCEPT ![q] = Idle]
  BY DEF Ends
<1>3. verdict'.keys = NoKeys
  BY DEF Ends, Verdict
<1>4. RefusedForCause'
  BY <1>3 DEF RefusedForCause
<1>5. BelievesTheMet /\ request' \in [Requests -> {Idle} \cup Asked]
  BY <1>1, <1>2 DEF BelievesTheMet
<1> QED BY <1>4, <1>5, UncachedPreserves

LEMMA ArrivalPreserves ==
  ASSUME IInv, NEW q \in Requests, ArriveAnonymous(q) \/ Arrive(q)
  PROVE  IInv'
<1>1. request \in [Requests -> {Idle} \cup Asked]
  BY DEF IInv, Types
<1>2. CASE ArriveAnonymous(q)
  <2>1. verdict'.token = NoToken /\ UNCHANGED <<reg, generated, held, tokens, met, cached, request>>
    BY <1>2 DEF ArriveAnonymous, Verdict, secret
  <2>2. RefusedForCause'
    BY <2>1 DEF RefusedForCause
  <2>3. BelievesTheMet
    BY <2>1 DEF BelievesTheMet
  <2> QED BY <1>1, <2>1, <2>2, <2>3, UncachedPreserves
<1>3. CASE Arrive(q)
  <2>1. PICK r \in Up, t \in tokens :
          request' = [request EXCEPT ![q] = [pc |-> "lock", at |-> r, token |-> t]]
    BY <1>3 DEF Arrive
  <2>2. verdict' = NoVerdict /\ UNCHANGED <<reg, generated, held, tokens, met, cached>>
    BY <1>3 DEF Arrive, secret
  <2> DEFINE e == [pc |-> "lock", at |-> r, token |-> t]
  <2>3. e \in Asked /\ e.pc # "loadUser"
    BY DEF Asked
  <2> HIDE DEF e
  <2>4. request' = [request EXCEPT ![q] = e]
    BY <2>1 DEF e
  <2>5. request' \in [Requests -> {Idle} \cup Asked]
    BY <1>1, <2>3, <2>4
  <2>6. BelievesTheMet
    BY <1>1, <2>3, <2>4 DEF BelievesTheMet
  <2> QED BY <2>2, <2>5, <2>6, UncachedPreserves, Unblamed
<1> QED BY <1>2, <1>3

\* Where a request waits for the verifier.
LEMMA VerifierPreserves ==
  ASSUME IInv, NEW q \in Requests, GetVerifier(q) \/ Discover(q) \/ DiscoverFails(q)
  PROVE  IInv'
<1>1. UNCHANGED <<reg, generated, held, tokens, met, cached>>
  BY DEF GetVerifier, Discover, DiscoverFails, secret
<1>2. CASE DiscoverFails(q)
  <2>1. Ends(q, "nobody", NoKeys)
    BY <1>2 DEF DiscoverFails
  <2> QED BY <1>1, <2>1, EndsPreserves
<1>3. CASE GetVerifier(q) \/ Discover(q)
  <2>1. request[q] # Idle /\ verdict' = NoVerdict
    BY <1>3 DEF GetVerifier, Discover, At
  <2>2. PICK pc \in {"verify", "discover"} : Goto(q, pc)
    BY <1>3 DEF GetVerifier, Discover
  <2>3. /\ request' \in [Requests -> {Idle} \cup Asked]
        /\ request'[q].pc = pc
        /\ \A p \in Requests \ {q} : request'[p] = request[p]
    BY <2>1, <2>2, GoesOn
  <2>4. BelievesTheMet
    BY <2>3 DEF BelievesTheMet
  <2> QED BY <1>1, <2>1, <2>3, <2>4, UncachedPreserves, Unblamed
<1> QED BY <1>2, <1>3

LEMMA VerifyCachedPreserves ==
  ASSUME IInv, NEW q \in Requests, VerifyCached(q)
  PROVE  IInv'
<1> DEFINE r == request[q].at
           t == request[q].token
           pc == IF Verifies(cached[r], t) THEN "loadUser" ELSE "fetch"
<1>1. /\ request[q] # Idle /\ Goto(q, pc) /\ verdict' = NoVerdict
      /\ UNCHANGED <<reg, generated, held, tokens, met, cached>>
  BY DEF VerifyCached, At, secret
<1>2. request[q] \in Asked
  BY <1>1 DEF IInv, Types
<1>3. r \in Replicas /\ t \in tokens
  BY <1>2 DEF Asked, Up
<1>4. /\ request' \in [Requests -> {Idle} \cup Asked]
      /\ request'[q].pc = pc /\ request'[q].at = r /\ request'[q].token = t
      /\ \A p \in Requests \ {q} : request'[p] = request[p]
  BY <1>1, GoesOn
<1>5. pc = "loadUser" => t.uid \in met[r]
  <2> SUFFICES ASSUME Verifies(cached[r], t) PROVE t.uid \in met[r]
    OBVIOUS
  <2>1. PICK k \in cached[r] : k.mat = t.mat
    BY DEF Verifies
  <2>2. t \in Made
    BY <1>3, InMade
  <2> QED BY <1>3, <2>1, <2>2 DEF IInv, Met
<1> HIDE DEF pc, r, t
<1>6. BelievesTheMet
  BY <1>4, <1>5 DEF BelievesTheMet
<1> QED BY <1>1, <1>4, <1>6, UncachedPreserves, Unblamed

\* Keys that do not verify a token are older than its key or another secret's.
LEMMA OnlyOlderRefuse ==
  ASSUME IInv, NEW s \in Up, NEW t \in tokens, ~Verifies(JWKS(s), t)
  PROVE  held[s].uid # t.uid \/ held[s].generated < t.mat
<1> SUFFICES ASSUME held[s].uid = t.uid, ~(held[s].generated < t.mat) PROVE FALSE
  OBVIOUS
<1>1. t \in Made
  BY InMade
<1>2. t.mat \in Nat /\ held[s].generated \in Nat
  BY <1>1 DEF IInv, Numbered, Holding, Types, Up
<1>3. t \in HeldKeys(s)
  BY <1>1, <1>2 DEF IInv, Complete
<1>4. PICK k \in held[s].set.keys : t = [kid |-> k.id, mat |-> k.mat, uid |-> held[s].uid]
  BY <1>3 DEF HeldKeys, KeysOf
<1>5. [kid |-> k.id, mat |-> k.mat] \in JWKS(s)
  BY DEF JWKS
<1> QED BY <1>4, <1>5 DEF Verifies

LEMMA FetchKeysPreserves ==
  ASSUME IInv, NEW q \in Requests, FetchKeys(q)
  PROVE  IInv'
<1> DEFINE r == request[q].at
           t == request[q].token
<1>1. request[q] # Idle /\ UNCHANGED <<reg, generated, held, tokens, met>>
  BY DEF FetchKeys, At, secret
<1>2. /\ request[q] \in Asked /\ DOMAIN cached = Replicas
      /\ request \in [Requests -> {Idle} \cup Asked]
  BY <1>1 DEF IInv, Types
<1>3. r \in Up /\ r \in Replicas /\ t \in tokens
  BY <1>2 DEF Asked, Up
<1>4. PICK s \in Up :
        /\ cached' = [cached EXCEPT ![r] = JWKS(s)]
        /\ IF Verifies(JWKS(s), t)
           THEN Goto(q, "loadUser") /\ verdict' = NoVerdict
           ELSE Ends(q, "nobody", [uid |-> held[s].uid, generated |-> held[s].generated])
  BY DEF FetchKeys, Answering
<1>5. DOMAIN cached' = Replicas /\ CachesPublished
  <2>1. cached'[r] = JWKS(s) /\ \A p \in Replicas \ {r} : cached'[p] = cached[p]
    BY <1>2, <1>3, <1>4
  <2>2. DOMAIN cached' = Replicas
    BY <1>2, <1>4
  <2> SUFFICES ASSUME NEW p \in Replicas, NEW k \in cached'[p]
               PROVE  k \in cached[p] \/ (p \in Up /\ \E u \in Up : k \in JWKS(u))
    BY <2>2, Zenon DEF CachesPublished
  <2>3. CASE p = r
    BY <1>3, <2>1, <2>3
  <2>4. CASE p # r
    BY <2>1, <2>4
  <2> QED BY <2>3, <2>4
<1>6. CASE Verifies(JWKS(s), t)
  <2>1. Goto(q, "loadUser") /\ verdict' = NoVerdict
    BY <1>4, <1>6
  <2>2. /\ request' \in [Requests -> {Idle} \cup Asked]
        /\ request'[q].at = r /\ request'[q].token = t
        /\ \A p \in Requests \ {q} : request'[p] = request[p]
    BY <1>1, <2>1, GoesOn
  <2>3. PICK k \in JWKS(s) : k.mat = t.mat
    BY <1>6 DEF Verifies
  <2>4. PICK y \in HeldKeys(s) : y.mat = k.mat /\ y.uid = held[s].uid
    BY <2>3, Published
  <2>5. y \in Made /\ t \in Made
    BY <1>3, <2>4, InMade
  <2>6. t.uid = held[s].uid
    BY <2>3, <2>4, <2>5 DEF IInv, Numbered
  <2>7. t.uid \in met[r]
    BY <1>3, <2>6 DEF IInv, Met
  <2> HIDE DEF r, t
  <2>8. BelievesTheMet
    BY <2>2, <2>7 DEF BelievesTheMet
  <2> QED BY <1>1, <1>5, <2>1, <2>2, <2>8, ServingPreserves, Unblamed
<1>7. CASE ~Verifies(JWKS(s), t)
  <2> DEFINE keys == [uid |-> held[s].uid, generated |-> held[s].generated]
  <2>1. Ends(q, "nobody", keys)
    BY <1>4, <1>7
  <2>2. request' = [request EXCEPT ![q] = Idle]
    BY <2>1 DEF Ends
  <2>3. verdict'.token = t /\ verdict'.keys = keys
    BY <2>1 DEF Ends, Verdict
  <2>4. keys.uid # t.uid \/ keys.generated < t.mat
    BY <1>3, <1>7, OnlyOlderRefuse
  <2> HIDE DEF keys
  <2>5. RefusedForCause'
    BY <2>3, <2>4 DEF RefusedForCause
  <2>6. request' \in [Requests -> {Idle} \cup Asked]
    BY <1>2, <2>2
  <2>7. BelievesTheMet
    BY <1>2, <2>2 DEF BelievesTheMet
  <2> QED BY <1>1, <1>5, <2>5, <2>6, <2>7, ServingPreserves
<1> QED BY <1>6, <1>7

LEMMA AnswerPreserves ==
  ASSUME IInv, NEW q \in Requests, FetchFails(q) \/ LoadUser(q)
  PROVE  IInv'
<1>1. UNCHANGED <<reg, generated, held, tokens, met, cached>>
  BY DEF FetchFails, LoadUser, secret
<1>2. PICK who \in {"nobody", "user", "error"} : Ends(q, who, NoKeys)
  BY DEF FetchFails, LoadUser
<1> QED BY <1>1, <1>2, EndsPreserves

LEMMA StutterPreserves ==
  ASSUME IInv, UNCHANGED vars
  PROVE  IInv'
<1>1. UNCHANGED <<reg, generated, held, tokens, met, cached, request, verdict>>
  BY DEF vars
<1>2. request \in [Requests -> {Idle} \cup Asked]
  BY DEF IInv, Types
<1>3. RefusedForCause'
  BY <1>1 DEF IInv, RefusedForCause
<1>4. BelievesTheMet
  BY <1>1 DEF BelievesTheMet
<1> QED BY <1>1, <1>2, <1>3, <1>4, UncachedPreserves

-----------------------------------------------------------------------------
(* The theorems.                                                               *)

LEMMA NextPreserves == IInv /\ [Next]_vars => IInv'
<1> SUFFICES ASSUME IInv, [Next]_vars PROVE IInv'
  OBVIOUS
<1>1. ASSUME NEW r \in Replicas, StartReplica(r) \/ StopReplica(r) \/ Sign(r)
      PROVE  IInv'
  BY <1>1, StartPreserves, StopPreserves, SignPreserves
<1>2. CASE Retire \/ MakeOther \/ Delete
  BY <1>2, RetirePreserves, MakeOtherPreserves, DeletePreserves
<1>3. ASSUME NEW q \in Requests,
             \/ ArriveAnonymous(q) \/ Arrive(q) \/ Step(q)
             \/ DiscoverFails(q) \/ FetchFails(q)
      PROVE  IInv'
  BY <1>3, ArrivalPreserves, VerifierPreserves, VerifyCachedPreserves,
     FetchKeysPreserves, AnswerPreserves DEF Step
<1>4. CASE UNCHANGED vars
  BY <1>4, StutterPreserves
<1> QED BY <1>1, <1>2, <1>3, <1>4 DEF Next

\* The strengthened invariant: keys are numbered as they are made and belong to
\* one incarnation of the secret each, the secret and the replicas hold every key
\* made before they were last read, and caches hold only what was met.
THEOREM Inductive == Spec => []IInv
<1> QED BY Initially, NextPreserves, PTL DEF Spec

\* For any number of replicas, rotations and restarts: ServeJWKS publishes all
\* versions, so a replica turns down a token with a good signature only by keys
\* older than the token's, or those of another incarnation of the secret.
THEOREM RefusedWithCause == Spec => []RefusedForCause
<1>1. IInv => RefusedForCause
  BY DEF IInv
<1> QED BY <1>1, Inductive, PTL

\* For any number of replicas, deletions and restarts: a token is believed only
\* where the keyset of its secret has been held, or fetched from one who held it,
\* even though a new secret counts its ids from 1 again.
THEOREM Revocation == Spec => []Revoked
<1>1. IInv => Revoked
  BY DEF IInv
<1> QED BY <1>1, Inductive, PTL
=============================================================================
