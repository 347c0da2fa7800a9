------------------------------- MODULE KeySets -------------------------------
(* The data of components/keystore: what a secret holds, what one release of  *)
(* the server reads out of it, and the mutator of ensureKeySet.  A keyset is  *)
(* its active id and a set of keys; a secret maps each keyset name to one,    *)
(* and a missing entry is the empty keyset, which the code treats alike.      *)
EXTENDS Naturals, FiniteSets, FiniteSetsExt

CONSTANT Names    \* The keyset names in use.

KnownTypes == {"SECRETBOX", "RSA"}

\* A type this release has no loader for: asking for it is an error, and
\* decodeSecret skips a stored key of it.
KeyTypes == KnownTypes \cup {"UNKNOWN"}

\* pb.KeyData; "mat" stands for the generated secret bytes.
Key == [id : Nat \ {0}, mat : Nat, type : KeyTypes]

KeySetData == [active : Nat, keys : SUBSET Key]

EmptyKeySet == [active |-> 0, keys |-> {}]

EmptySets == [n \in Names |-> EmptyKeySet]

\* The secret as the API server stores it; a new uid on every creation.
Secret == [present : BOOLEAN, uid : Nat, sets : [Names -> KeySetData]]

Ids(ks) == {k.id : k \in ks.keys}

HasActive(ks) == \E k \in ks.keys : k.id = ks.active

ActiveKeyOf(ks) == CHOOSE k \in ks.keys : k.id = ks.active

Decode(ks) == [ks EXCEPT !.keys = {k \in @ : k.type \in KnownTypes}]

DecodeSecret(sets) == [n \in Names |-> Decode(sets[n])]

MaxId(ks) == Max({0} \cup Ids(ks))

\* Mutants of AddKey: the highest id again, and the keyset replaced by the new
\* key.
AddKeyAtHighest(ks, type, mat) ==
  LET id == Max({1} \cup Ids(ks))
  IN  [active |-> id, keys |-> ks.keys \cup {[id |-> id, mat |-> mat, type |-> type]}]
AddKeyAlone(ks, type, mat) ==
  LET id == MaxId(ks) + 1
  IN  [active |-> id, keys |-> {[id |-> id, mat |-> mat, type |-> type]}]

\* generateSecretboxKey and generateRSAKey under the id after the highest one.
AddKey(ks, type, mat) ==
  LET id == MaxId(ks) + 1
  IN  [active |-> id,
       keys   |-> ks.keys \cup {[id |-> id, mat |-> mat, type |-> type]}]

\* The mutator of ensureKeySet.  It starts from the decoded secret, so keys
\* it cannot read are dropped from the keyset it writes; the other entries of
\* the secret are left as they are stored.
EnsureKeySet(sets, n, type, mat) ==
  LET ks == Decode(sets[n])
  IN  [sets EXCEPT ![n] = IF HasActive(ks) THEN ks ELSE AddKey(ks, type, mat)]
=============================================================================
