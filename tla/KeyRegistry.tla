----------------------------- MODULE KeyRegistry -----------------------------
(* What the keystore promises: a registry in which making sure that a keyset  *)
(* has an active key is one atomic step, whatever number of servers do it at  *)
(* once.  KeyStore implements it with a read, a private edit and a            *)
(* conditional write.                                                         *)
EXTENDS KeySets

CONSTANT Materials    \* What a generated key may hold.

VARIABLE reg          \* The secret.

Init == reg = [present |-> FALSE, uid |-> 0, sets |-> EmptySets]

\* A server creates the secret or updates it in place; a new key gets the id
\* after the highest one it can read, and no other keyset is touched.
Ensure(n, type, mat) ==
  reg' = [present |-> TRUE,
          uid     |-> IF reg.present THEN reg.uid ELSE reg.uid + 1,
          sets    |-> EnsureKeySet(reg.sets, n, type, mat)]

\* Administrators and other releases of the program.
Retire(n) ==
  /\ reg.present
  /\ reg' = [reg EXCEPT !.sets[n].active = 0]

StoreUnknown(n, mat) ==
  /\ reg.present
  /\ reg' = [reg EXCEPT !.sets[n] = AddKey(@, "UNKNOWN", mat)]

Delete ==
  /\ reg.present
  /\ reg' = [reg EXCEPT !.present = FALSE, !.sets = EmptySets]

Next ==
  \/ \E n \in Names, type \in KnownTypes, mat \in Materials :
       Ensure(n, type, mat)
  \/ \E n \in Names : Retire(n)
  \/ \E n \in Names, mat \in Materials : StoreUnknown(n, mat)
  \/ Delete

Spec == Init /\ [][Next]_reg
=============================================================================
