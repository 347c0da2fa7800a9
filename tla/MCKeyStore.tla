----------------------------- MODULE MCKeyStore -----------------------------
(* Two servers; caller c2, when there is one, runs beside c1 in server s1.   *)
EXTENDS KeyStore
CONSTANTS s1, s2, c1, c2, c3, n1, n2
MCHome == [c \in Callers |-> IF c = c3 THEN s2 ELSE s1]
=============================================================================
