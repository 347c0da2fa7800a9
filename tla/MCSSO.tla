-------------------------------- MODULE MCSSO --------------------------------
(* One browser, with two requests in flight, which are alike.                 *)
EXTENDS SSO, TLC
CONSTANTS b1, r1, r2
MCHome == [r \in Requests |-> b1]
MCMaxWrites == [b \in {"kube", "memory"} |-> 3]
MCMoreWrites == [b \in {"kube", "memory"} |-> 4]
Alike == Permutations(Requests) \cup Permutations(Users)
=============================================================================
