----------------------------- MODULE MCSessions -----------------------------
(* Two browsers, of which the first has two requests in flight, over either   *)
(* storage.  The one in Kubernetes, whose write has more steps, is given a    *)
(* write more, and two requests at a time: of one browser, or of both.        *)
EXTENDS Sessions
CONSTANTS b1, b2, r1, r2, r3

MCHome == [r \in Requests |-> IF r = r3 THEN b2 ELSE b1]
MCMaxWrites == [b \in {"kube", "memory"} |-> IF b = "kube" THEN 3 ELSE 2]

Next == SessionsNext /\ (backend = "kube" => "idle" \in {pc'[r2], pc'[r3]})

Spec == SessionsInit /\ [][Next]_sessionVars
=============================================================================
