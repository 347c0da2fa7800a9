------------------------------ MODULE MCGithub ------------------------------
(* What kweb keeps of GitHub: the installations it copies at start, the tokens *)
(* it gets for one of them, and the tokens users bring.  The parts share no    *)
(* state, so a behaviour is one of one part.                                   *)
EXTENDS GithubSync, AppTokens, OauthSessions

VARIABLE part

MCAccountOf == [i \in Installations |-> IF i = 3 THEN 20 ELSE 10]
MCSkews == {-1, 0, 1, 3}
MCNeverExpires == -1

TokensIdle == TokensInit /\ skew = 0 /\ ~user /\ held = {}
SyncIdle == SyncInit /\ installed = {} /\ namespaces = {}

Init ==
  \/ part = "sync" /\ SyncInit /\ TokensIdle /\ OauthInit
  \/ part = "tokens" /\ TokensInit /\ SyncIdle /\ OauthInit
  \/ part = "oauth" /\ OauthInit /\ SyncIdle /\ TokensIdle

Next ==
  /\ UNCHANGED part
  /\ \/ part = "sync" /\ SyncNext /\ UNCHANGED <<tokenVars, oauthVars>>
     \/ part = "tokens" /\ TokensNext /\ UNCHANGED <<syncVars, oauthVars>>
     \/ part = "oauth" /\ OauthNext /\ UNCHANGED <<syncVars, tokenVars>>

\* Only the part that runs is owed progress; the others never enable a step of
\* theirs.
Spec == /\ Init
        /\ [][Next]_<<part, syncVars, tokenVars, oauthVars>>
        /\ SyncFairness
=============================================================================
