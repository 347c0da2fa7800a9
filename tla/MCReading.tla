------------------------------ MODULE MCReading ------------------------------
(* What kweb reads: the templates of its pages, which it also finds the page  *)
(* of a request in, and the objects of the kubernetes API.  The parts share   *)
(* no state, so a behaviour is one of one part.                               *)
EXTENDS MCPages, MCKubeJson

VARIABLE part

KubeJsonIdle == MCInit /\ given.kind = "numeral"

MCReadingInit ==
  \/ part = "pages" /\ MCPagesInit /\ KubeJsonIdle
  \/ part = "kubejson" /\ MCInit /\ MCPagesInit /\ site = {}

MCReadingNext ==
  /\ UNCHANGED part
  /\ \/ part = "pages" /\ MCPagesNext /\ UNCHANGED allVars
     \/ part = "kubejson" /\ MCNext /\ UNCHANGED pagesVars

MCReadingSpec == MCReadingInit /\ [][MCReadingNext]_<<part, pagesVars, allVars>>
=============================================================================
