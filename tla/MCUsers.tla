------------------------------- MODULE MCUsers -------------------------------
(* SingleNamespaceMapper: all users in one namespace.                         *)
EXTENDS Users
CONSTANT shared
MCSingleNamespace == [u \in UserIDs |-> shared]
=============================================================================
