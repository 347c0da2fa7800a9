---------------------------- MODULE MCTokenTrust ----------------------------
(* Two replicas: the manifest runs one, and two while it is replaced.          *)
EXTENDS TokenTrust
=============================================================================
