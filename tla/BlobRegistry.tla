----------------------------- MODULE BlobRegistry -----------------------------
(* What services/blobstore promises its clients: a blob is stored in one step *)
(* and for ever, an acknowledged upload is stored, and a download that        *)
(* succeeds brings exactly the blob that was asked for.                       *)

CONSTANTS
  Uploads,    \* Calls of Client.Upload.
  Downloads,  \* Calls of Client.Download.
  Contents,   \* What blobs can contain.
  Sha256,     \* The hash of each content.
  NoAnswer    \* A call that has not succeeded.

VARIABLES
  stored,     \* The hashes of the blobs that are stored.
  acked,      \* Per upload: the hash whose storage was acknowledged.
  fetched     \* Per download: the hash it asked for, and what it was given.

vars == <<stored, acked, fetched>>

Init ==
  /\ stored = {}
  /\ acked = [u \in Uploads |-> NoAnswer]
  /\ fetched = [d \in Downloads |-> NoAnswer]

Store(c) ==
  /\ stored' = stored \cup {Sha256[c]}
  /\ UNCHANGED <<acked, fetched>>

Acknowledge(u) ==
  /\ acked[u] = NoAnswer
  /\ \E h \in stored : acked' = [acked EXCEPT ![u] = h]
  /\ UNCHANGED <<stored, fetched>>

Fetch(d, c) ==
  /\ fetched[d] = NoAnswer
  /\ Sha256[c] \in stored
  /\ fetched' = [fetched EXCEPT ![d] = [asked |-> Sha256[c], content |-> c]]
  /\ UNCHANGED <<stored, acked>>

Next ==
  \/ \E c \in Contents : Store(c) \/ \E d \in Downloads : Fetch(d, c)
  \/ \E u \in Uploads : Acknowledge(u)

Spec == Init /\ [][Next]_vars
=============================================================================
