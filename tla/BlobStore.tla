------------------------------ MODULE BlobStore ------------------------------
(* services/blobstore: blobs named by their SHA-256, uploaded and downloaded  *)
(* in chunks over gRPC streams, by several clients at a time.  The service    *)
(* spools an upload into a scratch file, checks its hash, and hands it to the *)
(* store: files published by a rename, or objects of a cloud bucket.  Files   *)
(* are told apart from their names: a reader keeps the file it opened while   *)
(* another upload of the blob takes over the name.                            *)
EXTENDS Naturals, Sequences, FiniteSets

CONSTANTS
  Uploads,      \* Calls of Client.Upload, each made once.
  Strangers,    \* Those made by other clients, which may declare any hash.
  Downloads,    \* Calls of Client.Download, each made once.
  Chunks,       \* The data of one message of a stream.
  Contents,     \* What blobs can contain: sequences of chunks.
  Hashes,
  Sha256,       \* The hash of each content.
  NoUpload,     \* No file stands under a name.
  NoFile,       \* A file that does not exist.
  NoAnswer,
  MaxCrashes,   \* Bound: crashes of the server.
  MaxDamages    \* Bound: stored files or objects that lose their content.

ASSUME UploadsAssumption == Strangers \subseteq Uploads /\ NoUpload \notin Uploads
ASSUME ContentsAssumption ==
  /\ \A c \in Contents : c \in Seq(Chunks)
  /\ \A c \in Contents : \A n \in 0..Len(c) : SubSeq(c, 1, n) \in Contents
  /\ <<>> \in Contents /\ NoFile \notin Contents
ASSUME Sha256Assumption ==
  /\ Sha256 \in [Contents -> Hashes]
  /\ \A c, d \in Contents : Sha256[c] = Sha256[d] => c = d
ASSUME BoundsAssumption == MaxCrashes \in Nat /\ MaxDamages \in Nat

VARIABLES
  backend,    \* The kind of store of the --store flag.
  upc,        \* Per upload: where CreateBlob is.
  source,     \* Per upload: the content the client reads.
  declared,   \* Per upload: the hash in its last message.
  scratch,    \* Per upload: its createblob-* file on the server.
  file,       \* Per upload: the content of the file or object it writes.
  part,       \* Per upload: whether its .tmp-* name exists.
  names,      \* Per hash: the upload whose file stands under the blob's name.
  dpc,        \* Per download: where Download and GetBlob are.
  asked,      \* Per download: the hash.
  opened,     \* Per download: the upload whose file it reads.
  got,        \* Per download: its temporary file on the client.
  crashes,
  damaged     \* The uploads whose stored file was changed by other hands.

uploadVars   == <<backend, upc, source, declared, scratch, file, part, names>>
downloadVars == <<dpc, asked, opened, got>>
vars         == <<uploadVars, downloadVars, crashes, damaged>>

InProgress == {"receiving", "create", "copying", "finalize", "reply"}

Init ==
  /\ backend \in {"file", "cloud"}
  /\ upc = [u \in Uploads |-> "idle"]
  /\ source = [u \in Uploads |-> <<>>]
  /\ declared = [u \in Uploads |-> Sha256[<<>>]]
  /\ scratch = [u \in Uploads |-> NoFile]
  /\ file = [u \in Uploads |-> NoFile]
  /\ part = [u \in Uploads |-> FALSE]
  /\ names = [h \in Hashes |-> NoUpload]
  /\ dpc = [d \in Downloads |-> "idle"]
  /\ asked = [d \in Downloads |-> Sha256[<<>>]]
  /\ opened = [d \in Downloads |-> NoUpload]
  /\ got = [d \in Downloads |-> NoFile]
  /\ crashes = 0
  /\ damaged = {}

-----------------------------------------------------------------------------
(* Client.Upload and CreateBlob.                                              *)

UGoto(u, l) == upc' = [upc EXCEPT ![u] = l]

\* The hash the service computed, and so the name the store writes to.
ActualHash(u) == Sha256[scratch[u]]

\* The client declares the hash of what it sent; another may declare any.
StartUpload(u) ==
  /\ upc[u] = "idle"
  /\ \E c \in Contents, h \in Hashes :
       /\ u \in Strangers \/ h = Sha256[c]
       /\ source' = [source EXCEPT ![u] = c]
       /\ declared' = [declared EXCEPT ![u] = h]
  /\ scratch' = [scratch EXCEPT ![u] = <<>>]
  /\ UGoto(u, "receiving")
  /\ UNCHANGED <<backend, file, part, names, downloadVars, crashes, damaged>>

\* One message with data, from the client's reader to the scratch file.
Receive(u) ==
  /\ upc[u] = "receiving"
  /\ scratch[u] # source[u]
  /\ scratch' = [scratch EXCEPT ![u] = SubSeq(source[u], 1, Len(@) + 1)]
  /\ UNCHANGED <<backend, upc, source, declared, file, part, names, downloadVars, crashes, damaged>>

\* The message with done: the hashes agree and the store is called.
ReceiveDone(u) ==
  /\ upc[u] = "receiving"
  /\ scratch[u] = source[u]
  /\ ActualHash(u) = declared[u]
  /\ UGoto(u, "create")
  /\ UNCHANGED <<backend, source, declared, scratch, file, part, names, downloadVars, crashes, damaged>>

\* Every error return of CreateBlob runs its deferred removals.
Abort(u) ==
  /\ UGoto(u, "failed")
  /\ scratch' = [scratch EXCEPT ![u] = NoFile]
  /\ part' = [part EXCEPT ![u] = FALSE]

\* The hashes differ, the client's reader or the stream fails, or the scratch
\* file cannot be made, written or read again.
UploadFails(u) ==
  /\ upc[u] = "receiving"
  /\ Abort(u)
  /\ UNCHANGED <<backend, source, declared, file, names, downloadVars, crashes, damaged>>

\* FilesystemStore.CreateBlob opens a file of a name nobody else uses.
CreateFile(u) ==
  /\ upc[u] = "create"
  /\ backend = "file"
  /\ file' = [file EXCEPT ![u] = <<>>]
  /\ part' = [part EXCEPT ![u] = TRUE]
  /\ UGoto(u, "copying")
  /\ UNCHANGED <<backend, source, declared, scratch, names, downloadVars, crashes, damaged>>

\* One turn of io.Copy.
Copy(u) ==
  /\ upc[u] = "copying"
  /\ file[u] # scratch[u]
  /\ file' = [file EXCEPT ![u] = SubSeq(scratch[u], 1, Len(@) + 1)]
  /\ UNCHANGED <<backend, upc, source, declared, scratch, part, names, downloadVars, crashes, damaged>>

\* Mutant of CopyEnds: that the copy ended early is not noticed.
CopyEndsEarly(u) ==
  /\ upc[u] = "copying"
  /\ UGoto(u, "finalize")
  /\ UNCHANGED <<backend, source, declared, scratch, file, part, names, downloadVars, crashes, damaged>>

\* The copy is whole; the file is closed.
CopyEnds(u) ==
  /\ upc[u] = "copying"
  /\ file[u] = scratch[u]
  /\ UGoto(u, "finalize")
  /\ UNCHANGED <<backend, source, declared, scratch, file, part, names, downloadVars, crashes, damaged>>

\* The rename, which takes the name over from an earlier file.
Rename(u) ==
  /\ upc[u] = "finalize"
  /\ names' = [names EXCEPT ![ActualHash(u)] = u]
  /\ part' = [part EXCEPT ![u] = FALSE]
  /\ UGoto(u, "reply")
  /\ UNCHANGED <<backend, source, declared, scratch, file, downloadVars, crashes, damaged>>

\* GCSStore and S3Store: the cloud publishes the whole object or nothing ...
PutObject(u) ==
  /\ upc[u] = "create"
  /\ backend = "cloud"
  /\ file' = [file EXCEPT ![u] = scratch[u]]
  /\ names' = [names EXCEPT ![ActualHash(u)] = u]
  /\ UGoto(u, "reply")
  /\ UNCHANGED <<backend, source, declared, scratch, part, downloadVars, crashes, damaged>>

\* ... and may do so without the store being told.
PutReplyLost(u) ==
  /\ upc[u] = "create"
  /\ backend = "cloud"
  /\ file' = [file EXCEPT ![u] = scratch[u]]
  /\ names' = [names EXCEPT ![ActualHash(u)] = u]
  /\ Abort(u)
  /\ UNCHANGED <<backend, source, declared, downloadVars, crashes, damaged>>

\* Mutant of StoreFails: the upload's own file is not removed.
StoreFailsLeavingFile(u) ==
  /\ upc[u] \in {"create", "copying", "finalize"}
  /\ UGoto(u, "failed")
  /\ scratch' = [scratch EXCEPT ![u] = NoFile]
  /\ UNCHANGED <<backend, source, declared, file, part, names, downloadVars, crashes, damaged>>

\* A call of the store fails: creating, writing, closing or renaming.
StoreFails(u) ==
  /\ upc[u] \in {"create", "copying", "finalize"}
  /\ Abort(u)
  /\ UNCHANGED <<backend, source, declared, file, names, downloadVars, crashes, damaged>>

\* The reply reaches the client, with the hash the client computed; or not.
Reply(u) ==
  /\ upc[u] = "reply"
  /\ scratch' = [scratch EXCEPT ![u] = NoFile]
  /\ UGoto(u, "ok") \/ UGoto(u, "failed")
  /\ UNCHANGED <<backend, source, declared, file, part, names, downloadVars, crashes, damaged>>

-----------------------------------------------------------------------------
(* Client.Download and GetBlob.                                               *)

DGoto(d, l) == dpc' = [dpc EXCEPT ![d] = l]

\* The store opens the blob, the client its temporary file.
Open(d) ==
  /\ dpc[d] = "idle"
  /\ \E h \in Hashes :
       /\ names[h] # NoUpload
       /\ asked' = [asked EXCEPT ![d] = h]
       /\ opened' = [opened EXCEPT ![d] = names[h]]
  /\ got' = [got EXCEPT ![d] = <<>>]
  /\ DGoto(d, "streaming")
  /\ UNCHANGED <<uploadVars, crashes, damaged>>

NotFound(d) ==
  /\ dpc[d] = "idle"
  /\ \E h \in Hashes :
       /\ names[h] = NoUpload
       /\ asked' = [asked EXCEPT ![d] = h]
  /\ DGoto(d, "failed")
  /\ UNCHANGED <<uploadVars, opened, got, crashes, damaged>>

\* One message, from the file that was opened to the client's file.
Transfer(d) ==
  /\ dpc[d] = "streaming"
  /\ Len(got[d]) < Len(file[opened[d]])
  /\ got' = [got EXCEPT ![d] = Append(@, file[opened[d]][Len(@) + 1])]
  /\ UNCHANGED <<uploadVars, dpc, asked, opened, crashes, damaged>>

\* The client's comparison: no two contents share a hash, and what is not a
\* content of any blob has the hash of none.
HasHash(c, h) == c \in Contents /\ Sha256[c] = h

\* Mutant of Verified: whatever arrived is kept.
VerifiedUnchecked(d) ==
  /\ dpc[d] = "streaming"
  /\ Len(got[d]) >= Len(file[opened[d]])
  /\ DGoto(d, "ok")
  /\ UNCHANGED <<uploadVars, asked, opened, got, crashes, damaged>>

\* The end of the file: the client compares hashes, and keeps its file ...
Verified(d) ==
  /\ dpc[d] = "streaming"
  /\ Len(got[d]) >= Len(file[opened[d]])
  /\ HasHash(got[d], asked[d])
  /\ DGoto(d, "ok")
  /\ UNCHANGED <<uploadVars, asked, opened, got, crashes, damaged>>

\* ... or removes it.
Mismatch(d) ==
  /\ dpc[d] = "streaming"
  /\ Len(got[d]) >= Len(file[opened[d]])
  /\ ~HasHash(got[d], asked[d])
  /\ got' = [got EXCEPT ![d] = NoFile]
  /\ DGoto(d, "mismatch")
  /\ UNCHANGED <<uploadVars, asked, opened, crashes, damaged>>

\* A read, a write or the stream fails; WriteTempFile removes the file.
DownloadFails(d) ==
  /\ dpc[d] = "streaming"
  /\ got' = [got EXCEPT ![d] = NoFile]
  /\ DGoto(d, "failed")
  /\ UNCHANGED <<uploadVars, asked, opened, crashes, damaged>>

-----------------------------------------------------------------------------

\* The server's process ends: no deferred call runs, its streams break, and
\* the files it had open stay as they are.
Crash ==
  LET cut == {u \in Uploads : upc[u] \in InProgress}
      off == {d \in Downloads : dpc[d] = "streaming"}
  IN  /\ crashes < MaxCrashes
      /\ crashes' = crashes + 1
      /\ upc' = [u \in Uploads |-> IF u \in cut THEN "crashed" ELSE upc[u]]
      /\ dpc' = [d \in Downloads |-> IF d \in off THEN "failed" ELSE dpc[d]]
      /\ got' = [d \in Downloads |-> IF d \in off THEN NoFile ELSE got[d]]
      /\ UNCHANGED <<backend, source, declared, scratch, file, part, names, asked, opened, damaged>>

\* The disk or the bucket gives back something else than was stored.
Damage(u) ==
  /\ Cardinality(damaged) < MaxDamages
  /\ \E h \in Hashes : names[h] = u
  /\ damaged' = damaged \cup {u}
  /\ \E c \in Contents : file' = [file EXCEPT ![u] = c]
  /\ UNCHANGED <<backend, upc, source, declared, scratch, part, names, downloadVars, crashes>>

UploadStep(u) ==
  \/ StartUpload(u) \/ Receive(u) \/ ReceiveDone(u) \/ UploadFails(u)
  \/ CreateFile(u) \/ Copy(u) \/ CopyEnds(u) \/ Rename(u)
  \/ PutObject(u) \/ PutReplyLost(u) \/ StoreFails(u) \/ Reply(u)

DownloadStep(d) ==
  \/ Open(d) \/ NotFound(d) \/ Transfer(d)
  \/ Verified(d) \/ Mismatch(d) \/ DownloadFails(d)

Next ==
  \/ \E u \in Uploads : UploadStep(u) \/ Damage(u)
  \/ \E d \in Downloads : DownloadStep(d)
  \/ Crash

Spec == Init /\ [][Next]_vars

-----------------------------------------------------------------------------

TypeOK ==
  /\ backend \in {"file", "cloud"}
  /\ upc \in [Uploads -> InProgress \cup {"idle", "ok", "failed", "crashed"}]
  /\ source \in [Uploads -> Contents]
  /\ declared \in [Uploads -> Hashes]
  /\ scratch \in [Uploads -> Contents \cup {NoFile}]
  /\ file \in [Uploads -> Contents \cup {NoFile}]
  /\ part \in [Uploads -> BOOLEAN]
  /\ names \in [Hashes -> Uploads \cup {NoUpload}]
  /\ dpc \in [Downloads -> {"idle", "streaming", "ok", "mismatch", "failed"}]
  /\ asked \in [Downloads -> Hashes]
  /\ opened \in [Downloads -> Uploads \cup {NoUpload}]
  /\ \A d \in Downloads : dpc[d] = "streaming" => opened[d] \in Uploads
  /\ got \in [Downloads -> Seq(Chunks) \cup {NoFile}]
  /\ crashes \in 0..MaxCrashes
  /\ damaged \subseteq Uploads

\* Whatever stands under a blob's name was published as the whole blob,
\* through partial copies, failures, crashes and uploads of one blob that
\* overlap (FilesystemStore.CreateBlob).
PublishedWhole ==
  \A h \in Hashes :
    (names[h] # NoUpload /\ names[h] \notin damaged) => HasHash(file[names[h]], h)

\* "downloaded blob hash did not match expected hash" is never the fault of
\* the server: only damage to the file it reads gives a reader anything but the
\* blob, even while another upload takes over the name (GetBlob, Download).
MismatchOnlyIfDamaged ==
  \A d \in Downloads : dpc[d] = "mismatch" => opened[d] \in damaged

\* Only whole blobs are stored and sent: a file takes a blob's name when its copy
\* is complete, never half written, and an upload that takes the name over from
\* another's leaves the file readers have open alone (FilesystemStore.CreateBlob,
\* GetBlob).
OnlyWholeBlobs == PublishedWhole /\ MismatchOnlyIfDamaged

\* Whatever failed on the way, temporary files exist only for calls in
\* progress, downloads that succeeded, and uploads a crash has cut off
\* (CreateBlob, FilesystemStore.CreateBlob, WriteTempFile).
NothingLeftBehind ==
  /\ \A u \in Uploads :
       (scratch[u] # NoFile \/ part[u]) => upc[u] \in InProgress \cup {"crashed"}
  /\ \A d \in Downloads : got[d] # NoFile => dpc[d] \in {"streaming", "ok"}

\* Uploads and downloads are steps of the atomic registry of blobs: a blob is
\* never lost, an acknowledged upload is stored under the hash the client
\* declared, and a successful download brings the blob that was asked for,
\* whatever happened to the stored files.
Registry == INSTANCE BlobRegistry WITH
  stored  <- {h \in Hashes : names[h] # NoUpload},
  acked   <- [u \in Uploads |-> IF upc[u] = "ok" THEN declared[u] ELSE NoAnswer],
  fetched <- [d \in Downloads |->
                IF dpc[d] = "ok" THEN [asked |-> asked[d], content |-> got[d]] ELSE NoAnswer]

BlobRegistrySpec == Registry!Spec

-----------------------------------------------------------------------------
(* The inductive invariant of the proofs in BlobStoreProofs.                  *)

IsPrefixOf(c, e) == Len(c) <= Len(e) /\ \A i \in 1..Len(c) : c[i] = e[i]

\* Nothing writes to the file of an upload in one of these places again.
Settled == {"reply", "ok", "failed", "crashed"}

UploadInv(u) ==
  /\ u \in damaged => upc[u] \in Settled
  /\ part[u] => upc[u] \in {"copying", "finalize", "crashed"}
  /\ upc[u] \in InProgress => scratch[u] \in Contents
  /\ upc[u] = "receiving" => IsPrefixOf(scratch[u], source[u])
  /\ upc[u] \in {"create", "copying", "finalize", "reply"} => ActualHash(u) = declared[u]
  /\ upc[u] = "copying" => file[u] \in Contents /\ IsPrefixOf(file[u], scratch[u])
  /\ upc[u] = "finalize" => file[u] = scratch[u]
  /\ upc[u] \in {"reply", "ok"} => names[declared[u]] # NoUpload

NameInv(h) ==
  names[h] # NoUpload =>
    /\ upc[names[h]] \in Settled
    /\ file[names[h]] \in Contents
    /\ names[h] \notin damaged => HasHash(file[names[h]], h)

DownloadInv(d) ==
  /\ dpc[d] = "mismatch" => opened[d] \in damaged
  /\ dpc[d] = "streaming" =>
       /\ upc[opened[d]] \in Settled
       /\ file[opened[d]] \in Contents
       /\ got[d] \in Seq(Chunks)
       /\ names[asked[d]] # NoUpload
       /\ opened[d] \notin damaged =>
            HasHash(file[opened[d]], asked[d]) /\ IsPrefixOf(got[d], file[opened[d]])

IInv ==
  /\ TypeOK /\ NothingLeftBehind
  /\ \A u \in Uploads : UploadInv(u)
  /\ \A h \in Hashes : NameInv(h)
  /\ \A d \in Downloads : DownloadInv(d)
=============================================================================
