--------------------------- MODULE BlobStoreProofs ---------------------------
(* Proofs about BlobStore, for any number of uploads, downloads and crashes,  *)
(* and any set of contents.                                                   *)
EXTENDS BlobStore, TLAPS

LEMMA PrefixGrows ==
  ASSUME NEW c \in Contents, NEW e \in Contents, IsPrefixOf(c, e), c # e
  PROVE  /\ SubSeq(e, 1, Len(c) + 1) \in Contents
         /\ IsPrefixOf(SubSeq(e, 1, Len(c) + 1), e)
<1>1. c \in Seq(Chunks) /\ e \in Seq(Chunks)
  BY ContentsAssumption
<1>2. Len(c) # Len(e)
  BY <1>1 DEF IsPrefixOf
<1>3. Len(c) + 1 \in 0..Len(e)
  BY <1>1, <1>2 DEF IsPrefixOf
<1>4. SubSeq(e, 1, Len(c) + 1) \in Contents
  BY <1>3, ContentsAssumption
<1>5. /\ Len(SubSeq(e, 1, Len(c) + 1)) = Len(c) + 1
      /\ \A i \in 1..Len(c) + 1 : SubSeq(e, 1, Len(c) + 1)[i] = e[i]
  BY <1>1, <1>3
<1> QED BY <1>1, <1>3, <1>4, <1>5 DEF IsPrefixOf

LEMMA WholePrefix ==
  ASSUME NEW c \in Seq(Chunks), NEW e \in Seq(Chunks),
         IsPrefixOf(c, e), Len(c) = Len(e)
  PROVE  c = e
BY DEF IsPrefixOf

LEMMA AppendPrefix ==
  ASSUME NEW c \in Seq(Chunks), NEW e \in Seq(Chunks),
         IsPrefixOf(c, e), Len(c) < Len(e)
  PROVE  /\ Append(c, e[Len(c) + 1]) \in Seq(Chunks)
         /\ IsPrefixOf(Append(c, e[Len(c) + 1]), e)
BY DEF IsPrefixOf

LEMMA EmptyPrefix ==
  ASSUME NEW e \in Seq(Chunks)
  PROVE  <<>> \in Seq(Chunks) /\ IsPrefixOf(<<>>, e)
BY DEF IsPrefixOf

LEMMA SelfPrefix ==
  ASSUME NEW e \in Seq(Chunks)
  PROVE  IsPrefixOf(e, e)
BY DEF IsPrefixOf

LEMMA InitInv == Init => IInv
<1> SUFFICES ASSUME Init PROVE IInv
  OBVIOUS
<1> USE UploadsAssumption, ContentsAssumption, Sha256Assumption, BoundsAssumption DEF Init
<1>1. TypeOK
  BY DEF TypeOK
<1>2. NothingLeftBehind
  BY DEF NothingLeftBehind
<1>3. \A u \in Uploads : UploadInv(u)
  BY DEF UploadInv, InProgress
<1>4. \A h \in Hashes : NameInv(h)
  BY DEF NameInv
<1>5. \A d \in Downloads : DownloadInv(d)
  BY DEF DownloadInv
<1> QED BY <1>1, <1>2, <1>3, <1>4, <1>5 DEF IInv

LEMMA StartUploadStep ==
  ASSUME IInv, NEW u \in Uploads, StartUpload(u)
  PROVE  IInv'
<1> USE UploadsAssumption DEF IInv, TypeOK, StartUpload, UGoto, downloadVars, InProgress
<1>0. \A c \in Contents : <<>> \in Seq(Chunks) /\ IsPrefixOf(<<>>, c)
  BY EmptyPrefix, ContentsAssumption
<1>1. TypeOK'
  BY ContentsAssumption, Sha256Assumption DEF UploadInv
<1>2. NothingLeftBehind'
  BY DEF NothingLeftBehind
<1>3. ASSUME NEW v \in Uploads PROVE UploadInv(v)'
  BY <1>0, ContentsAssumption, Sha256Assumption DEF UploadInv, ActualHash, Settled
<1>4. ASSUME NEW h \in Hashes PROVE NameInv(h)'
  BY DEF NameInv, UploadInv, Settled
<1>5. ASSUME NEW d \in Downloads PROVE DownloadInv(d)'
  BY DEF DownloadInv, Settled
<1> QED BY <1>1, <1>2, <1>3, <1>4, <1>5

LEMMA ReceiveStep ==
  ASSUME IInv, NEW u \in Uploads, Receive(u)
  PROVE  IInv'
<1> USE UploadsAssumption DEF IInv, TypeOK, Receive, UGoto, downloadVars, InProgress
<1>0. /\ SubSeq(source[u], 1, Len(scratch[u]) + 1) \in Contents
      /\ IsPrefixOf(SubSeq(source[u], 1, Len(scratch[u]) + 1), source[u])
  BY PrefixGrows DEF UploadInv
<1>1. TypeOK'
  BY <1>0, ContentsAssumption, Sha256Assumption DEF UploadInv
<1>2. NothingLeftBehind'
  BY DEF NothingLeftBehind
<1>3. ASSUME NEW v \in Uploads PROVE UploadInv(v)'
  BY <1>0, ContentsAssumption, Sha256Assumption DEF UploadInv, ActualHash, Settled
<1>4. ASSUME NEW h \in Hashes PROVE NameInv(h)'
  BY DEF NameInv, UploadInv, Settled
<1>5. ASSUME NEW d \in Downloads PROVE DownloadInv(d)'
  BY DEF DownloadInv, Settled
<1> QED BY <1>1, <1>2, <1>3, <1>4, <1>5

LEMMA ReceiveDoneStep ==
  ASSUME IInv, NEW u \in Uploads, ReceiveDone(u)
  PROVE  IInv'
<1> USE UploadsAssumption DEF IInv, TypeOK, ReceiveDone, UGoto, downloadVars, InProgress
<1>1. TypeOK'
  BY ContentsAssumption, Sha256Assumption DEF UploadInv
<1>2. NothingLeftBehind'
  BY DEF NothingLeftBehind
<1>3. ASSUME NEW v \in Uploads PROVE UploadInv(v)'
  BY ContentsAssumption, Sha256Assumption DEF UploadInv, ActualHash, Settled
<1>4. ASSUME NEW h \in Hashes PROVE NameInv(h)'
  BY DEF NameInv, UploadInv, Settled
<1>5. ASSUME NEW d \in Downloads PROVE DownloadInv(d)'
  BY DEF DownloadInv, Settled
<1> QED BY <1>1, <1>2, <1>3, <1>4, <1>5

LEMMA UploadFailsStep ==
  ASSUME IInv, NEW u \in Uploads, UploadFails(u)
  PROVE  IInv'
<1> USE UploadsAssumption DEF IInv, TypeOK, UploadFails, UGoto, Abort, downloadVars, InProgress
<1>1. TypeOK'
  BY ContentsAssumption, Sha256Assumption DEF UploadInv
<1>2. NothingLeftBehind'
  BY DEF NothingLeftBehind
<1>3. ASSUME NEW v \in Uploads PROVE UploadInv(v)'
  BY ContentsAssumption, Sha256Assumption DEF UploadInv, ActualHash, Settled
<1>4. ASSUME NEW h \in Hashes PROVE NameInv(h)'
  BY DEF NameInv, UploadInv, Settled
<1>5. ASSUME NEW d \in Downloads PROVE DownloadInv(d)'
  BY DEF DownloadInv, Settled
<1> QED BY <1>1, <1>2, <1>3, <1>4, <1>5

LEMMA CreateFileStep ==
  ASSUME IInv, NEW u \in Uploads, CreateFile(u)
  PROVE  IInv'
<1> USE UploadsAssumption DEF IInv, TypeOK, CreateFile, UGoto, downloadVars, InProgress
<1>0. \A c \in Contents : <<>> \in Seq(Chunks) /\ IsPrefixOf(<<>>, c)
  BY EmptyPrefix, ContentsAssumption
<1>1. TypeOK'
  BY ContentsAssumption, Sha256Assumption DEF UploadInv
<1>2. NothingLeftBehind'
  BY DEF NothingLeftBehind
<1>3. ASSUME NEW v \in Uploads PROVE UploadInv(v)'
  BY <1>0, ContentsAssumption, Sha256Assumption DEF UploadInv, ActualHash, Settled
<1>4. ASSUME NEW h \in Hashes PROVE NameInv(h)'
  BY DEF NameInv, UploadInv, Settled
<1>5. ASSUME NEW d \in Downloads PROVE DownloadInv(d)'
  BY DEF DownloadInv, Settled
<1> QED BY <1>1, <1>2, <1>3, <1>4, <1>5

LEMMA CopyStep ==
  ASSUME IInv, NEW u \in Uploads, Copy(u)
  PROVE  IInv'
<1> USE UploadsAssumption DEF IInv, TypeOK, Copy, UGoto, downloadVars, InProgress
<1>0. /\ SubSeq(scratch[u], 1, Len(file[u]) + 1) \in Contents
      /\ IsPrefixOf(SubSeq(scratch[u], 1, Len(file[u]) + 1), scratch[u])
  BY PrefixGrows DEF UploadInv
<1>1. TypeOK'
  BY <1>0, ContentsAssumption, Sha256Assumption DEF UploadInv
<1>2. NothingLeftBehind'
  BY DEF NothingLeftBehind
<1>3. ASSUME NEW v \in Uploads PROVE UploadInv(v)'
  BY <1>0, ContentsAssumption, Sha256Assumption DEF UploadInv, ActualHash, Settled
<1>4. ASSUME NEW h \in Hashes PROVE NameInv(h)'
  BY DEF NameInv, UploadInv, Settled
<1>5. ASSUME NEW d \in Downloads PROVE DownloadInv(d)'
  BY DEF DownloadInv, Settled
<1> QED BY <1>1, <1>2, <1>3, <1>4, <1>5

LEMMA CopyEndsStep ==
  ASSUME IInv, NEW u \in Uploads, CopyEnds(u)
  PROVE  IInv'
<1> USE UploadsAssumption DEF IInv, TypeOK, CopyEnds, UGoto, downloadVars, InProgress
<1>1. TypeOK'
  BY ContentsAssumption, Sha256Assumption DEF UploadInv
<1>2. NothingLeftBehind'
  BY DEF NothingLeftBehind
<1>3. ASSUME NEW v \in Uploads PROVE UploadInv(v)'
  BY ContentsAssumption, Sha256Assumption DEF UploadInv, ActualHash, Settled
<1>4. ASSUME NEW h \in Hashes PROVE NameInv(h)'
  BY DEF NameInv, UploadInv, Settled
<1>5. ASSUME NEW d \in Downloads PROVE DownloadInv(d)'
  BY DEF DownloadInv, Settled
<1> QED BY <1>1, <1>2, <1>3, <1>4, <1>5

LEMMA RenameStep ==
  ASSUME IInv, NEW u \in Uploads, Rename(u)
  PROVE  IInv'
<1> USE UploadsAssumption DEF IInv, TypeOK, Rename, UGoto, downloadVars, InProgress
<1>1. TypeOK'
  BY ContentsAssumption, Sha256Assumption DEF UploadInv
<1>2. NothingLeftBehind'
  BY DEF NothingLeftBehind
<1>3. ASSUME NEW v \in Uploads PROVE UploadInv(v)'
  BY ContentsAssumption, Sha256Assumption DEF UploadInv, ActualHash, Settled
<1>4. ASSUME NEW h \in Hashes PROVE NameInv(h)'
  BY DEF NameInv, UploadInv, Settled, ActualHash, HasHash
<1>5. ASSUME NEW d \in Downloads PROVE DownloadInv(d)'
  BY DEF DownloadInv, Settled
<1> QED BY <1>1, <1>2, <1>3, <1>4, <1>5

LEMMA PutObjectStep ==
  ASSUME IInv, NEW u \in Uploads, PutObject(u)
  PROVE  IInv'
<1> USE UploadsAssumption DEF IInv, TypeOK, PutObject, UGoto, downloadVars, InProgress
<1>1. TypeOK'
  BY ContentsAssumption, Sha256Assumption DEF UploadInv
<1>2. NothingLeftBehind'
  BY DEF NothingLeftBehind
<1>3. ASSUME NEW v \in Uploads PROVE UploadInv(v)'
  BY ContentsAssumption, Sha256Assumption DEF UploadInv, ActualHash, Settled
<1>4. ASSUME NEW h \in Hashes PROVE NameInv(h)'
  BY DEF NameInv, UploadInv, Settled, ActualHash, HasHash
<1>5. ASSUME NEW d \in Downloads PROVE DownloadInv(d)'
  BY DEF DownloadInv, Settled
<1> QED BY <1>1, <1>2, <1>3, <1>4, <1>5

LEMMA PutReplyLostStep ==
  ASSUME IInv, NEW u \in Uploads, PutReplyLost(u)
  PROVE  IInv'
<1> USE UploadsAssumption DEF IInv, TypeOK, PutReplyLost, UGoto, Abort, downloadVars, InProgress
<1>1. TypeOK'
  BY ContentsAssumption, Sha256Assumption DEF UploadInv
<1>2. NothingLeftBehind'
  BY DEF NothingLeftBehind
<1>3. ASSUME NEW v \in Uploads PROVE UploadInv(v)'
  BY ContentsAssumption, Sha256Assumption DEF UploadInv, ActualHash, Settled
<1>4. ASSUME NEW h \in Hashes PROVE NameInv(h)'
  BY DEF NameInv, UploadInv, Settled, ActualHash, HasHash
<1>5. ASSUME NEW d \in Downloads PROVE DownloadInv(d)'
  BY DEF DownloadInv, Settled
<1> QED BY <1>1, <1>2, <1>3, <1>4, <1>5

LEMMA StoreFailsStep ==
  ASSUME IInv, NEW u \in Uploads, StoreFails(u)
  PROVE  IInv'
<1> USE UploadsAssumption DEF IInv, TypeOK, StoreFails, UGoto, Abort, downloadVars, InProgress
<1>1. TypeOK'
  BY ContentsAssumption, Sha256Assumption DEF UploadInv
<1>2. NothingLeftBehind'
  BY DEF NothingLeftBehind
<1>3. ASSUME NEW v \in Uploads PROVE UploadInv(v)'
  BY ContentsAssumption, Sha256Assumption DEF UploadInv, ActualHash, Settled
<1>4. ASSUME NEW h \in Hashes PROVE NameInv(h)'
  BY DEF NameInv, UploadInv, Settled
<1>5. ASSUME NEW d \in Downloads PROVE DownloadInv(d)'
  BY DEF DownloadInv, Settled
<1> QED BY <1>1, <1>2, <1>3, <1>4, <1>5

LEMMA ReplyStep ==
  ASSUME IInv, NEW u \in Uploads, Reply(u)
  PROVE  IInv'
<1> USE UploadsAssumption DEF IInv, TypeOK, Reply, UGoto, downloadVars, InProgress
<1>1. TypeOK'
  BY ContentsAssumption, Sha256Assumption DEF UploadInv
<1>2. NothingLeftBehind'
  BY DEF NothingLeftBehind, UploadInv
<1>3. ASSUME NEW v \in Uploads PROVE UploadInv(v)'
  BY ContentsAssumption, Sha256Assumption DEF UploadInv, ActualHash, Settled
<1>4. ASSUME NEW h \in Hashes PROVE NameInv(h)'
  BY DEF NameInv, UploadInv, Settled
<1>5. ASSUME NEW d \in Downloads PROVE DownloadInv(d)'
  BY DEF DownloadInv, Settled
<1> QED BY <1>1, <1>2, <1>3, <1>4, <1>5

LEMMA OpenStep ==
  ASSUME IInv, NEW e \in Downloads, Open(e)
  PROVE  IInv'
<1> USE UploadsAssumption DEF IInv, TypeOK, Open, DGoto, uploadVars, InProgress
<1>0. \A c \in Contents : <<>> \in Seq(Chunks) /\ IsPrefixOf(<<>>, c)
  BY EmptyPrefix, ContentsAssumption
<1>1. TypeOK'
  BY ContentsAssumption DEF DownloadInv
<1>2. NothingLeftBehind'
  BY DEF NothingLeftBehind
<1>3. ASSUME NEW v \in Uploads PROVE UploadInv(v)'
  BY DEF UploadInv, ActualHash, Settled
<1>4. ASSUME NEW h \in Hashes PROVE NameInv(h)'
  BY DEF NameInv
<1>5. ASSUME NEW d \in Downloads PROVE DownloadInv(d)'
  BY <1>0, ContentsAssumption DEF DownloadInv, NameInv, HasHash
<1> QED BY <1>1, <1>2, <1>3, <1>4, <1>5

LEMMA NotFoundStep ==
  ASSUME IInv, NEW e \in Downloads, NotFound(e)
  PROVE  IInv'
<1> USE UploadsAssumption DEF IInv, TypeOK, NotFound, DGoto, uploadVars, InProgress
<1>1. TypeOK'
  BY ContentsAssumption DEF DownloadInv
<1>2. NothingLeftBehind'
  BY DEF NothingLeftBehind
<1>3. ASSUME NEW v \in Uploads PROVE UploadInv(v)'
  BY DEF UploadInv, ActualHash, Settled
<1>4. ASSUME NEW h \in Hashes PROVE NameInv(h)'
  BY DEF NameInv
<1>5. ASSUME NEW d \in Downloads PROVE DownloadInv(d)'
  BY ContentsAssumption DEF DownloadInv, NameInv
<1> QED BY <1>1, <1>2, <1>3, <1>4, <1>5

LEMMA TransferStep ==
  ASSUME IInv, NEW e \in Downloads, Transfer(e)
  PROVE  IInv'
<1> USE UploadsAssumption DEF IInv, TypeOK, Transfer, DGoto, uploadVars, InProgress
<1>a. got[e] \in Seq(Chunks) /\ file[opened[e]] \in Seq(Chunks)
  BY ContentsAssumption DEF DownloadInv
<1>0. /\ Append(got[e], file[opened[e]][Len(got[e]) + 1]) \in Seq(Chunks)
      /\ IsPrefixOf(got[e], file[opened[e]])
         => IsPrefixOf(Append(got[e], file[opened[e]][Len(got[e]) + 1]), file[opened[e]])
  <2>1. file[opened[e]][Len(got[e]) + 1] \in Chunks
    BY <1>a
  <2>2. Append(got[e], file[opened[e]][Len(got[e]) + 1]) \in Seq(Chunks)
    BY <1>a, <2>1
  <2> QED BY <1>a, <2>2, AppendPrefix
<1>1. TypeOK'
  BY <1>0, ContentsAssumption DEF DownloadInv
<1>2. NothingLeftBehind'
  BY DEF NothingLeftBehind
<1>3. ASSUME NEW v \in Uploads PROVE UploadInv(v)'
  BY DEF UploadInv, ActualHash, Settled
<1>4. ASSUME NEW h \in Hashes PROVE NameInv(h)'
  BY DEF NameInv
<1>5. ASSUME NEW d \in Downloads PROVE DownloadInv(d)'
  BY <1>0, ContentsAssumption DEF DownloadInv, NameInv, HasHash
<1> QED BY <1>1, <1>2, <1>3, <1>4, <1>5

LEMMA VerifiedStep ==
  ASSUME IInv, NEW e \in Downloads, Verified(e)
  PROVE  IInv'
<1> USE UploadsAssumption DEF IInv, TypeOK, Verified, DGoto, uploadVars, InProgress
<1>1. TypeOK'
  BY ContentsAssumption DEF DownloadInv
<1>2. NothingLeftBehind'
  BY DEF NothingLeftBehind
<1>3. ASSUME NEW v \in Uploads PROVE UploadInv(v)'
  BY DEF UploadInv, ActualHash, Settled
<1>4. ASSUME NEW h \in Hashes PROVE NameInv(h)'
  BY DEF NameInv
<1>5. ASSUME NEW d \in Downloads PROVE DownloadInv(d)'
  BY ContentsAssumption DEF DownloadInv, NameInv
<1> QED BY <1>1, <1>2, <1>3, <1>4, <1>5

LEMMA MismatchStep ==
  ASSUME IInv, NEW e \in Downloads, Mismatch(e)
  PROVE  IInv'
<1> USE UploadsAssumption DEF IInv, TypeOK, Mismatch, DGoto, uploadVars, InProgress
<1>0. opened[e] \in damaged
  <2> SUFFICES ASSUME opened[e] \notin damaged PROVE FALSE
    OBVIOUS
  <2>1. file[opened[e]] \in Contents /\ file[opened[e]] \in Seq(Chunks)
    BY ContentsAssumption DEF DownloadInv, HasHash
  <2>2. got[e] \in Seq(Chunks) /\ IsPrefixOf(got[e], file[opened[e]])
    BY DEF DownloadInv
  <2>3. Len(got[e]) = Len(file[opened[e]])
    BY <2>1, <2>2 DEF IsPrefixOf
  <2>4. got[e] = file[opened[e]]
    BY <2>1, <2>2, <2>3, WholePrefix
  <2> QED BY <2>4 DEF DownloadInv
<1>1. TypeOK'
  BY ContentsAssumption DEF DownloadInv
<1>2. NothingLeftBehind'
  BY DEF NothingLeftBehind
<1>3. ASSUME NEW v \in Uploads PROVE UploadInv(v)'
  BY DEF UploadInv, ActualHash, Settled
<1>4. ASSUME NEW h \in Hashes PROVE NameInv(h)'
  BY DEF NameInv
<1>5. ASSUME NEW d \in Downloads PROVE DownloadInv(d)'
  BY <1>0, ContentsAssumption DEF DownloadInv, NameInv, HasHash
<1> QED BY <1>1, <1>2, <1>3, <1>4, <1>5

LEMMA DownloadFailsStep ==
  ASSUME IInv, NEW e \in Downloads, DownloadFails(e)
  PROVE  IInv'
<1> USE UploadsAssumption DEF IInv, TypeOK, DownloadFails, DGoto, uploadVars, InProgress
<1>1. TypeOK'
  BY ContentsAssumption DEF DownloadInv
<1>2. NothingLeftBehind'
  BY DEF NothingLeftBehind
<1>3. ASSUME NEW v \in Uploads PROVE UploadInv(v)'
  BY DEF UploadInv, ActualHash, Settled
<1>4. ASSUME NEW h \in Hashes PROVE NameInv(h)'
  BY DEF NameInv
<1>5. ASSUME NEW d \in Downloads PROVE DownloadInv(d)'
  BY ContentsAssumption DEF DownloadInv, NameInv
<1> QED BY <1>1, <1>2, <1>3, <1>4, <1>5

LEMMA DamageStep ==
  ASSUME IInv, NEW u \in Uploads, Damage(u)
  PROVE  IInv'
<1> USE UploadsAssumption DEF IInv, TypeOK, Damage, InProgress, downloadVars
<1>1. TypeOK'
  OBVIOUS
<1>2. NothingLeftBehind'
  BY DEF NothingLeftBehind
<1>3. ASSUME NEW v \in Uploads PROVE UploadInv(v)'
  BY DEF UploadInv, NameInv, Settled, ActualHash
<1>4. ASSUME NEW h \in Hashes PROVE NameInv(h)'
  BY DEF NameInv
<1>5. ASSUME NEW d \in Downloads PROVE DownloadInv(d)'
  BY DEF DownloadInv
<1> QED BY <1>1, <1>2, <1>3, <1>4, <1>5

LEMMA CrashStep ==
  ASSUME IInv, Crash
  PROVE  IInv'
<1> USE DEF IInv, TypeOK, Crash, InProgress
<1>1. TypeOK'
  BY BoundsAssumption
<1>2. NothingLeftBehind'
  BY DEF NothingLeftBehind
<1>3. ASSUME NEW v \in Uploads PROVE UploadInv(v)'
  BY DEF UploadInv, ActualHash, Settled
<1>4. ASSUME NEW h \in Hashes PROVE NameInv(h)'
  BY DEF NameInv, Settled
<1>5. ASSUME NEW d \in Downloads PROVE DownloadInv(d)'
  BY DEF DownloadInv, Settled
<1> QED BY <1>1, <1>2, <1>3, <1>4, <1>5

LEMMA StutterStep ==
  ASSUME IInv, UNCHANGED vars
  PROVE  IInv'
<1> USE DEF vars, uploadVars, downloadVars
<1>1. TypeOK'
  BY DEF IInv, TypeOK
<1>2. NothingLeftBehind'
  BY DEF IInv, NothingLeftBehind
<1>3. \A u \in Uploads : UploadInv(u)'
  BY DEF IInv, UploadInv, ActualHash
<1>4. \A h \in Hashes : NameInv(h)'
  BY DEF IInv, NameInv
<1>5. \A d \in Downloads : DownloadInv(d)'
  BY DEF IInv, DownloadInv
<1> QED BY <1>1, <1>2, <1>3, <1>4, <1>5 DEF IInv

LEMMA UploadStepInv ==
  ASSUME IInv, NEW u \in Uploads, UploadStep(u)
  PROVE  IInv'
BY StartUploadStep, ReceiveStep, ReceiveDoneStep, UploadFailsStep, CreateFileStep, CopyStep,
   CopyEndsStep, RenameStep, PutObjectStep, PutReplyLostStep, StoreFailsStep, ReplyStep DEF UploadStep

LEMMA DownloadStepInv ==
  ASSUME IInv, NEW d \in Downloads, DownloadStep(d)
  PROVE  IInv'
BY OpenStep, NotFoundStep, TransferStep, VerifiedStep, MismatchStep, DownloadFailsStep DEF DownloadStep

LEMMA NextInv == IInv /\ [Next]_vars => IInv'
BY UploadStepInv, DownloadStepInv, DamageStep, CrashStep, StutterStep DEF Next

\* The inductive invariant of CreateBlob, the stores and GetBlob.
THEOREM Inductive == Spec => []IInv
<1>1. Init => IInv
  BY InitInv
<1>2. IInv /\ [Next]_vars => IInv'
  BY NextInv
<1> QED BY <1>1, <1>2, PTL DEF Spec

\* Every variable keeps its type.
THEOREM TypeCorrect == Spec => []TypeOK
<1>1. IInv => TypeOK
  BY DEF IInv
<1> QED BY <1>1, Inductive, PTL

\* What stands under a blob's name is the whole blob, for any uploads that
\* overlap, fail or are cut off (FilesystemStore.CreateBlob).
THEOREM Published == Spec => []PublishedWhole
<1>1. IInv => PublishedWhole
  BY DEF IInv, NameInv, PublishedWhole
<1> QED BY <1>1, Inductive, PTL

\* A download ends in "downloaded blob hash did not match expected hash" only
\* if the file it read was damaged after it was stored.
THEOREM Matched == Spec => []MismatchOnlyIfDamaged
<1>1. IInv => MismatchOnlyIfDamaged
  BY DEF IInv, DownloadInv, MismatchOnlyIfDamaged
<1> QED BY <1>1, Inductive, PTL

\* Only whole blobs are stored and sent: neither a copy that was cut off nor an
\* upload that takes over a name shows to a reader (FilesystemStore.CreateBlob).
THEOREM WholeBlobs == Spec => []OnlyWholeBlobs
BY Published, Matched, PTL DEF OnlyWholeBlobs

\* Temporary files do not outlive the calls that made them, a crash excepted.
THEOREM LeftNothing == Spec => []NothingLeftBehind
<1>1. IInv => NothingLeftBehind
  BY DEF IInv
<1> QED BY <1>1, Inductive, PTL

-----------------------------------------------------------------------------

Stored == {h \in Hashes : names[h] # NoUpload}
Acked == [u \in Uploads |-> IF upc[u] = "ok" THEN declared[u] ELSE NoAnswer]
Fetched == [d \in Downloads |->
  IF dpc[d] = "ok" THEN [asked |-> asked[d], content |-> got[d]] ELSE NoAnswer]

Abstract == <<Stored, Acked, Fetched>>

\* A step that neither publishes a blob nor ends a call with success.
LEMMA QuietStep ==
  ASSUME names' = names,
         \A u \in Uploads : upc[u] = "ok" \/ upc'[u] = "ok"
           => upc'[u] = upc[u] /\ declared'[u] = declared[u],
         \A d \in Downloads : dpc[d] = "ok" \/ dpc'[d] = "ok"
           => dpc'[d] = dpc[d] /\ asked'[d] = asked[d] /\ got'[d] = got[d]
  PROVE  UNCHANGED Abstract
<1>1. Stored' = Stored
  BY DEF Stored
<1>2. Acked' = Acked
  BY DEF Acked
<1>3. Fetched' = Fetched
  BY DEF Fetched
<1> QED BY <1>1, <1>2, <1>3 DEF Abstract

LEMMA ReceiveQuiet ==
  ASSUME TypeOK, NEW u \in Uploads, Receive(u)
  PROVE  UNCHANGED Abstract
BY QuietStep DEF TypeOK, Receive, UGoto, downloadVars

LEMMA ReceiveDoneQuiet ==
  ASSUME TypeOK, NEW u \in Uploads, ReceiveDone(u)
  PROVE  UNCHANGED Abstract
BY QuietStep DEF TypeOK, ReceiveDone, UGoto, downloadVars

LEMMA UploadFailsQuiet ==
  ASSUME TypeOK, NEW u \in Uploads, UploadFails(u)
  PROVE  UNCHANGED Abstract
BY QuietStep DEF TypeOK, UploadFails, UGoto, Abort, downloadVars

LEMMA CreateFileQuiet ==
  ASSUME TypeOK, NEW u \in Uploads, CreateFile(u)
  PROVE  UNCHANGED Abstract
BY QuietStep DEF TypeOK, CreateFile, UGoto, downloadVars

LEMMA CopyQuiet ==
  ASSUME TypeOK, NEW u \in Uploads, Copy(u)
  PROVE  UNCHANGED Abstract
BY QuietStep DEF TypeOK, Copy, UGoto, downloadVars

LEMMA CopyEndsQuiet ==
  ASSUME TypeOK, NEW u \in Uploads, CopyEnds(u)
  PROVE  UNCHANGED Abstract
BY QuietStep DEF TypeOK, CopyEnds, UGoto, downloadVars

LEMMA StoreFailsQuiet ==
  ASSUME TypeOK, NEW u \in Uploads, StoreFails(u)
  PROVE  UNCHANGED Abstract
BY QuietStep DEF TypeOK, StoreFails, UGoto, Abort, downloadVars

LEMMA StartUploadQuiet ==
  ASSUME TypeOK, NEW u \in Uploads, StartUpload(u)
  PROVE  UNCHANGED Abstract
BY QuietStep DEF TypeOK, StartUpload, UGoto, downloadVars

LEMMA OpenQuiet ==
  ASSUME TypeOK, NEW d \in Downloads, Open(d)
  PROVE  UNCHANGED Abstract
BY QuietStep DEF TypeOK, Open, DGoto, uploadVars

LEMMA NotFoundQuiet ==
  ASSUME TypeOK, NEW d \in Downloads, NotFound(d)
  PROVE  UNCHANGED Abstract
BY QuietStep DEF TypeOK, NotFound, DGoto, uploadVars

LEMMA TransferQuiet ==
  ASSUME TypeOK, NEW d \in Downloads, Transfer(d)
  PROVE  UNCHANGED Abstract
BY QuietStep DEF TypeOK, Transfer, DGoto, uploadVars

LEMMA MismatchQuiet ==
  ASSUME TypeOK, NEW d \in Downloads, Mismatch(d)
  PROVE  UNCHANGED Abstract
BY QuietStep DEF TypeOK, Mismatch, DGoto, uploadVars

LEMMA DownloadFailsQuiet ==
  ASSUME TypeOK, NEW d \in Downloads, DownloadFails(d)
  PROVE  UNCHANGED Abstract
BY QuietStep DEF TypeOK, DownloadFails, DGoto, uploadVars

LEMMA DamageQuiet ==
  ASSUME TypeOK, NEW u \in Uploads, Damage(u)
  PROVE  UNCHANGED Abstract
BY QuietStep DEF TypeOK, Damage, downloadVars

LEMMA CrashQuiet ==
  ASSUME TypeOK, Crash
  PROVE  UNCHANGED Abstract
BY QuietStep DEF TypeOK, Crash, InProgress

LEMMA StutterQuiet ==
  ASSUME UNCHANGED vars
  PROVE  UNCHANGED Abstract
BY QuietStep DEF vars, uploadVars, downloadVars

\* The store publishes the content of the scratch file under its hash.
LEMMA PublishStores ==
  ASSUME IInv, NEW u \in Uploads,
         upc[u] \in {"create", "finalize"}, upc'[u] \in {"reply", "failed"},
         \A v \in Uploads : v # u => upc'[v] = upc[v],
         names' = [names EXCEPT ![ActualHash(u)] = u],
         UNCHANGED <<declared, downloadVars>>
  PROVE  \E c \in Contents : Registry!Store(c)
<1> USE DEF IInv, TypeOK
<1>1. scratch[u] \in Contents /\ ActualHash(u) \in Hashes
  BY Sha256Assumption DEF UploadInv, InProgress, ActualHash
<1>2. Stored' = Stored \cup {Sha256[scratch[u]]}
  BY <1>1, UploadsAssumption DEF Stored, ActualHash
<1>3. Acked' = Acked
  BY DEF Acked
<1>4. Fetched' = Fetched
  BY DEF Fetched, downloadVars
<1> QED BY <1>1, <1>2, <1>3, <1>4 DEF Registry!Store, Stored, Acked, Fetched

LEMMA RenameStores ==
  ASSUME IInv, NEW u \in Uploads, Rename(u)
  PROVE  \E c \in Contents : Registry!Store(c)
BY PublishStores DEF IInv, TypeOK, Rename, UGoto

LEMMA PutObjectStores ==
  ASSUME IInv, NEW u \in Uploads, PutObject(u)
  PROVE  \E c \in Contents : Registry!Store(c)
BY PublishStores DEF IInv, TypeOK, PutObject, UGoto

LEMMA PutReplyLostStores ==
  ASSUME IInv, NEW u \in Uploads, PutReplyLost(u)
  PROVE  \E c \in Contents : Registry!Store(c)
BY PublishStores DEF IInv, TypeOK, PutReplyLost, UGoto, Abort

\* The hash an upload is acknowledged for stands for a stored blob.
LEMMA ReplyAcknowledges ==
  ASSUME IInv, NEW u \in Uploads, Reply(u)
  PROVE  Registry!Acknowledge(u) \/ UNCHANGED Abstract
<1> USE DEF IInv, TypeOK
<1>1. upc[u] = "reply" /\ declared[u] \in Stored
  BY DEF Reply, UploadInv, Stored
<1>2. CASE upc' = [upc EXCEPT ![u] = "ok"]
  <2>1. Acked[u] = NoAnswer
    BY <1>1 DEF Acked
  <2>2. Acked' = [Acked EXCEPT ![u] = declared[u]]
    BY <1>2 DEF Acked, Reply
  <2>3. Stored' = Stored /\ Fetched' = Fetched
    BY DEF Reply, Stored, Fetched, downloadVars
  <2> QED BY <1>1, <2>1, <2>2, <2>3 DEF Registry!Acknowledge, Stored, Acked, Fetched
<1>3. CASE upc' = [upc EXCEPT ![u] = "failed"]
  BY <1>1, <1>3, QuietStep DEF Reply, downloadVars
<1> QED BY <1>2, <1>3 DEF Reply, UGoto

\* What a verified download brings is the content with that hash.
LEMMA VerifiedFetches ==
  ASSUME IInv, NEW d \in Downloads, Verified(d)
  PROVE  \E c \in Contents : Registry!Fetch(d, c)
<1> USE DEF IInv, TypeOK
<1>1. got[d] \in Contents
  BY DEF Verified, HasHash
<1>2. Sha256[got[d]] = asked[d] /\ asked[d] \in Stored
  BY DEF Verified, HasHash, DownloadInv, Stored
<1>3. Fetched[d] = NoAnswer
  BY DEF Fetched, Verified
<1>4. Fetched' = [Fetched EXCEPT ![d] = [asked |-> Sha256[got[d]], content |-> got[d]]]
  BY <1>2 DEF Fetched, Verified, DGoto
<1>5. Stored' = Stored /\ Acked' = Acked
  BY DEF Verified, uploadVars, Stored, Acked
<1> QED BY <1>1, <1>2, <1>3, <1>4, <1>5 DEF Registry!Fetch, Stored, Acked, Fetched

LEMMA UploadSimulates ==
  ASSUME IInv, NEW u \in Uploads, UploadStep(u)
  PROVE  \/ \E c \in Contents : Registry!Store(c)
         \/ Registry!Acknowledge(u)
         \/ UNCHANGED Abstract
BY ReceiveQuiet, ReceiveDoneQuiet, UploadFailsQuiet, CreateFileQuiet,
   CopyQuiet, CopyEndsQuiet, StoreFailsQuiet, StartUploadQuiet,
   RenameStores, PutObjectStores, PutReplyLostStores, ReplyAcknowledges
   DEF UploadStep, IInv

LEMMA DownloadSimulates ==
  ASSUME IInv, NEW d \in Downloads, DownloadStep(d)
  PROVE  (\E c \in Contents : Registry!Fetch(d, c)) \/ UNCHANGED Abstract
BY OpenQuiet, NotFoundQuiet, TransferQuiet, MismatchQuiet, DownloadFailsQuiet,
   VerifiedFetches DEF DownloadStep, IInv

\* Uploads and downloads implement the atomic registry of blobs.
THEOREM Refinement == Spec => BlobRegistrySpec
<1>1. Init => Registry!Init
  BY DEF Init, Registry!Init
<1>2. IInv /\ [Next]_vars => [Registry!Next]_(Registry!vars)
  <2> SUFFICES ASSUME IInv, [Next]_vars
               PROVE  Registry!Next \/ UNCHANGED Registry!vars
    OBVIOUS
  <2>1. UNCHANGED Abstract => UNCHANGED Registry!vars
    BY DEF Abstract, Stored, Acked, Fetched, Registry!vars
  <2>2. ASSUME NEW u \in Uploads, UploadStep(u)
        PROVE  Registry!Next \/ UNCHANGED Abstract
    BY <2>2, UploadSimulates DEF Registry!Next
  <2>3. ASSUME NEW d \in Downloads, DownloadStep(d)
        PROVE  Registry!Next \/ UNCHANGED Abstract
    BY <2>3, DownloadSimulates DEF Registry!Next
  <2> QED BY <2>1, <2>2, <2>3, DamageQuiet, CrashQuiet, StutterQuiet DEF Next, IInv
<1> QED BY <1>1, <1>2, Inductive, PTL DEF Spec, BlobRegistrySpec, Registry!Spec

=============================================================================
