---------------------------- MODULE GithubProofs ----------------------------
(* Proofs about what kweb keeps of GitHub: GithubSync, for any installations,*)
(* pages and replicas; AppTokens, for any number of goroutines, any clocks and*)
(* any margins that keep the order the code's have; OauthSessions, for any  *)
(* number of callers, users and sessions.                                   *)
EXTENDS GithubSync, AppTokens, OauthSessions,
        FiniteSetTheorems, SequenceTheorems, TLAPS

-----------------------------------------------------------------------------
(* GithubSync: the paths of the objects.                                    *)

\* Two sequences, one after the other.
LEMMA Joined ==
  ASSUME NEW S, NEW s \in Seq(S), NEW t \in Seq(S)
  PROVE  /\ s \o t \in Seq(S) /\ Len(s \o t) = Len(s) + Len(t)
         /\ \A k \in 1..Len(s) : (s \o t)[k] = s[k]
         /\ \A k \in 1..Len(t) : (s \o t)[Len(s) + k] = t[k]
<1>1. s \o t \in Seq(S)
  BY ConcatProperties
<1>2. Len(s \o t) = Len(s) + Len(t)
  BY ConcatProperties
<1>3. \A i \in 1 .. Len(s) + Len(t) : (s \o t)[i] =
                     IF i <= Len(s) THEN s[i] ELSE t[i - Len(s)]
  BY ConcatProperties
<1>4. \A k \in 1..Len(s) : (s \o t)[k] = s[k]
  BY <1>3
<1>5. ASSUME NEW k \in 1..Len(t) PROVE (s \o t)[Len(s) + k] = t[k]
  BY <1>3
<1> QED BY <1>1, <1>2, <1>4, <1>5

\* What the path of an installation's object says: it is built of two, one, two,
\* one and one names.
LEMMA PathShape ==
  ASSUME NEW i \in Installations
  PROVE  /\ Len(PathOf(i)) = 7
         /\ PathOf(i)[4] = "namespaces"
         /\ PathOf(i)[5] = NamespaceFor(AccountOf[i])
         /\ PathOf(i)[7] = NameFor(i)
<1> DEFINE g1 == "apis"
           g2 == AppInstallation.Group
           v == AppInstallation.Version
           n1 == "namespaces"
           n2 == NamespaceFor(AccountOf[i])
           resource == AppInstallation.Resource
           name == NameFor(i)
           path == PathOf(i)
           S == {g1, g2, v, n1, n2, resource, name}
<1>a. AppInstallation.Group # ""
  BY DEF AppInstallation, KindInfo
<1>b. NamespaceFor(AccountOf[i]) # ""
  BY FormatAssumption
<1>0. path = Append(((<<g1, g2>> \o <<v>>) \o <<n1, n2>>) \o <<resource>>, name)
  BY <1>a, <1>b DEF PathOf, ObjectPath, CollectionPath
<1> HIDE DEF g1, g2, v, n1, n2, resource, name, path
<1>1. PICK a, b, c, d : /\ a = <<g1, g2>> /\ b = <<v>> /\ c = <<n1, n2>>
                        /\ d = <<resource>>
  OBVIOUS
<1>2. /\ a \in Seq(S) /\ b \in Seq(S) /\ c \in Seq(S) /\ d \in Seq(S)
      /\ name \in S
  BY <1>1
<1>3. Len(a) = 2 /\ Len(b) = 1 /\ Len(c) = 2 /\ Len(d) = 1
  BY <1>1
<1>4. c[1] = n1 /\ c[2] = n2
  BY <1>1
<1>5. path = Append(((a \o b) \o c) \o d, name)
  BY <1>0, <1>1
<1> HIDE DEF S
<1>6. a \o b \in Seq(S) /\ Len(a \o b) = 3
  <2>1. a \o b \in Seq(S) /\ Len(a \o b) = Len(a) + Len(b)
    BY <1>2, Joined
  <2> QED BY <2>1, <1>3
<1>7. (a \o b) \o c \in Seq(S) /\ Len((a \o b) \o c) = 5
  <2>1. (a \o b) \o c \in Seq(S) /\ Len((a \o b) \o c) = Len(a \o b) + Len(c)
    BY <1>2, <1>6, Joined
  <2> QED BY <2>1, <1>3, <1>6
<1>8. ((a \o b) \o c)[4] = n1 /\ ((a \o b) \o c)[5] = n2
  <2>1. \A k \in 1..Len(c) : ((a \o b) \o c)[Len(a \o b) + k] = c[k]
    BY <1>2, <1>6, Joined
  <2> QED BY <2>1, <1>3, <1>4, <1>6
<1>9. /\ ((a \o b) \o c) \o d \in Seq(S) /\ Len(((a \o b) \o c) \o d) = 6
      /\ (((a \o b) \o c) \o d)[4] = n1 /\ (((a \o b) \o c) \o d)[5] = n2
  <2> DEFINE abc == (a \o b) \o c
  <2>1. abc \in Seq(S) /\ Len(abc) = 5 /\ abc[4] = n1 /\ abc[5] = n2
    BY <1>7, <1>8
  <2> HIDE DEF abc
  <2>2. /\ abc \o d \in Seq(S) /\ Len(abc \o d) = Len(abc) + Len(d)
        /\ \A k \in 1..Len(abc) : (abc \o d)[k] = abc[k]
    <3>1. abc \in Seq(S) /\ d \in Seq(S)
      BY <1>2, <2>1
    <3> QED BY <3>1, Joined
  <2>3. (abc \o d)[4] = abc[4] /\ (abc \o d)[5] = abc[5]
    BY <2>1, <2>2
  <2>4. Len(abc) + Len(d) = 6
    BY <2>1, <1>3
  <2>5. /\ abc \o d \in Seq(S) /\ Len(abc \o d) = 6
        /\ (abc \o d)[4] = n1 /\ (abc \o d)[5] = n2
    BY <2>1, <2>2, <2>3, <2>4, Zenon
  <2> QED BY <2>5 DEF abc
<1>10. Len(path) = 7 /\ path[4] = n1 /\ path[5] = n2 /\ path[7] = name
  <2> DEFINE abcd == ((a \o b) \o c) \o d
  <2>1. abcd \in Seq(S) /\ Len(abcd) = 6 /\ abcd[4] = n1 /\ abcd[5] = n2
    BY <1>9
  <2>2. path = Append(abcd, name)
    BY <1>5
  <2> HIDE DEF abcd
  <2>3. /\ Len(Append(abcd, name)) = Len(abcd) + 1
        /\ \A k \in 1..Len(abcd) : Append(abcd, name)[k] = abcd[k]
        /\ Append(abcd, name)[Len(abcd) + 1] = name
    <3>1. abcd \in Seq(S) /\ name \in S
      BY <1>2, <2>1
    <3> QED BY <3>1, AppendProperties
  <2>4. /\ Len(path) = Len(abcd) + 1
        /\ \A k \in 1..Len(abcd) : path[k] = abcd[k]
        /\ path[Len(abcd) + 1] = name
    BY <2>2, <2>3, Zenon
  <2>5. path[4] = abcd[4] /\ path[5] = abcd[5]
    BY <2>1, <2>4
  <2>6. Len(abcd) + 1 = 7
    BY <2>1
  <2> QED BY <2>1, <2>4, <2>5, <2>6, Zenon
<1> QED BY <1>10 DEF n1, n2, name, path

LEMMA Paths ==
  /\ \A i, j \in Installations : PathOf(i) = PathOf(j) => i = j
  /\ \A i \in Installations : /\ Namespaced(PathOf(i))
                              /\ NamespaceOf(PathOf(i)) = NamespaceFor(AccountOf[i])
                              /\ NameFor(i) # ""
<1>1. ASSUME NEW i \in Installations, NEW j \in Installations, PathOf(i) = PathOf(j)
      PROVE  i = j
  <2>1. PathOf(i)[7] = NameFor(i) /\ PathOf(j)[7] = NameFor(j)
    BY PathShape
  <2> QED BY <1>1, <2>1, FormatAssumption
<1>2. ASSUME NEW i \in Installations
      PROVE  Namespaced(PathOf(i)) /\ NamespaceOf(PathOf(i)) = NamespaceFor(AccountOf[i])
  <2> DEFINE path == PathOf(i)
  <2>1. Len(path) = 7 /\ path[4] = "namespaces" /\ path[5] = NamespaceFor(AccountOf[i])
    BY PathShape
  <2> HIDE DEF path
  <2>2. Namespaced(path) /\ NamespaceOf(path) = NamespaceFor(AccountOf[i])
    BY <2>1 DEF Namespaced, NamespaceOf
  <2> QED BY <2>2 DEF path
<1> QED BY <1>1, <1>2, FormatAssumption

-----------------------------------------------------------------------------
(* What an Apply changes.                                                      *)

\* What the API server answers, in terms of what stands in the way.
LEMMA Statuses ==
  ASSUME NEW item \in Items
  PROVE  /\ StatusFor(item) \in {200, 201} =>
              ~Conflicts(objects, PathOf(item.id), FieldManager, item.login)
         /\ StatusFor(item) \notin {200, 201} =>
              \/ NamespaceFor(AccountOf[item.id]) \notin namespaces
              \/ Conflicts(objects, PathOf(item.id), FieldManager, item.login)
<1>1. item.id \in Installations
  BY DEF Items
<1>2. /\ Namespaced(PathOf(item.id))
      /\ NamespaceOf(PathOf(item.id)) = NamespaceFor(AccountOf[item.id])
  BY <1>1, Paths
<1> DEFINE free == NamespaceFor(AccountOf[item.id]) \in namespaces
           conflict == Conflicts(objects, PathOf(item.id), FieldManager, item.login)
<1>3. ASSUME ~free PROVE StatusFor(item) = 404
  BY <1>2, <1>3 DEF StatusFor, ApplyStatus
<1>4. ASSUME free, conflict PROVE StatusFor(item) = 409
  BY <1>2, <1>4 DEF StatusFor, ApplyStatus, ForceConflicts
<1>5. ASSUME free, ~conflict PROVE StatusFor(item) \in {200, 201}
  BY <1>2, <1>5 DEF StatusFor, ApplyStatus, ForceConflicts
<1> HIDE DEF free, conflict
<1>6. /\ StatusFor(item) \in {200, 201} => ~conflict
      /\ StatusFor(item) \notin {200, 201} => ~free \/ conflict
  BY <1>3, <1>4, <1>5
<1> QED BY <1>6 DEF free, conflict

\* The caller is told that all is well just if the status says so.
LEMMA Telling ==
  ASSUME NEW item \in Items
  PROVE  /\ ToldByApply(NameFor(item.id), StatusFor(item)) = Ok
              <=> StatusFor(item) \in {200, 201}
         /\ ToldByApply(NameFor(item.id), 0) # Ok
<1>1. NameFor(item.id) # ""
  BY FormatAssumption DEF Items
<1>2. ASSUME NEW s
      PROVE  ToldByApply(NameFor(item.id), s) = Ok <=> s \in {200, 201}
  <2>1. ToldByApply(NameFor(item.id), s) = Told(ApplyAccepts, s)
    BY <1>1 DEF ToldByApply
  <2>2. Told(ApplyAccepts, s) = Ok <=> s \in ApplyAccepts
    <3>1. CASE s \in ApplyAccepts
      <4>1. s # 404
        BY <3>1 DEF ApplyAccepts
      <4> QED BY <3>1, <4>1 DEF Told
    <3>2. CASE s \notin ApplyAccepts
      BY <3>2 DEF Told, Ok, NotFound, Failed
    <3> QED BY <3>1, <3>2
  <2> QED BY <2>1, <2>2 DEF ApplyAccepts
<1>3. ToldByApply(NameFor(item.id), 0) # Ok
  <2>1. 0 \notin {200, 201}
    OBVIOUS
  <2> QED BY <1>2, <2>1
<1>4. ToldByApply(NameFor(item.id), StatusFor(item)) = Ok
        <=> StatusFor(item) \in {200, 201}
  BY <1>2
<1> QED BY <1>3, <1>4

\* An Apply that arrives brings its installation over for every replica that
\* began with no newer a login.
LEMMA Brings ==
  ASSUME NEW item \in Items, NEW r \in Replicas,
         StatusFor(item) \in {200, 201}, objects' = Arrived(item),
         SyncTypes, alone'[r] = alone[r], began'[r] = began[r],
         alone[r] => NewEnough(r, item)
  PROVE  Brought(r, item.id)'
<1> DEFINE path == PathOf(item.id)
<1>1. objects' = Applied(objects, path, FieldManager, item.login)
  BY DEF Arrived
<1>2. path \in DOMAIN objects' /\ objects'[path].value = item.login
  BY <1>1 DEF Applied
<1>3. /\ item.login \in Nat
      /\ began[r][AccountOf[item.id]] \in Nat
  <2>1. item.id \in Installations /\ item.login \in Nat
    BY DEF Items
  <2>2. AccountOf[item.id] \in Accounts
    BY <2>1 DEF Accounts
  <2>3. began[r] \in [Accounts -> Nat]
    BY DEF SyncTypes
  <2> QED BY <2>1, <2>2, <2>3
<1>4. alone[r] => item.login >= began[r][AccountOf[item.id]]
  BY <1>3 DEF NewEnough
<1> HIDE DEF path
<1>5. alone'[r] => objects'[path].value >= began'[r][AccountOf[item.id]]
  BY <1>2, <1>4
<1> QED BY <1>2, <1>5, Zenon DEF Brought, path

\* It takes away nothing that had been brought over.
LEMMA Arrival ==
  ASSUME NEW item \in Items, NEW r \in Replicas, NEW i \in Installations,
         objects' \in {objects, Arrived(item)},
         SyncTypes, alone'[r] = alone[r], began'[r] = began[r],
         alone[r] => NewEnough(r, item),
         Brought(r, i)
  PROVE  Brought(r, i)'
<1> DEFINE path == PathOf(i)
<1>1. CASE objects' = objects
  BY <1>1 DEF Brought
<1>2. CASE objects' # objects /\ i = item.id
  <2>1. objects' = Arrived(item) /\ StatusFor(item) \in {200, 201}
    BY <1>2 DEF Arrived
  <2>2. Brought(r, item.id)'
    BY <2>1, Brings
  <2> QED BY <2>2, <1>2, Zenon
<1>3. CASE objects' # objects /\ i # item.id
  <2>1. objects' = Applied(objects, PathOf(item.id), FieldManager, item.login)
    BY <1>3 DEF Arrived
  <2>2. path # PathOf(item.id)
    BY <1>3, Paths DEF Items
  <2>3. path \in DOMAIN objects
    BY DEF Brought
  <2> HIDE DEF path
  <2>4. path \in DOMAIN objects' /\ objects'[path] = objects[path]
    BY <2>1, <2>2, <2>3 DEF Applied
  <2> QED BY <2>4, Zenon DEF Brought, path
<1> QED BY <1>1, <1>2, <1>3, Zenon

-----------------------------------------------------------------------------
(* What steps that leave a replica alone do to its part of the invariant.      *)

LEMMA NothingOlderKept ==
  ASSUME NEW r \in Replicas, NothingOlder(r),
         Reached(r)' => Reached(r), alone'[r] => alone[r],
         began'[r] = began[r],
         \A a \in Accounts : began[r][a] <= login[a] => began[r][a] <= login'[a],
         late' \subseteq late,
         \A q \in Replicas : pc'[q] = "apply" =>
           pc[q] = "apply" /\ todo'[q] \subseteq todo[q]
  PROVE  NothingOlder(r)'
  BY Zenon DEF NothingOlder, NewEnough

LEMMA CoveringKept ==
  ASSUME NEW r \in Replicas, Covering(r),
         pc'[r] = pc[r], page'[r] = page[r], todo'[r] = todo[r],
         nextPage'[r] = nextPage[r], steady'[r] = steady[r],
         shifted'[r] = shifted[r], installed' = installed,
         \A i \in steady[r] : Brought(r, i) => Brought(r, i)'
  PROVE  Covering(r)'
<1>1. r \in Syncing' <=> r \in Syncing
  BY DEF Syncing
<1>2. \A i : Rank(i)' = Rank(i)
  BY DEF Rank
<1> QED BY <1>1, <1>2, Zenon DEF Covering

LEMMA CoversNothing ==
  ASSUME NEW r \in Replicas, r \notin Syncing',
         pc'[r] # "list", pc'[r] # "apply", pc'[r] # "done"
  PROVE  Covering(r)'
  BY Zenon DEF Covering

\* How many installations are listed before one.
LEMMA Ranks ==
  ASSUME SyncTypes
  PROVE  /\ Cardinality(installed) \in Nat
         /\ \A i \in Installations : Rank(i) \in Nat
         /\ \A i \in installed : Rank(i) < Cardinality(installed)
<1>1. IsFiniteSet(installed)
  BY InstallationsAssumption, FS_Subset DEF SyncTypes
<1>2. Cardinality(installed) \in Nat
  BY <1>1, FS_CardinalityType
<1>3. ASSUME NEW i \in Installations PROVE Rank(i) \in Nat
  <2> DEFINE before == {j \in installed : j < i}
  <2>1. before \subseteq installed
    OBVIOUS
  <2> HIDE DEF before
  <2>2. Cardinality(before) \in Nat
    BY <1>1, <2>1, FS_Subset, FS_CardinalityType
  <2> QED BY <2>2 DEF Rank, before
<1>4. ASSUME NEW i \in installed PROVE Rank(i) < Cardinality(installed)
  <2> DEFINE before == {j \in installed : j < i}
  <2>0. i \in Nat
    BY InstallationsAssumption DEF SyncTypes
  <2>1. before \subseteq installed /\ i \notin before
    BY <2>0
  <2> HIDE DEF before
  <2>2. before # installed
    BY <2>1
  <2>3. /\ Cardinality(before) <= Cardinality(installed)
        /\ Cardinality(before) # Cardinality(installed)
    BY <1>1, <2>1, <2>2, FS_Subset
  <2>4. Cardinality(before) \in Nat
    BY <1>1, <2>1, FS_Subset, FS_CardinalityType
  <2>5. Cardinality(before) < Cardinality(installed)
    BY <1>2, <2>3, <2>4
  <2> QED BY <2>5 DEF Rank, before
<1> QED BY <1>2, <1>3, <1>4

-----------------------------------------------------------------------------
(* The invariant holds at first, and every step keeps it.                      *)

LEMMA SyncInitially == SyncInit => SyncInv
<1> SUFFICES ASSUME SyncInit PROVE SyncInv
  OBVIOUS
<1> USE DEF SyncInit
<1>1. SyncTypes
  BY DEF SyncTypes
<1>2. \A r \in Replicas : ~Reached(r) /\ r \notin Syncing /\ pc[r] = "down"
  BY DEF Reached, Syncing
<1>3. \A r \in Replicas : NothingOlder(r) /\ Covering(r)
  BY <1>2 DEF NothingOlder, Covering
<1>4. FailsOnlyForCause
  BY DEF FailsOnlyForCause
<1> QED BY <1>1, <1>3, <1>4 DEF SyncInv

LEMMA StartKeeps ==
  ASSUME SyncInv, NEW r \in Replicas, Start(r)
  PROVE  SyncInv'
<1> USE DEF Start, github, cluster
<1>1. SyncTypes'
  <2>1. SyncTypes
    BY DEF SyncInv
  <2>2. alone' \in [Replicas -> BOOLEAN]
    BY <2>1 DEF SyncTypes
  <2>3. /\ steady' \in [Replicas -> SUBSET Installations]
        /\ began' \in [Replicas -> [Accounts -> Nat]]
        /\ todo' \in [Replicas -> SUBSET Items]
    BY <2>1 DEF SyncTypes
  <2>4. /\ pc' \in [Replicas -> {"down", "list", "apply", "done", "failed"}]
        /\ page' \in [Replicas -> Nat \ {0}] /\ nextPage' \in [Replicas -> Nat]
        /\ shifted' \in [Replicas -> BOOLEAN]
        /\ excuse' \in [Replicas -> BOOLEAN]
    BY <2>1 DEF SyncTypes
  <2> QED BY <2>1, <2>2, <2>3, <2>4 DEF SyncTypes
<1>2. ASSUME NEW q \in Replicas PROVE NothingOlder(q)' /\ Covering(q)'
  <2>1. CASE q = r
    <3>1. /\ pc'[r] = "list" /\ page'[r] = 1 /\ began'[r] = login
          /\ steady'[r] = installed
          /\ alone'[r] => Syncing = {} /\ late = {}
      BY DEF SyncInv, SyncTypes
    <3>2. ASSUME alone'[r]
          PROVE  late' = {} /\ \A q2 \in Replicas : pc'[q2] # "apply"
      BY <3>1, <3>2 DEF SyncInv, SyncTypes, Syncing
    <3>3. \A a \in Accounts : began'[r][a] <= login'[a]
      BY <3>1 DEF SyncInv, SyncTypes
    <3>4. NothingOlder(r)'
      BY <3>2, <3>3 DEF NothingOlder
    <3>5. ASSUME NEW i \in installed PROVE Rank(i)' >= (page'[r] - 1) * PerPage
      <4>1. Rank(i)' = Rank(i) /\ Rank(i) \in Nat
        BY Ranks DEF Rank, SyncInv, SyncTypes
      <4>2. (page'[r] - 1) * PerPage = 0
        BY <3>1, PerPageAssumption
      <4> QED BY <4>1, <4>2
    <3>6. Covering(r)'
      BY <3>1, <3>5 DEF Covering
    <3> QED BY <2>1, <3>4, <3>6
  <2>2. CASE q # r
    <3>1. /\ pc'[q] = pc[q] /\ page'[q] = page[q] /\ todo'[q] = todo[q]
          /\ nextPage'[q] = nextPage[q] /\ steady'[q] = steady[q]
          /\ shifted'[q] = shifted[q] /\ began'[q] = began[q]
          /\ alone'[q] => alone[q]
      BY <2>2 DEF SyncInv, SyncTypes
    <3>2. \A q2 \in Replicas : pc'[q2] = "apply" =>
            pc[q2] = "apply" /\ todo'[q2] \subseteq todo[q2]
      BY DEF SyncInv, SyncTypes
    <3>3. NothingOlder(q) /\ Covering(q)
      BY DEF SyncInv
    <3>4. NothingOlder(q)'
      BY <3>1, <3>2, <3>3, NothingOlderKept DEF Reached
    <3>5. \A i \in steady[q] : Brought(q, i) => Brought(q, i)'
      BY <3>1 DEF Brought
    <3>6. Covering(q)'
      BY <3>1, <3>3, <3>5, CoveringKept
    <3> QED BY <3>4, <3>6
  <2> QED BY <2>1, <2>2
<1>3. FailsOnlyForCause'
  BY DEF SyncInv, SyncTypes, FailsOnlyForCause
<1> QED BY <1>1, <1>2, <1>3 DEF SyncInv

\* What is read from a page, and where it leads.
LEMMA Pages ==
  ASSUME SyncTypes, NEW p \in Nat \ {0}
  PROVE  /\ Read(p) \subseteq Items
         /\ NextPageOf(p) \in Nat
         /\ NextPageOf(p) # 0 => NextPageOf(p) = p + 1
         /\ \A x \in Read(p) : x.login = login[AccountOf[x.id]]
         /\ \A i \in installed : Rank(i) >= (p - 1) * PerPage =>
              \/ \E x \in Read(p) : x.id = i
              \/ NextPageOf(p) = p + 1 /\ Rank(i) >= p * PerPage
<1>1. PageOf(p) \subseteq installed
  BY DEF PageOf
<1>2. \A i \in PageOf(p) : /\ i \in Installations /\ AccountOf[i] \in Accounts
                           /\ login[AccountOf[i]] \in Nat
  BY <1>1 DEF SyncTypes, Accounts
<1>3. Read(p) \subseteq Items
  BY <1>2 DEF Read, Items
<1>4. \A x \in Read(p) : x.login = login[AccountOf[x.id]]
  BY DEF Read
<1>5. NextPageOf(p) \in Nat /\ (NextPageOf(p) # 0 => NextPageOf(p) = p + 1)
  BY DEF NextPageOf
<1>6. ASSUME NEW i \in installed, Rank(i) >= (p - 1) * PerPage
      PROVE  \/ \E x \in Read(p) : x.id = i
             \/ NextPageOf(p) = p + 1 /\ Rank(i) >= p * PerPage
  <2>1. PICK before, after : before = (p - 1) * PerPage /\ after = p * PerPage
    OBVIOUS
  <2>2. before \in Nat /\ after \in Nat
    BY <2>1, PerPageAssumption
  <2>3. Rank(i) \in Nat /\ Cardinality(installed) \in Nat
        /\ Rank(i) < Cardinality(installed)
    BY Ranks DEF SyncTypes
  <2>4. CASE Rank(i) < after
    <3>1. i \in PageOf(p)
      BY <1>6, <2>1, <2>4 DEF PageOf
    <3> DEFINE x == [id |-> i, login |-> login[AccountOf[i]]]
    <3>2. x \in Read(p) /\ x.id = i
      BY <3>1 DEF Read
    <3> QED BY <3>2
  <2>5. CASE Rank(i) >= after
    <3>1. after < Cardinality(installed)
      BY <2>2, <2>3, <2>5
    <3> QED BY <2>1, <2>5, <3>1 DEF NextPageOf
  <2> QED BY <2>2, <2>3, <2>4, <2>5
<1> QED BY <1>3, <1>4, <1>5, <1>6

LEMMA ListPageKeeps ==
  ASSUME SyncInv, NEW r \in Replicas, ListPage(r)
  PROVE  SyncInv'
<1> USE DEF ListPage, github, cluster, history
<1> DEFINE p == page[r]
<1>0. SyncTypes /\ p \in Nat \ {0} /\ pc[r] = "list"
  BY DEF SyncInv, SyncTypes
<1>1. /\ Read(p) \subseteq Items /\ NextPageOf(p) \in Nat
      /\ NextPageOf(p) # 0 => NextPageOf(p) = p + 1
      /\ \A x \in Read(p) : x.login = login[AccountOf[x.id]]
  BY <1>0, Pages
<1>2. todo'[r] = Read(p) /\ nextPage'[r] = NextPageOf(p)
  BY <1>0 DEF SyncTypes
<1>3. \/ /\ Read(p) = {} /\ pc'[r] = "done" /\ page'[r] = p
         /\ NextPageOf(p) = 0
      \/ /\ Read(p) = {} /\ pc'[r] = "list" /\ page'[r] = NextPageOf(p)
         /\ NextPageOf(p) = p + 1
      \/ Read(p) # {} /\ pc'[r] = "apply" /\ page'[r] = p
  BY <1>0, <1>1 DEF SyncTypes, AfterPage, PageAfter
<1>4. \A q \in Replicas : q # r => /\ pc'[q] = pc[q] /\ page'[q] = page[q]
                                   /\ todo'[q] = todo[q]
                                   /\ nextPage'[q] = nextPage[q]
  BY <1>0 DEF SyncTypes
<1>5. SyncTypes'
  <2>1. /\ pc' \in [Replicas -> {"down", "list", "apply", "done", "failed"}]
        /\ page' \in [Replicas -> Nat \ {0}]
    <3>1. page[r] \in Nat \ {0} /\ NextPageOf(p) \in Nat
      BY <1>0, <1>1
    <3>2. /\ pc'[r] \in {"done", "list", "apply"}
          /\ page'[r] \in Nat \ {0}
      BY <1>0, <1>1, <1>3
    <3>3. pc' = [pc EXCEPT ![r] = pc'[r]] /\ page' = [page EXCEPT ![r] = page'[r]]
      BY <1>0 DEF SyncTypes
    <3> QED BY <1>0, <3>2, <3>3 DEF SyncTypes
  <2>2. /\ nextPage' \in [Replicas -> Nat]
        /\ todo' \in [Replicas -> SUBSET Items]
    BY <1>0, <1>1 DEF SyncTypes
  <2> QED BY <1>0, <2>1, <2>2 DEF SyncTypes
<1>6. ASSUME NEW q \in Replicas PROVE NothingOlder(q)'
  <2>1. Reached(q)' => Reached(q)
    BY <1>0, <1>4 DEF Reached
  <2>2. NothingOlder(q)
    BY DEF SyncInv
  <2>3. ASSUME Reached(q), NEW x \in Read(p)
        PROVE  NewEnough(q, x)
    <3>1. AccountOf[x.id] \in Accounts
      BY <1>1 DEF Items, Accounts
    <3> QED BY <1>1, <2>2, <2>3, <3>1 DEF NothingOlder, NewEnough
  <2>4. ASSUME Reached(q), alone[q], NEW q2 \in Replicas, pc'[q2] = "apply",
               NEW x \in todo'[q2]
        PROVE  NewEnough(q, x)
    BY <1>2, <1>4, <2>2, <2>3, <2>4 DEF NothingOlder
  <2>5. \A x : NewEnough(q, x)' <=> NewEnough(q, x)
    BY DEF NewEnough
  <2> QED BY <2>1, <2>2, <2>4, <2>5 DEF NothingOlder
<1>7. ASSUME NEW q \in Replicas PROVE Covering(q)'
  <2>1. \A i : Brought(q, i)' <=> Brought(q, i)
    BY DEF Brought
  <2>2. Covering(q)
    BY DEF SyncInv
  <2>3. CASE q # r
    BY <1>4, <2>1, <2>2, <2>3, CoveringKept
  <2>4. CASE q = r
    <3> SUFFICES ASSUME ~shifted[r], NEW i \in steady[r]
                 PROVE  /\ i \in installed
                        /\ pc'[r] = "list" =>
                             \/ Brought(r, i)
                             \/ Rank(i) >= (page'[r] - 1) * PerPage
                        /\ pc'[r] = "apply" =>
                             \/ Brought(r, i)
                             \/ \E x \in todo'[r] : x.id = i
                             \/ /\ nextPage'[r] = page'[r] + 1
                                /\ Rank(i) >= page'[r] * PerPage
                        /\ pc'[r] = "done" => Brought(r, i)
      <4>1. \A i : Rank(i)' = Rank(i)
        BY DEF Rank
      <4> QED BY <2>1, <2>4, <4>1 DEF Covering
    <3>1. i \in installed /\ (Brought(r, i) \/ Rank(i) >= (p - 1) * PerPage)
      BY <1>0, <2>2, <2>4 DEF Covering, Syncing
    <3>2. CASE Brought(r, i)
      BY <3>1, <3>2
    <3>3. CASE Rank(i) >= (p - 1) * PerPage
      <4>1. \/ \E x \in Read(p) : x.id = i
            \/ NextPageOf(p) = p + 1 /\ Rank(i) >= p * PerPage
        BY <1>0, <3>1, <3>3, Pages
      <4>2. (p + 1) - 1 = p /\ p + 1 # 0
        BY <1>0
      <4>3. CASE pc'[r] = "done"
        BY <1>3, <4>1, <4>2, <4>3
      <4>4. CASE pc'[r] = "list"
        BY <1>3, <3>1, <4>1, <4>2, <4>4
      <4>5. CASE pc'[r] = "apply"
        BY <1>2, <1>3, <3>1, <4>1, <4>5
      <4> QED BY <1>3, <4>3, <4>4, <4>5
    <3> QED BY <3>1, <3>2, <3>3
  <2> QED BY <2>3, <2>4
<1>8. FailsOnlyForCause'
  BY <1>0, <1>3, <1>4 DEF SyncInv, FailsOnlyForCause
<1> QED BY <1>5, <1>6, <1>7, <1>8 DEF SyncInv

LEMMA ListFailsKeeps ==
  ASSUME SyncInv, NEW r \in Replicas, ListFails(r)
  PROVE  SyncInv'
<1> USE DEF ListFails, github, cluster
<1>0. SyncTypes
  BY DEF SyncInv
<1>1. SyncTypes'
  BY <1>0 DEF SyncTypes
<1>2. /\ pc'[r] = "failed" /\ excuse'[r]
      /\ \A q \in Replicas : q # r => pc'[q] = pc[q] /\ excuse'[q] = excuse[q]
  BY <1>0 DEF SyncTypes
<1>3. ASSUME NEW q \in Replicas PROVE NothingOlder(q)' /\ Covering(q)'
  <2>1. NothingOlder(q) /\ Covering(q)
    BY DEF SyncInv
  <2>2. /\ Reached(q)' => Reached(q)
        /\ \A q2 \in Replicas : pc'[q2] = "apply" => pc[q2] = "apply"
    BY <1>2 DEF Reached
  <2>3. NothingOlder(q)'
    BY <2>1, <2>2, NothingOlderKept
  <2>4. CASE q = r
    <3>1. /\ q \notin Syncing' /\ pc'[q] # "list" /\ pc'[q] # "apply"
          /\ pc'[q] # "done"
      BY <1>2, <2>4 DEF Syncing
    <3> QED BY <2>3, <3>1, CoversNothing
  <2>5. CASE q # r
    <3>1. \A i : Brought(q, i) => Brought(q, i)'
      BY DEF Brought
    <3>2. /\ pc'[q] = pc[q] /\ page'[q] = page[q] /\ todo'[q] = todo[q]
          /\ nextPage'[q] = nextPage[q] /\ steady'[q] = steady[q]
          /\ shifted'[q] = shifted[q] /\ installed' = installed
      BY <1>2, <2>5
    <3>3. \A i \in steady[q] : Brought(q, i) => Brought(q, i)'
      BY <3>1
    <3> QED BY <2>1, <2>3, <3>2, <3>3, CoveringKept
  <2> QED BY <2>3, <2>4, <2>5
<1>4. FailsOnlyForCause'
  BY <1>2 DEF SyncInv, FailsOnlyForCause
<1> QED BY <1>1, <1>3, <1>4 DEF SyncInv

\* A replica other than the one that sent it finds an Apply's traces only in
\* the objects.
LEMMA OthersKeep ==
  ASSUME SyncInv, NEW item \in Items, objects' \in {objects, Arrived(item)},
         NEW q \in Replicas,
         \/ item \in late
         \/ \E r \in Replicas : pc[r] = "apply" /\ item \in todo[r],
         pc'[q] = pc[q], page'[q] = page[q], todo'[q] = todo[q],
         nextPage'[q] = nextPage[q], steady'[q] = steady[q],
         shifted'[q] = shifted[q], installed' = installed,
         began'[q] = began[q], alone'[q] = alone[q]
  PROVE  Covering(q)'
<1>0. SyncTypes /\ NothingOlder(q) /\ Covering(q)
  BY DEF SyncInv
<1>1. CASE ~Reached(q)
  <2>1. /\ q \notin Syncing' /\ pc'[q] # "list" /\ pc'[q] # "apply"
        /\ pc'[q] # "done"
    BY <1>1 DEF Reached, Syncing
  <2> QED BY <2>1, CoversNothing
<1>2. CASE Reached(q)
  <2>1. alone[q] => NewEnough(q, item)
    BY <1>0, <1>2 DEF NothingOlder
  <2>2. ASSUME NEW i \in steady[q], Brought(q, i) PROVE Brought(q, i)'
    <3>1. i \in Installations
      BY <1>0 DEF SyncTypes
    <3> QED BY <1>0, <2>1, <2>2, <3>1, Arrival
  <2> QED BY <1>0, <2>2, CoveringKept
<1> QED BY <1>1, <1>2

\* An Apply whose caller is told of an error, and has an excuse.
LEMMA FailedApplyKeeps ==
  ASSUME SyncInv, NEW r \in Replicas, pc[r] = "apply",
         NEW item \in todo[r], objects' \in {objects, Arrived(item)},
         pc' = [pc EXCEPT ![r] = "failed"], excuse' = [excuse EXCEPT ![r] = TRUE],
         page' = page, todo' = todo, nextPage' = nextPage, late' = late,
         installed' = installed, login' = login, steady' = steady,
         began' = began, shifted' = shifted, alone' = alone
  PROVE  SyncInv'
<1>0. SyncTypes /\ item \in Items
  BY DEF SyncInv, SyncTypes
<1>1. SyncTypes'
  BY <1>0 DEF SyncTypes
<1>2. /\ pc'[r] = "failed" /\ excuse'[r]
      /\ \A q \in Replicas : q # r => pc'[q] = pc[q] /\ excuse'[q] = excuse[q]
  BY <1>0 DEF SyncTypes
<1>3. ASSUME NEW q \in Replicas PROVE NothingOlder(q)'
  <2>1. NothingOlder(q)
    BY DEF SyncInv
  <2>2. /\ Reached(q)' => Reached(q)
        /\ \A q2 \in Replicas : pc'[q2] = "apply" => pc[q2] = "apply"
    BY <1>2 DEF Reached
  <2> QED BY <2>1, <2>2, NothingOlderKept
<1>4. ASSUME NEW q \in Replicas PROVE Covering(q)'
  <2>1. CASE q = r
    <3>1. /\ q \notin Syncing' /\ pc'[q] # "list" /\ pc'[q] # "apply"
          /\ pc'[q] # "done"
      BY <1>2, <2>1 DEF Syncing
    <3> QED BY <3>1, CoversNothing
  <2>2. CASE q # r
    <3>1. pc'[q] = pc[q]
      BY <1>2, <2>2
    <3> QED BY <1>0, <3>1, OthersKeep
  <2> QED BY <2>1, <2>2
<1>5. FailsOnlyForCause'
  BY <1>2 DEF SyncInv, FailsOnlyForCause
<1> QED BY <1>1, <1>3, <1>4, <1>5 DEF SyncInv

LEMMA ApplyNextKeeps ==
  ASSUME SyncInv, NEW r \in Replicas, ApplyNext(r)
  PROVE  SyncInv'
<1>0. SyncTypes /\ NothingOlder(r) /\ Covering(r)
  BY DEF SyncInv
<1>1. PICK item \in Foremost(todo[r]) :
        /\ objects' = Arrived(item)
        /\ AfterApply(r, item, ToldByApply(NameFor(item.id), StatusFor(item)))
        /\ excuse' = [excuse EXCEPT ![r] =
             @ \/ NamespaceFor(AccountOf[item.id]) \notin namespaces
               \/ Conflicts(objects, PathOf(item.id), FieldManager, item.login)]
  BY DEF ApplyNext
<1>2. /\ pc[r] = "apply" /\ installed' = installed /\ login' = login
      /\ late' = late /\ nextPage' = nextPage /\ steady' = steady
      /\ began' = began /\ shifted' = shifted /\ alone' = alone
  BY DEF ApplyNext, github
<1>3. item \in todo[r] /\ item \in Items
  BY <1>0, <1>1 DEF Foremost, SyncTypes
<1>4. CASE StatusFor(item) \notin {200, 201}
  <2>1. pc' = [pc EXCEPT ![r] = "failed"] /\ page' = page /\ todo' = todo
    BY <1>1, <1>3, <1>4, Telling DEF AfterApply
  <2>2. excuse' = [excuse EXCEPT ![r] = TRUE]
    BY <1>1, <1>3, <1>4, Statuses
  <2> QED BY <1>1, <1>2, <1>3, <2>1, <2>2, FailedApplyKeeps
<1>5. CASE StatusFor(item) \in {200, 201}
  <2> DEFINE next == nextPage[r]
             last == todo[r] = {item}
  <2>1. /\ todo' = [todo EXCEPT ![r] = @ \ {item}]
        /\ IF ~last
           THEN UNCHANGED <<pc, page>>
           ELSE /\ pc' = [pc EXCEPT ![r] = AfterPage(next)]
                /\ page' = [page EXCEPT ![r] = PageAfter(@, next)]
    BY <1>1, <1>3, <1>5, Telling DEF AfterApply
  <2>2. /\ todo'[r] = todo[r] \ {item}
        /\ \/ ~last /\ pc'[r] = "apply" /\ page'[r] = page[r]
           \/ last /\ pc'[r] = "done" /\ next = 0 /\ page'[r] = page[r]
           \/ last /\ pc'[r] = "list" /\ next # 0 /\ page'[r] = next
    BY <1>0, <1>2, <2>1 DEF SyncTypes, AfterPage, PageAfter
  <2>3. \A q \in Replicas : q # r => /\ pc'[q] = pc[q] /\ page'[q] = page[q]
                                     /\ todo'[q] = todo[q]
    BY <1>0, <2>1 DEF SyncTypes
  <2>4. next \in Nat /\ page[r] \in Nat \ {0}
    BY <1>0 DEF SyncTypes
  <2>5. SyncTypes'
    <3>1. todo' \in [Replicas -> SUBSET Items]
      BY <1>0, <2>1 DEF SyncTypes
    <3>2. excuse' \in [Replicas -> BOOLEAN]
      <4> DEFINE reason == \/ NamespaceFor(AccountOf[item.id]) \notin namespaces
                           \/ Conflicts(objects, PathOf(item.id), FieldManager,
                                        item.login)
      <4>1. excuse' = [excuse EXCEPT ![r] = @ \/ reason]
        BY <1>1
      <4>2. (excuse[r] \/ reason) \in BOOLEAN
        OBVIOUS
      <4> HIDE DEF reason
      <4> QED BY <1>0, <4>1, <4>2 DEF SyncTypes
    <3>3. /\ pc'[r] \in {"done", "list", "apply"}
          /\ page'[r] \in Nat \ {0}
      BY <2>2, <2>4
    <3>4. /\ pc' = [pc EXCEPT ![r] = pc'[r]]
          /\ page' = [page EXCEPT ![r] = page'[r]]
      BY <1>0, <2>1 DEF SyncTypes
    <3>5. /\ pc' \in [Replicas -> {"down", "list", "apply", "done", "failed"}]
          /\ page' \in [Replicas -> Nat \ {0}]
      BY <1>0, <3>3, <3>4 DEF SyncTypes
    <3> QED BY <1>0, <1>2, <3>1, <3>2, <3>5 DEF SyncTypes
  <2>6. ASSUME NEW q \in Replicas PROVE NothingOlder(q)'
    <3>1. NothingOlder(q)
      BY DEF SyncInv
    <3>2. /\ Reached(q)' => Reached(q)
          /\ \A q2 \in Replicas : pc'[q2] = "apply" =>
               pc[q2] = "apply" /\ todo'[q2] \subseteq todo[q2]
      BY <1>2, <2>2, <2>3 DEF Reached
    <3> QED BY <1>2, <3>1, <3>2, NothingOlderKept
  <2>7. ASSUME NEW q \in Replicas PROVE Covering(q)'
    <3>1. CASE q # r
      BY <1>1, <1>2, <1>3, <2>3, <3>1, OthersKeep
    <3>2. CASE q = r
      <4>0. alone[r] => NewEnough(r, item)
        BY <1>0, <1>2, <1>3 DEF NothingOlder, Reached
      <4>1. Brought(r, item.id)'
        BY <1>0, <1>1, <1>2, <1>3, <1>5, <4>0, Brings
      <4>2. ASSUME NEW i \in Installations, Brought(r, i) PROVE Brought(r, i)'
        BY <1>0, <1>1, <1>2, <1>3, <4>0, <4>2, Arrival
      <4>3. r \in Syncing
        BY <1>2 DEF Syncing
      <4>4. ASSUME ~shifted[r], NEW i \in steady[r]
            PROVE  /\ i \in installed
                   /\ \/ Brought(r, i)'
                      \/ \E x \in todo'[r] : x.id = i
                      \/ next = page[r] + 1 /\ Rank(i) >= page[r] * PerPage
        <5>1. i \in Installations
          BY <1>0 DEF SyncTypes
        <5>2. /\ i \in installed
              /\ \/ Brought(r, i)
                 \/ \E x \in todo[r] : x.id = i
                 \/ next = page[r] + 1 /\ Rank(i) >= page[r] * PerPage
          BY <1>0, <1>2, <4>3, <4>4 DEF Covering
        <5>3. ASSUME NEW x \in todo[r], x.id = i
              PROVE  Brought(r, i)' \/ \E y \in todo'[r] : y.id = i
          <6>1. CASE x = item
            BY <4>1, <5>3, <6>1
          <6>2. CASE x # item
            BY <2>2, <5>3, <6>2
          <6> QED BY <6>1, <6>2
        <5> QED BY <4>2, <5>1, <5>2, <5>3
      <4>5. last => todo'[r] = {}
        BY <2>2
      <4>6. ASSUME NEW i, next = page[r] + 1, Rank(i) >= page[r] * PerPage,
                   page'[r] = next
            PROVE  Rank(i) >= (page'[r] - 1) * PerPage
        <5>1. page'[r] - 1 = page[r]
          BY <2>4, <4>6
        <5> QED BY <4>6, <5>1
      <4>7. \A i : Rank(i)' = Rank(i)
        BY <1>2 DEF Rank
      <4> HIDE DEF last, next
      <4>8. ASSUME ~shifted[r], NEW i \in steady[r]
            PROVE  /\ i \in installed
                   /\ pc'[r] = "list" =>
                        Brought(r, i)' \/ Rank(i) >= (page'[r] - 1) * PerPage
                   /\ pc'[r] = "apply" =>
                        \/ Brought(r, i)'
                        \/ \E x \in todo'[r] : x.id = i
                        \/ next = page'[r] + 1 /\ Rank(i) >= page'[r] * PerPage
                   /\ pc'[r] = "done" => Brought(r, i)'
        <5>1. page[r] + 1 # 0
          BY <2>4
        <5>2. CASE pc'[r] = "list"
          BY <2>2, <4>4, <4>5, <4>6, <4>8, <5>2
        <5>3. CASE pc'[r] = "apply"
          BY <2>2, <4>4, <4>8, <5>3
        <5>4. CASE pc'[r] = "done"
          BY <2>2, <4>4, <4>5, <4>8, <5>1, <5>4
        <5> QED BY <2>2, <5>2, <5>3, <5>4
      <4> QED BY <1>2, <3>2, <4>7, <4>8 DEF Covering, next
    <3> QED BY <3>1, <3>2
  <2>8. FailsOnlyForCause'
    <3>1. excuse' = [excuse EXCEPT ![r] = excuse'[r]]
      BY <1>0, <1>1 DEF SyncTypes
    <3> QED BY <1>0, <2>2, <2>3, <3>1 DEF SyncInv, SyncTypes, FailsOnlyForCause
  <2> QED BY <2>5, <2>6, <2>7, <2>8 DEF SyncInv
<1> QED BY <1>4, <1>5

LEMMA ApplyLostKeeps ==
  ASSUME SyncInv, NEW r \in Replicas, ApplyLost(r)
  PROVE  SyncInv'
<1>0. SyncTypes
  BY DEF SyncInv
<1>1. PICK item \in Foremost(todo[r]) :
        /\ objects' \in {objects, Arrived(item)}
        /\ AfterApply(r, item, ToldByApply(NameFor(item.id), 0))
  BY DEF ApplyLost
<1>2. /\ pc[r] = "apply" /\ installed' = installed /\ login' = login
      /\ late' = late /\ nextPage' = nextPage /\ steady' = steady
      /\ began' = began /\ shifted' = shifted /\ alone' = alone
      /\ excuse' = [excuse EXCEPT ![r] = TRUE]
  BY DEF ApplyLost, github
<1>3. item \in todo[r] /\ item \in Items
  BY <1>0, <1>1 DEF Foremost, SyncTypes
<1>4. pc' = [pc EXCEPT ![r] = "failed"] /\ page' = page /\ todo' = todo
  BY <1>1, <1>3, Telling DEF AfterApply
<1> QED BY <1>1, <1>2, <1>3, <1>4, FailedApplyKeeps

LEMMA StopKeeps ==
  ASSUME SyncInv, NEW r \in Replicas, Stop(r)
  PROVE  SyncInv'
<1>0. SyncTypes
  BY DEF SyncInv
<1>1. /\ pc' = [pc EXCEPT ![r] = "down"] /\ installed' = installed
      /\ login' = login /\ objects' = objects /\ page' = page /\ todo' = todo
      /\ nextPage' = nextPage /\ steady' = steady /\ began' = began
      /\ shifted' = shifted /\ alone' = alone /\ excuse' = excuse
  BY DEF Stop, github, history
<1>2. \A x \in late' : x \in late \/ (pc[r] = "apply" /\ x \in todo[r])
  <2>1. \/ late' = late
        \/ pc[r] = "apply" /\ \E x \in Foremost(todo[r]) : late' = late \cup {x}
    BY DEF Stop
  <2> QED BY <2>1 DEF Foremost
<1>3. SyncTypes'
  <2>1. late' \subseteq Items
    BY <1>0, <1>2 DEF SyncTypes
  <2> QED BY <1>0, <1>1, <2>1 DEF SyncTypes
<1>4. pc'[r] = "down" /\ \A q \in Replicas : q # r => pc'[q] = pc[q]
  BY <1>0, <1>1 DEF SyncTypes
<1>5. ASSUME NEW q \in Replicas PROVE NothingOlder(q)'
  <2>1. NothingOlder(q)
    BY DEF SyncInv
  <2>2. Reached(q)' => Reached(q)
    BY <1>4 DEF Reached
  <2>3. \A x : NewEnough(q, x)' <=> NewEnough(q, x)
    BY <1>1 DEF NewEnough
  <2>4. ASSUME Reached(q), alone[q]
        PROVE  /\ \A x \in late' : NewEnough(q, x)
               /\ \A q2 \in Replicas :
                    pc'[q2] = "apply" => \A x \in todo'[q2] : NewEnough(q, x)
    BY <1>1, <1>2, <1>4, <2>1, <2>4 DEF NothingOlder
  <2> QED BY <1>1, <2>1, <2>2, <2>3, <2>4 DEF NothingOlder
<1>6. ASSUME NEW q \in Replicas PROVE Covering(q)'
  <2>1. CASE q = r
    <3>1. /\ q \notin Syncing' /\ pc'[q] # "list" /\ pc'[q] # "apply"
          /\ pc'[q] # "done"
      BY <1>4, <2>1 DEF Syncing
    <3> QED BY <3>1, CoversNothing
  <2>2. CASE q # r
    <3>1. pc'[q] = pc[q] /\ Covering(q)
      BY <1>4, <2>2 DEF SyncInv
    <3>2. \A i \in steady[q] : Brought(q, i) => Brought(q, i)'
      BY <1>1 DEF Brought
    <3> QED BY <1>1, <3>1, <3>2, CoveringKept
  <2> QED BY <2>1, <2>2
<1>7. FailsOnlyForCause'
  BY <1>1, <1>4 DEF SyncInv, FailsOnlyForCause
<1> QED BY <1>3, <1>5, <1>6, <1>7 DEF SyncInv

LEMMA LateApplyKeeps ==
  ASSUME SyncInv, LateApply
  PROVE  SyncInv'
<1>0. SyncTypes
  BY DEF SyncInv
<1>1. PICK item \in late : /\ late' = late \ {item}
                           /\ objects' \in {objects, Arrived(item)}
  BY DEF LateApply
<1>2. /\ installed' = installed /\ login' = login /\ pc' = pc /\ page' = page
      /\ todo' = todo /\ nextPage' = nextPage /\ steady' = steady
      /\ began' = began /\ shifted' = shifted /\ alone' = alone
      /\ excuse' = excuse
  BY DEF LateApply, github, process, history
<1>3. item \in Items
  BY <1>0 DEF SyncTypes
<1>4. SyncTypes'
  BY <1>0, <1>1, <1>2 DEF SyncTypes
<1>5. ASSUME NEW q \in Replicas PROVE NothingOlder(q)' /\ Covering(q)'
  <2>1. NothingOlder(q)
    BY DEF SyncInv
  <2>2. NothingOlder(q)'
    BY <1>1, <1>2, <2>1, NothingOlderKept DEF Reached
  <2>3. Covering(q)'
    BY <1>1, <1>2, <1>3, OthersKeep
  <2> QED BY <2>2, <2>3
<1>6. FailsOnlyForCause'
  BY <1>2 DEF SyncInv, FailsOnlyForCause
<1> QED BY <1>4, <1>5, <1>6 DEF SyncInv

LEMMA InstallKeeps ==
  ASSUME SyncInv, NEW i \in Installations, Install(i)
  PROVE  SyncInv'
<1>0. SyncTypes
  BY DEF SyncInv
<1>1. /\ installed' = installed \cup {i} /\ login' = login
      /\ objects' = objects /\ late' = late /\ pc' = pc /\ page' = page
      /\ todo' = todo /\ nextPage' = nextPage /\ steady' = steady
      /\ began' = began /\ shifted' = shifted /\ alone' = alone
      /\ excuse' = excuse
  BY DEF Install, cluster, process, history
<1>2. SyncTypes'
  BY <1>0, <1>1 DEF SyncTypes
<1>3. ASSUME NEW j \in Installations
      PROVE  Rank(j) \in Nat /\ Rank(j)' \in Nat /\ Rank(j) <= Rank(j)'
  <2> DEFINE before == {k \in installed : k < j}
             then == {k \in installed' : k < j}
  <2>1. before \subseteq then /\ then \subseteq Installations
    BY <1>0, <1>1, <1>2 DEF SyncTypes
  <2> HIDE DEF before, then
  <2>2. IsFiniteSet(then)
    BY <2>1, InstallationsAssumption, FS_Subset
  <2>3. IsFiniteSet(before) /\ Cardinality(before) <= Cardinality(then)
    BY <2>1, <2>2, FS_Subset
  <2>4. Cardinality(then) \in Nat /\ Cardinality(before) \in Nat
    BY <2>2, <2>3, FS_CardinalityType
  <2> QED BY <2>3, <2>4 DEF Rank, before, then
<1>4. ASSUME NEW q \in Replicas PROVE NothingOlder(q)'
  <2>1. NothingOlder(q)
    BY DEF SyncInv
  <2> QED BY <1>1, <2>1, NothingOlderKept DEF Reached
<1>5. ASSUME NEW q \in Replicas PROVE Covering(q)'
  <2>1. Covering(q)
    BY DEF SyncInv
  <2>2. \A j : Brought(q, j)' <=> Brought(q, j)
    BY <1>1 DEF Brought
  <2>3. q \in Syncing' <=> q \in Syncing
    BY <1>1 DEF Syncing
  <2>4. ASSUME NEW j \in Installations, NEW p \in Nat,
               Rank(j) >= p * PerPage
        PROVE  Rank(j)' >= p * PerPage
    <3>1. PICK n : n = p * PerPage
      OBVIOUS
    <3>2. n \in Nat
      BY <3>1, PerPageAssumption
    <3> QED BY <1>3, <2>4, <3>1, <3>2
  <2>5. page[q] \in Nat /\ page[q] - 1 \in Nat /\ steady[q] \subseteq Installations
    BY <1>0 DEF SyncTypes
  <2>6. \A j \in steady[q] :
          /\ Rank(j) >= (page[q] - 1) * PerPage =>
               Rank(j)' >= (page[q] - 1) * PerPage
          /\ Rank(j) >= page[q] * PerPage => Rank(j)' >= page[q] * PerPage
    BY <2>4, <2>5
  <2> QED BY <1>1, <2>1, <2>2, <2>3, <2>6 DEF Covering
<1>6. FailsOnlyForCause'
  BY <1>1 DEF SyncInv, FailsOnlyForCause
<1> QED BY <1>2, <1>4, <1>5, <1>6 DEF SyncInv

LEMMA UninstallKeeps ==
  ASSUME SyncInv, NEW i \in Installations, Uninstall(i)
  PROVE  SyncInv'
<1>0. SyncTypes
  BY DEF SyncInv
<1>1. /\ installed' = installed \ {i} /\ login' = login
      /\ objects' = objects /\ late' = late /\ pc' = pc /\ page' = page
      /\ todo' = todo /\ nextPage' = nextPage /\ began' = began
      /\ alone' = alone /\ excuse' = excuse
      /\ steady' = [r \in Replicas |-> IF r \in Syncing THEN steady[r] \ {i}
                                                        ELSE steady[r]]
      /\ shifted' = [r \in Replicas |-> shifted[r] \/ r \in Syncing]
  BY DEF Uninstall, cluster, process
<1>2. SyncTypes'
  <2>1. shifted' \in [Replicas -> BOOLEAN]
    BY <1>1
  <2>2. steady' \in [Replicas -> SUBSET Installations]
    BY <1>0, <1>1 DEF SyncTypes
  <2> QED BY <1>0, <1>1, <2>1, <2>2 DEF SyncTypes
<1>3. ASSUME NEW q \in Replicas PROVE NothingOlder(q)'
  <2>1. NothingOlder(q)
    BY DEF SyncInv
  <2> QED BY <1>1, <2>1, NothingOlderKept DEF Reached
<1>4. ASSUME NEW q \in Replicas PROVE Covering(q)'
  <2>1. CASE q \in Syncing
    <3>1. shifted'[q]
      BY <1>1, <2>1
    <3> QED BY <3>1 DEF Covering
  <2>2. CASE q \notin Syncing
    <3>1. Covering(q) /\ steady'[q] = steady[q] /\ shifted'[q] = shifted[q]
      BY <1>0, <1>1, <2>2 DEF SyncInv, SyncTypes
    <3>2. q \notin Syncing' /\ pc'[q] # "list" /\ pc'[q] # "apply"
      BY <1>1, <2>2 DEF Syncing
    <3>3. \A j : Brought(q, j)' <=> Brought(q, j)
      BY <1>1 DEF Brought
    <3> QED BY <1>1, <3>1, <3>2, <3>3 DEF Covering
  <2> QED BY <2>1, <2>2
<1>5. FailsOnlyForCause'
  BY <1>1 DEF SyncInv, FailsOnlyForCause
<1> QED BY <1>2, <1>3, <1>4, <1>5 DEF SyncInv

LEMMA RenameKeeps ==
  ASSUME SyncInv, NEW a \in Accounts, Rename(a)
  PROVE  SyncInv'
<1>0. SyncTypes
  BY DEF SyncInv
<1>1. /\ installed' = installed /\ login' = [login EXCEPT ![a] = @ + 1]
      /\ objects' = objects /\ late' = late /\ pc' = pc /\ page' = page
      /\ todo' = todo /\ nextPage' = nextPage /\ steady' = steady
      /\ began' = began /\ shifted' = shifted /\ alone' = alone
      /\ excuse' = excuse
  BY DEF Rename, cluster, process, history
<1>2. SyncTypes'
  BY <1>0, <1>1 DEF SyncTypes
<1>3. ASSUME NEW q \in Replicas PROVE NothingOlder(q)' /\ Covering(q)'
  <2>1. NothingOlder(q) /\ Covering(q)
    BY DEF SyncInv
  <2>2. \A b \in Accounts : began[q][b] <= login[b] => began[q][b] <= login'[b]
    <3>1. \A b \in Accounts : began[q][b] \in Nat
      BY <1>0 DEF SyncTypes
    <3> QED BY <1>0, <1>1, <3>1 DEF SyncTypes
  <2>3. NothingOlder(q)'
    BY <1>1, <2>1, <2>2, NothingOlderKept DEF Reached
  <2>4. \A j \in steady[q] : Brought(q, j) => Brought(q, j)'
    BY <1>1 DEF Brought
  <2> QED BY <1>1, <2>1, <2>3, <2>4, CoveringKept
<1>4. FailsOnlyForCause'
  BY <1>1 DEF SyncInv, FailsOnlyForCause
<1> QED BY <1>2, <1>3, <1>4 DEF SyncInv

LEMMA SetByHandKeeps ==
  ASSUME SyncInv, NEW i \in Installations, SetByHand(i)
  PROVE  SyncInv'
<1>0. SyncTypes
  BY DEF SyncInv
<1>1. /\ objects' = Applied(objects, PathOf(i), OtherManager, OtherLogin)
      /\ installed' = installed /\ login' = login
      /\ late' = late /\ pc' = pc /\ page' = page
      /\ todo' = todo /\ nextPage' = nextPage /\ steady' = steady
      /\ began' = began /\ shifted' = shifted /\ alone' = alone
      /\ excuse' = excuse
  BY DEF SetByHand, github, process, history
<1>2. SyncTypes'
  BY <1>0, <1>1 DEF SyncTypes
<1>3. ASSUME NEW q \in Replicas PROVE NothingOlder(q)' /\ Covering(q)'
  <2>1. NothingOlder(q) /\ Covering(q)
    BY DEF SyncInv
  <2>2. NothingOlder(q)'
    BY <1>1, <2>1, NothingOlderKept DEF Reached
  <2>3. ASSUME NEW j \in steady[q], Brought(q, j) PROVE Brought(q, j)'
    <3>1. PICK hand, path : hand = PathOf(i) /\ path = PathOf(j)
      OBVIOUS
    <3>2. path \in DOMAIN objects
      BY <2>3, <3>1 DEF Brought
    <3>3. path \in DOMAIN objects'
      BY <1>1, <3>1, <3>2 DEF Applied
    <3>4. CASE path = hand
      <4>1. OtherManager \in objects'[path].owners
        BY <1>1, <3>1, <3>4 DEF Applied
      <4> QED BY <3>1, <3>3, <4>1 DEF Brought
    <3>5. CASE path # hand
      <4>1. objects'[path] = objects[path]
        BY <1>1, <3>1, <3>2, <3>5 DEF Applied
      <4> QED BY <1>1, <2>3, <3>1, <3>3, <4>1 DEF Brought
    <3> QED BY <3>4, <3>5
  <2> QED BY <1>1, <2>1, <2>2, <2>3, CoveringKept
<1>4. FailsOnlyForCause'
  BY <1>1 DEF SyncInv, FailsOnlyForCause
<1> QED BY <1>2, <1>3, <1>4 DEF SyncInv

\* What leaves the invariant's variables alone keeps it: MakeNamespace, and
\* stuttering.
LEMMA ElseKeeps ==
  ASSUME SyncInv, UNCHANGED <<github, objects, late, process, history>>
  PROVE  SyncInv'
<1>1. /\ installed' = installed /\ login' = login /\ objects' = objects
      /\ late' = late /\ pc' = pc /\ page' = page
      /\ todo' = todo /\ nextPage' = nextPage /\ steady' = steady
      /\ began' = began /\ shifted' = shifted /\ alone' = alone
      /\ excuse' = excuse
  BY DEF github, process, history
<1>2. SyncTypes'
  BY <1>1 DEF SyncInv, SyncTypes
<1>3. ASSUME NEW q \in Replicas PROVE NothingOlder(q)' /\ Covering(q)'
  <2>1. NothingOlder(q) /\ Covering(q)
    BY DEF SyncInv
  <2>2. NothingOlder(q)'
    BY <1>1, <2>1, NothingOlderKept DEF Reached
  <2>3. \A j \in steady[q] : Brought(q, j) => Brought(q, j)'
    BY <1>1 DEF Brought
  <2> QED BY <1>1, <2>1, <2>2, <2>3, CoveringKept
<1>4. FailsOnlyForCause'
  BY <1>1 DEF SyncInv, FailsOnlyForCause
<1> QED BY <1>2, <1>3, <1>4 DEF SyncInv

LEMMA SyncStep == SyncInv /\ [SyncNext]_syncVars => SyncInv'
<1> SUFFICES ASSUME SyncInv, [SyncNext]_syncVars PROVE SyncInv'
  OBVIOUS
<1>1. ASSUME NEW r \in Replicas, Start(r) PROVE SyncInv'
  BY <1>1, StartKeeps
<1>2. ASSUME NEW r \in Replicas, ReplicaStep(r) PROVE SyncInv'
  BY <1>2, ListPageKeeps, ApplyNextKeeps DEF ReplicaStep
<1>3. ASSUME NEW r \in Replicas, ListFails(r) PROVE SyncInv'
  BY <1>3, ListFailsKeeps
<1>4. ASSUME NEW r \in Replicas, ApplyLost(r) PROVE SyncInv'
  BY <1>4, ApplyLostKeeps
<1>5. ASSUME NEW r \in Replicas, Stop(r) PROVE SyncInv'
  BY <1>5, StopKeeps
<1>6. CASE LateApply
  BY <1>6, LateApplyKeeps
<1>7. ASSUME NEW i \in Installations, Install(i) \/ Uninstall(i) \/ SetByHand(i)
      PROVE  SyncInv'
  BY <1>7, InstallKeeps, UninstallKeeps, SetByHandKeeps
<1>8. ASSUME NEW a \in Accounts, Rename(a) PROVE SyncInv'
  BY <1>8, RenameKeeps
<1>9. ASSUME NEW a \in Accounts, MakeNamespace(a) PROVE SyncInv'
  BY <1>9, ElseKeeps DEF MakeNamespace
<1>10. CASE UNCHANGED syncVars
  BY <1>10, ElseKeeps DEF syncVars, github, process, history
<1> QED BY <1>1, <1>2, <1>3, <1>4, <1>5, <1>6, <1>7, <1>8, <1>9, <1>10 DEF SyncNext

\* Every behaviour of the synchronisation keeps its invariant: pages, replicas,
\* crashes, late requests and what happens at GitHub meanwhile included.
THEOREM SyncInductive == SyncSpec => []SyncInv
<1> QED BY SyncInitially, SyncStep, PTL DEF SyncSpec

\* A synchronisation that ended without error has brought over everything it
\* should have: the loop of SyncInstallations, its paging and its Apply.
THEOREM Covers == SyncSpec => []SyncCovers
<1>1. SyncInv => SyncCovers
  BY DEF SyncInv, Covering, Brought, SyncCovers
<1> QED BY <1>1, SyncInductive, PTL

\* A synchronisation fails only for a cause outside the process; what earlier
\* ones left is never in its way.
THEOREM FailsForCause == SyncSpec => []FailsOnlyForCause
<1>1. SyncInv => FailsOnlyForCause
  BY DEF SyncInv
<1> QED BY <1>1, SyncInductive, PTL

-----------------------------------------------------------------------------
(* AppTokens.                                                               *)

LEMMA TokensInitially == TokensInit => TokensInv
<1> SUFFICES ASSUME TokensInit PROVE TokensInv
  OBVIOUS
<1>1. TokenTypes
  BY SkewsAssumption
  DEF TokensInit, TokenTypes, Token, Creation, NoToken, NoJwt, NoCreation, NothingSent
<1>2. OneToken
  BY DEF TokensInit, OneToken, NoCreation
<1>3. \A g \in Goroutines : Asking(g) /\ Claimed(g)
  BY DEF TokensInit, Asking, Claimed
<1>4. CreationsSpaced /\ TokensAccepted /\ RefusedOnlyIfSkewed
  BY DEF TokensInit, CreationsSpaced, TokensAccepted, RefusedOnlyIfSkewed, NothingSent,
         NoCreation
<1> QED BY <1>1, <1>2, <1>3, <1>4 DEF TokensInv

-----------------------------------------------------------------------------
(* What a token handed out, and a JWT accepted, is.                            *)

\* What the caches have is a token that GitHub still takes, if it is reusable
\* and GitHub's clock is not ahead by as much as the margin.
LEMMA ReusableIsAccepted ==
  ASSUME TokensInv, Reusable(token), skew < ReuseMargin
  PROVE  now + skew < token.expiry
BY MarginsAssumption DEF TokensInv, TokenTypes, Token, Reusable

\* userTokenSource never has a token to offer when oauth2 asks for one.
LEMMA NothingKept ==
  ASSUME TokensInv, ~Reusable(reused)
  PROVE  ~Keeps(token)
BY MarginsAssumption DEF TokensInv, TokenTypes, Token, OneToken, Reusable, Keeps

\* A JWT that was not accepted tells of clocks that differ.
LEMMA RefusedIfSkewed ==
  ASSUME TokensInv, NEW g \in Goroutines, at[g] = "asking", ~Acceptable(jwt[g])
  PROVE  skew < 0 \/ now + skew >= jwt[g].iat + Backdating + JwtLife
BY JwtAssumption
DEF TokensInv, TokenTypes, Claimed, Acceptable, GithubNow

\* A token that GitHub gave ends in the future of any clock that started at 0.
LEMMA CreatedIsToken ==
  ASSUME TokensInv, NEW g \in Goroutines, at[g] = "asking", Acceptable(jwt[g])
  PROVE  [expiry |-> GithubNow + TokenLife] # NoToken
<1>1. GithubNow + TokenLife \in Int /\ GithubNow + TokenLife >= 0
  BY JwtAssumption, MarginsAssumption
  DEF TokensInv, TokenTypes, Claimed, Acceptable, GithubNow
<1> QED BY <1>1 DEF NoToken

\* The token before was no longer reusable when its successor was asked for, if
\* it was ever received.
LEMMA SpacedFromLast ==
  ASSUME TokensInv, NEW g \in Goroutines, at[g] = "asking", created.latest.received
  PROVE  now - created.latest.when > TokenLife + skew - ReuseMargin
<1>1. /\ token # NoToken /\ ~Reusable(token)
      /\ token.expiry = created.latest.when + skew + TokenLife
  BY DEF TokensInv, OneToken, Asking
<1>2. /\ now \in Int /\ skew \in Int /\ created.latest.when \in Int
      /\ ReuseMargin \in Int /\ TokenLife \in Int
  BY MarginsAssumption DEF TokensInv, TokenTypes, Creation
<1>3. now > token.expiry - ReuseMargin
  BY <1>1, <1>2 DEF TokensInv, TokenTypes, Token, Reusable
<1> QED BY <1>1, <1>2, <1>3

\* Whether or not the reply arrives.
LEMMA CreatesSpaced ==
  ASSUME TokensInv, NEW g \in Goroutines, at[g] = "asking",
         NEW received \in BOOLEAN, Creates(received), UNCHANGED <<now, skew>>
  PROVE  /\ created' \in [before : Creation, latest : Creation]
         /\ created'.latest = [when |-> now, received |-> received]
         /\ CreationsSpaced'
<1>1. /\ created'.before = created.latest
      /\ created'.latest = [when |-> now, received |-> received]
      /\ created' = [before |-> created'.before, latest |-> created'.latest]
  BY DEF Creates
<1>2. created.latest \in Creation /\ [when |-> now, received |-> received] \in Creation
  BY DEF TokensInv, TokenTypes, Creation
<1>3. CreationsSpaced'
  BY <1>1, SpacedFromLast DEF CreationsSpaced
<1> QED BY <1>1, <1>2, <1>3

-----------------------------------------------------------------------------
(* The steps that touch the tokens or the clock, and those that do not.        *)

LEMMA CallPreserves ==
  ASSUME TokensInv, NEW g \in Goroutines, Call(g)
  PROVE  TokensInv'
BY DEF TokensInv, TokenTypes, Token, OneToken, Asking, Claimed, CreationsSpaced,
       TokensAccepted, RefusedOnlyIfSkewed, Reusable, Call, NothingSent

LEMMA ReusePreserves ==
  ASSUME TokensInv, NEW g \in Goroutines, ReuseToken(g)
  PROVE  TokensInv'
<1>1. /\ HandOut(g, reused, FALSE) /\ at[g] = "waiting" /\ Reusable(reused)
      /\ UNCHANGED <<now, skew, reused, token, holder, created>>
  BY DEF ReuseToken
<1>2. reused = token
  BY DEF TokensInv, OneToken
<1>3. TokenTypes'
  BY <1>1, <1>2 DEF TokensInv, TokenTypes, Token, HandOut, NoJwt
<1>4. TokensAccepted'
  <2>1. skew < ReuseMargin => now + skew < token.expiry
    BY <1>1, <1>2, ReusableIsAccepted
  <2> QED BY <1>1, <1>2, <2>1 DEF TokensInv, TokenTypes, TokensAccepted, HandOut
<1>5. OneToken' /\ CreationsSpaced'
  BY <1>1 DEF TokensInv, OneToken, CreationsSpaced
<1>6. \A h \in Goroutines : Asking(h)' /\ Claimed(h)'
  BY <1>1 DEF TokensInv, TokenTypes, Asking, Claimed, HandOut, Reusable
<1>7. RefusedOnlyIfSkewed'
  BY <1>1 DEF TokensInv, TokenTypes, RefusedOnlyIfSkewed, HandOut
<1> QED BY <1>3, <1>4, <1>5, <1>6, <1>7 DEF TokensInv

LEMMA OwnPreserves ==
  ASSUME TokensInv, NEW g \in Goroutines, OwnToken(g)
  PROVE  TokensInv'
<1>1. /\ at[g] = "waiting" /\ holder = Nobody /\ ~Reusable(reused)
      /\ UNCHANGED <<now, skew, token, created>>
  BY DEF OwnToken, Available
<1>2. /\ holder' = g
      /\ jwt' = [jwt EXCEPT ![g] = Claims]
      /\ at' = [at EXCEPT ![g] = "asking"]
      /\ UNCHANGED <<reused, sent>>
  BY <1>1, NothingKept DEF OwnToken
<1>3. Claims \in [iat : Int, exp : Int]
  BY JwtAssumption DEF TokensInv, TokenTypes, Claims
<1>4. TokenTypes'
  BY <1>1, <1>2, <1>3 DEF TokensInv, TokenTypes
<1>5. OneToken' /\ CreationsSpaced' /\ TokensAccepted'
  BY <1>1, <1>2 DEF TokensInv, OneToken, CreationsSpaced, TokensAccepted
<1>6. \A h \in Goroutines : Asking(h)'
  <2> SUFFICES ASSUME NEW h \in Goroutines, at'[h] = "asking"
               PROVE  holder' = h /\ ~Reusable(token)'
    BY DEF Asking
  <2>1. ~Reusable(token)'
    BY <1>1 DEF TokensInv, OneToken, Reusable
  <2>2. CASE h = g
    BY <1>2, <2>1, <2>2
  <2>3. CASE h # g
    <3>1. at[h] = "asking"
      BY <1>2, <2>3 DEF TokensInv, TokenTypes
    <3>2. holder = h
      BY <3>1 DEF TokensInv, Asking
    <3> QED BY <1>1, <3>2, GoroutinesAssumption DEF Nobody
  <2> QED BY <2>2, <2>3
<1>7. \A h \in Goroutines : Claimed(h)'
  BY <1>1, <1>2, JwtAssumption DEF TokensInv, TokenTypes, Claimed, Claims
<1>8. RefusedOnlyIfSkewed'
  BY <1>1, <1>2 DEF TokensInv, TokenTypes, RefusedOnlyIfSkewed
<1> QED BY <1>4, <1>5, <1>6, <1>7, <1>8 DEF TokensInv

\* Nobody else was asking: the mutex was held.
LEMMA AskingAlone ==
  ASSUME TokensInv, NEW g \in Goroutines, at[g] = "asking",
         NEW h \in Goroutines \ {g}
  PROVE  at[h] # "asking"
BY DEF TokensInv, Asking

LEMMA CreatedPreserves ==
  ASSUME TokensInv, NEW g \in Goroutines, TokenCreated(g)
  PROVE  TokensInv'
<1> DEFINE t == [expiry |-> GithubNow + TokenLife]
<1>1. /\ at[g] = "asking" /\ Acceptable(jwt[g])
      /\ token' = t /\ reused' = t
      /\ HandOut(g, t, TRUE)
      /\ Creates(TRUE)
      /\ UNCHANGED <<now, skew>>
  BY DEF TokenCreated
<1>2. t \in Token
  BY MarginsAssumption DEF TokensInv, TokenTypes, Token, GithubNow
<1>3. /\ created' \in [before : Creation, latest : Creation]
      /\ created'.latest = [when |-> now, received |-> TRUE]
      /\ CreationsSpaced'
  BY <1>1, CreatesSpaced
<1>4. TokenTypes'
  <2>1. t.expiry \in Int /\ now \in Nat
    BY MarginsAssumption DEF GithubNow, TokensInv, TokenTypes
  <2> HIDE DEF t
  <2> DEFINE call == [expiry |-> t.expiry, when |-> now, fresh |-> TRUE]
  <2>2. call \in [expiry : Int, when : Int, fresh : BOOLEAN]
    BY <2>1
  <2>3. sent' = [sent EXCEPT ![g] = call]
    BY <1>1 DEF HandOut
  <2> HIDE DEF call
  <2>4. sent' \in [Goroutines -> [expiry : Int, when : Int, fresh : BOOLEAN]]
    BY <2>2, <2>3 DEF TokensInv, TokenTypes
  <2>5. /\ jwt' \in [Goroutines -> [iat : Int, exp : Int]]
        /\ at' \in [Goroutines -> {"idle", "waiting", "asking", "refused"}]
    BY <1>1 DEF TokensInv, TokenTypes, HandOut, NoJwt
  <2> QED BY <1>1, <1>2, <1>3, <2>4, <2>5 DEF TokensInv, TokenTypes
<1>5. OneToken'
  <2>1. token' # NoToken /\ token' = reused'
    BY <1>1, CreatedIsToken
  <2>2. token'.expiry = now + skew + TokenLife
    BY <1>1 DEF GithubNow
  <2>3. created'.latest.when = now
    BY <1>3
  <2> QED BY <1>1, <2>1, <2>2, <2>3 DEF OneToken
<1>6. \A h \in Goroutines : Asking(h)' /\ Claimed(h)'
  <2>1. \A h \in Goroutines : at'[h] # "asking"
    BY <1>1, AskingAlone DEF TokensInv, TokenTypes, HandOut
  <2>2. \A h \in Goroutines : Claimed(h)'
    BY <1>1 DEF TokensInv, TokenTypes, Claimed, HandOut
  <2> QED BY <2>1, <2>2 DEF Asking
<1>7. TokensAccepted' /\ RefusedOnlyIfSkewed'
  BY <1>1
  DEF TokensInv, TokenTypes, TokensAccepted, RefusedOnlyIfSkewed, HandOut
<1> QED BY <1>3, <1>4, <1>5, <1>6, <1>7 DEF TokensInv

LEMMA RefusedPreserves ==
  ASSUME TokensInv, NEW g \in Goroutines, TokenRefused(g)
  PROVE  TokensInv'
<1>1. /\ at[g] = "asking" /\ ~Acceptable(jwt[g])
      /\ at' = [at EXCEPT ![g] = "refused"]
      /\ UNCHANGED <<now, skew, reused, token, jwt, sent, created>>
  BY DEF TokenRefused
<1>2. TokenTypes' /\ OneToken' /\ CreationsSpaced' /\ TokensAccepted'
  BY <1>1
  DEF TokensInv, TokenTypes, Token, OneToken, CreationsSpaced, TokensAccepted
<1>3. \A h \in Goroutines : Asking(h)' /\ Claimed(h)'
  <2>1. \A h \in Goroutines : at'[h] # "asking"
    BY <1>1, AskingAlone DEF TokensInv, TokenTypes
  <2>2. \A h \in Goroutines : Claimed(h)'
    BY <1>1 DEF TokensInv, TokenTypes, Claimed
  <2> QED BY <2>1, <2>2 DEF Asking
<1>4. RefusedOnlyIfSkewed'
  BY <1>1, RefusedIfSkewed DEF TokensInv, TokenTypes, RefusedOnlyIfSkewed
<1> QED BY <1>2, <1>3, <1>4 DEF TokensInv

LEMMA FailsPreserves ==
  ASSUME TokensInv, NEW g \in Goroutines, TokenFails(g) \/ GiveUp(g)
  PROVE  TokensInv'
<1>1. /\ jwt' = [jwt EXCEPT ![g] = NoJwt]
      /\ at' = [at EXCEPT ![g] = "idle"]
      /\ at[g] = "asking" \/ holder' = holder
      /\ UNCHANGED <<now, skew, reused, token, sent>>
  BY DEF TokenFails, GiveUp
<1>2. UNCHANGED created \/ (at[g] = "asking" /\ Creates(FALSE))
  BY DEF TokenFails, GiveUp
<1>3. /\ created' \in [before : Creation, latest : Creation]
      /\ CreationsSpaced' /\ OneToken'
  <2>1. CASE UNCHANGED created
    BY <1>1, <2>1 DEF TokensInv, TokenTypes, CreationsSpaced, OneToken
  <2>2. CASE at[g] = "asking" /\ Creates(FALSE)
    <3>1. /\ created' \in [before : Creation, latest : Creation]
          /\ created'.latest = [when |-> now, received |-> FALSE]
          /\ CreationsSpaced'
      BY <1>1, <2>2, CreatesSpaced
    <3> QED BY <1>1, <3>1 DEF TokensInv, OneToken
  <2> QED BY <1>2, <2>1, <2>2
<1>4. TokenTypes' /\ TokensAccepted'
  BY <1>1, <1>3
  DEF TokensInv, TokenTypes, Token, TokensAccepted, NoJwt
<1>5. \A h \in Goroutines : Asking(h)'
  <2>1. CASE at[g] = "asking"
    BY <1>1, <2>1, AskingAlone DEF TokensInv, TokenTypes, Asking
  <2>2. CASE holder' = holder
    BY <1>1, <2>2 DEF TokensInv, TokenTypes, Asking, Reusable
  <2> QED BY <1>1, <2>1, <2>2
<1>6. \A h \in Goroutines : Claimed(h)'
  BY <1>1 DEF TokensInv, TokenTypes, Claimed
<1>7. RefusedOnlyIfSkewed'
  BY <1>1 DEF TokensInv, TokenTypes, RefusedOnlyIfSkewed
<1> QED BY <1>3, <1>4, <1>5, <1>6, <1>7 DEF TokensInv

LEMMA TickPreserves ==
  ASSUME TokensInv, Tick
  PROVE  TokensInv'
<1>1. /\ now' = now + 1
      /\ UNCHANGED <<skew, reused, token, holder, at, jwt, sent, created>>
  BY DEF Tick
<1>2. TokenTypes' /\ OneToken' /\ CreationsSpaced' /\ TokensAccepted'
  BY <1>1
  DEF TokensInv, TokenTypes, Token, OneToken, CreationsSpaced, TokensAccepted
<1>3. \A h \in Goroutines : Asking(h)'
  BY <1>1, MarginsAssumption
  DEF TokensInv, TokenTypes, Token, Asking, Reusable
<1>4. \A h \in Goroutines : Claimed(h)'
  BY <1>1 DEF TokensInv, TokenTypes, Claimed
<1>5. RefusedOnlyIfSkewed'
  <2> SUFFICES ASSUME NEW h \in Goroutines, at[h] = "refused", skew >= 0
               PROVE  now' + skew >= jwt[h].iat + Backdating + JwtLife
    BY <1>1 DEF TokensInv, TokenTypes, RefusedOnlyIfSkewed
  <2>1. now + skew >= jwt[h].iat + Backdating + JwtLife
    BY DEF TokensInv, TokenTypes, RefusedOnlyIfSkewed
  <2> QED BY <1>1, <2>1, JwtAssumption DEF TokensInv, TokenTypes
<1> QED BY <1>2, <1>3, <1>4, <1>5 DEF TokensInv

LEMMA TokensStep == TokensInv /\ [TokensNext]_tokenVars => TokensInv'
<1> SUFFICES ASSUME TokensInv, [TokensNext]_tokenVars PROVE TokensInv'
  OBVIOUS
<1>1. CASE GetClient \/ UNCHANGED tokenVars
  BY <1>1
  DEF GetClient, tokenVars, TokensInv, TokenTypes, Token, OneToken, Asking, Claimed,
      CreationsSpaced, TokensAccepted, RefusedOnlyIfSkewed, Reusable
<1>2. ASSUME NEW g \in Goroutines,
             \/ Call(g) \/ ReuseToken(g) \/ OwnToken(g) \/ TokenCreated(g)
             \/ TokenRefused(g) \/ TokenFails(g) \/ GiveUp(g)
      PROVE  TokensInv'
  BY <1>2, CallPreserves, ReusePreserves, OwnPreserves, CreatedPreserves,
     RefusedPreserves, FailsPreserves
<1> QED BY <1>1, <1>2, TickPreserves DEF TokensNext

\* The invariant that the theorems below rest on: the two caches have one token,
\* the one created last if that was received, and whoever asks for another holds
\* the mutex while there is none to reuse (ReuseTokenSource, userTokenSource).
THEOREM TokensInductive == TokensSpec => []TokensInv
BY TokensInitially, TokensStep, PTL DEF TokensSpec

\* However many goroutines share a client, GitHub creates a token only as the one
\* before runs out, or if the reply with that one was lost
\* (oauth2.ReuseTokenSource around userTokenSource.Token).
THEOREM SpacedCreations == TokensSpec => []CreationsSpaced
<1>1. TokensInv => CreationsSpaced
  BY DEF TokensInv
<1> QED BY <1>1, TokensInductive, PTL

\* A token that was kept is one GitHub takes, unless its clock is ahead by the
\* margin.
THEOREM AcceptedTokens == TokensSpec => []TokensAccepted
<1>1. TokensInv => TokensAccepted
  BY DEF TokensInv
<1> QED BY <1>1, TokensInductive, PTL

\* The app's JWT is refused only if the clocks differ (buildJWT).
THEOREM SkewedRefusals == TokensSpec => []RefusedOnlyIfSkewed
<1>1. TokensInv => RefusedOnlyIfSkewed
  BY DEF TokensInv
<1> QED BY <1>1, TokensInductive, PTL

-----------------------------------------------------------------------------
(* OauthSessions.                                                           *)

LEMMA OauthInitially == OauthInit => OauthInv
BY NeverAssumption DEF OauthInit, OauthInv, OauthTypes, Carried, StoredSession,
                       NoNewToken, Expiries

\* A step of a caller leaves what the others carry as it was, as long as the
\* objects they work on stay, and do not change without a new version.
LEMMA OthersCarry ==
  ASSUME OauthInv, NEW c \in Callers,
         issued \in Nat, issued' \in Nat, issued' >= issued,
         \A d \in Callers \ {c} : /\ doing'[d] = doing[d]
                                  /\ userOf'[d] = userOf[d]
                                  /\ fresh'[d] = fresh[d]
                                  /\ best'[d] = best[d],
         \A n \in DOMAIN sessions :
           /\ n \in DOMAIN sessions'
           /\ sessions[n].version \in Nat /\ sessions'[n].version \in Nat
           /\ \/ sessions'[n] = sessions[n]
              \/ sessions'[n].version > sessions[n].version
  PROVE  \A d \in Callers \ {c} : Carried(d)'
<1> SUFFICES ASSUME NEW d \in Callers \ {c} PROVE Carried(d)'
  OBVIOUS
<1>1. Carried(d)
  BY DEF OauthInv
<1>2. ASSUME doing[d] \in {"using", "refreshing"}
      PROVE  /\ best[d] \in StoredSession'
             /\ best[d].name \in DOMAIN sessions'
             /\ best[d].version <= sessions'[best[d].name].version
             /\ best[d].version = sessions'[best[d].name].version =>
                  best[d].token = sessions'[best[d].name].token
  <2>1. best[d] \in StoredSession /\ best[d].name \in DOMAIN sessions
    BY <1>1, <1>2 DEF Carried
  <2>2. best[d] \in StoredSession'
    BY <2>1 DEF StoredSession
  <2>3. /\ best[d].version <= sessions[best[d].name].version
        /\ best[d].version = sessions[best[d].name].version =>
             best[d].token = sessions[best[d].name].token
    BY <1>1, <1>2 DEF Carried
  <2>4. best[d].version \in Nat
    BY <2>1 DEF StoredSession
  <2> QED BY <2>1, <2>2, <2>3, <2>4
<1> QED BY <1>1, <1>2 DEF Carried

LEMMA PutKeeps ==
  ASSUME NEW n, NEW session, Put(n, session)
  PROVE  /\ DOMAIN sessions' = DOMAIN sessions \cup {n}
         /\ sessions'[n] = session
         /\ \A m \in DOMAIN sessions : m # n => sessions'[m] = sessions[m]
BY DEF Put

\* What a caller stores is well-formed.
LEMMA SessionTyped ==
  ASSUME OauthInv, NEW c \in Callers, doing[c] # "idle",
         NEW n \in Names, NEW version \in Nat
  PROVE  Session(c, n, version) \in StoredSession /\ Session(c, n, version).name = n
BY DEF OauthInv, OauthTypes, Carried, Session, StoredSession

LEMMA EndTyped ==
  ASSUME OauthInv, NEW c \in Callers, End(c), issued' = issued
  PROVE  /\ doing' \in [Callers -> {"idle", "storing", "using", "refreshing"}]
         /\ userOf' \in [Callers -> Users \cup {NoUser}]
         /\ fresh' \in [Callers -> [token : 0..issued', expires : Expiries]]
         /\ DOMAIN best' = Callers
         /\ Carried(c)'
         /\ \A d \in Callers \ {c} : /\ doing'[d] = doing[d]
                                     /\ userOf'[d] = userOf[d]
                                     /\ fresh'[d] = fresh[d]
                                     /\ best'[d] = best[d]
<1>1. NoNewToken \in [token : 0..issued, expires : Expiries]
  BY DEF OauthInv, OauthTypes, NoNewToken, Expiries
<1>2. Carried(c)'
  BY DEF OauthInv, OauthTypes, End, Carried
<1> QED BY <1>1, <1>2 DEF OauthInv, OauthTypes, End, Expiries

\* The end of a caller's request, whatever it leaves in the namespace.
LEMMA EndPreserves ==
  ASSUME OauthInv, NEW c \in Callers, End(c),
         issued' = issued, time' = time,
         DOMAIN sessions' \subseteq Names,
         \A n \in DOMAIN sessions' :
           sessions'[n] \in StoredSession /\ sessions'[n].name = n,
         \A n \in DOMAIN sessions :
           /\ n \in DOMAIN sessions'
           /\ \/ sessions'[n] = sessions[n]
              \/ sessions'[n].version > sessions[n].version
  PROVE  OauthInv'
<1>1. OauthTypes'
  BY EndTyped DEF OauthInv, OauthTypes, StoredSession, Expiries
<1>2. \A n \in DOMAIN sessions :
        sessions[n].version \in Nat /\ sessions'[n].version \in Nat
  BY DEF OauthInv, OauthTypes, StoredSession
<1>3. \A d \in Callers \ {c} : Carried(d)'
  BY <1>2, EndTyped, OthersCarry DEF OauthInv, OauthTypes
<1> QED BY <1>1, <1>3, EndTyped DEF OauthInv

\* A new object disturbs none of those there are.
LEMMA NewObject ==
  ASSUME OauthInv, NEW c \in Callers, doing[c] = "storing",
         NEW n \in Names \ DOMAIN sessions, Put(n, Session(c, n, 1))
  PROVE  /\ DOMAIN sessions' \subseteq Names
         /\ \A m \in DOMAIN sessions' :
              sessions'[m] \in StoredSession /\ sessions'[m].name = m
         /\ \A m \in DOMAIN sessions :
              m \in DOMAIN sessions' /\ sessions'[m] = sessions[m]
<1>1. Session(c, n, 1) \in StoredSession /\ Session(c, n, 1).name = n
  BY SessionTyped
<1>2. /\ DOMAIN sessions' = DOMAIN sessions \cup {n}
      /\ sessions'[n] = Session(c, n, 1)
      /\ \A m \in DOMAIN sessions : m # n => sessions'[m] = sessions[m]
  BY PutKeeps
<1> QED BY <1>1, <1>2 DEF OauthInv, OauthTypes

LEMMA IssuePreserves ==
  ASSUME OauthInv, NEW c \in Callers, Issue(c)
  PROVE  /\ issued' \in Nat /\ issued' > issued
         /\ fresh' \in [Callers -> [token : 0..issued', expires : Expiries]]
         /\ fresh'[c].token = issued'
         /\ \A d \in Callers \ {c} : fresh'[d] = fresh[d]
         /\ StoredSession \subseteq StoredSession'
<1>1. PICK expires \in {NeverExpires} \cup {time + l : l \in Lifetimes} :
        fresh' = [fresh EXCEPT ![c] = [token |-> issued + 1, expires |-> expires]]
  BY DEF Issue
<1>2. expires \in Expiries
  <2>1. time \in Nat
    BY DEF OauthInv, OauthTypes
  <2>2. \A l \in Lifetimes : time + l \in Nat
    BY <2>1, LifetimesAssumption
  <2> QED BY <1>1, <2>2 DEF Expiries
<1>3. issued \in Nat /\ issued' = issued + 1
  BY DEF OauthInv, OauthTypes, Issue
<1>4. [token : 0..issued, expires : Expiries] \subseteq [token : 0..issued', expires : Expiries]
  BY <1>3
<1>5. fresh \in [Callers -> [token : 0..issued, expires : Expiries]]
  BY DEF OauthInv, OauthTypes
<1>6. fresh' \in [Callers -> [token : 0..issued', expires : Expiries]]
  BY <1>1, <1>2, <1>3, <1>4, <1>5
<1>7. StoredSession \subseteq StoredSession'
  BY <1>3 DEF StoredSession
<1> QED BY <1>1, <1>3, <1>5, <1>6, <1>7

\* A caller that renews has a token newer than all there were.
LEMMA IssueCarries ==
  ASSUME OauthInv, NEW c \in Callers, Issue(c), UNCHANGED sessions,
         \A d \in Callers \ {c} : /\ doing'[d] = doing[d]
                                  /\ userOf'[d] = userOf[d]
                                  /\ best'[d] = best[d]
  PROVE  \A d \in Callers \ {c} : Carried(d)'
<1>1. /\ issued \in Nat /\ issued' \in Nat /\ issued' >= issued
      /\ \A d \in Callers \ {c} : fresh'[d] = fresh[d]
  BY IssuePreserves DEF OauthInv, OauthTypes
<1>2. \A n \in DOMAIN sessions : sessions[n].version \in Nat
  BY DEF OauthInv, OauthTypes, StoredSession
<1> QED BY <1>1, <1>2, OthersCarry

LEMMA OauthStep == OauthInv /\ [OauthNext]_oauthVars => OauthInv'
<1> SUFFICES ASSUME OauthInv, [OauthNext]_oauthVars PROVE OauthInv'
  OBVIOUS
<1>1. ASSUME NEW c \in Callers, LoggedIn(c) PROVE OauthInv'
  <2>1. OauthTypes'
    BY <1>1, IssuePreserves DEF OauthInv, OauthTypes, LoggedIn
  <2>2. Carried(c)'
    BY <1>1 DEF OauthInv, OauthTypes, LoggedIn, Carried
  <2>3. \A d \in Callers \ {c} : Carried(d)'
    BY <1>1, IssueCarries DEF OauthInv, OauthTypes, LoggedIn
  <2> QED BY <2>1, <2>2, <2>3 DEF OauthInv
<1>2. ASSUME NEW c \in Callers, StoreSession(c) PROVE OauthInv'
  BY <1>2, NewObject, EndPreserves DEF StoreSession
<1>3. ASSUME NEW c \in Callers, StoreReplyLost(c) PROVE OauthInv'
  <2>1. PICK n \in Names \ DOMAIN sessions : Put(n, Session(c, n, 1))
    BY <1>3 DEF StoreReplyLost
  <2>2. doing[c] = "storing" /\ UNCHANGED <<time, issued, doing, userOf, fresh, best>>
    BY <1>3 DEF StoreReplyLost
  <2>3. OauthTypes'
    BY <2>1, <2>2, NewObject DEF OauthInv, OauthTypes, StoredSession
  <2>4. \A d \in Callers : Carried(d)'
    <3> SUFFICES ASSUME NEW d \in Callers PROVE Carried(d)'
      OBVIOUS
    <3>1. Carried(d)
      BY DEF OauthInv
    <3>2. StoredSession' = StoredSession
      BY <2>2 DEF StoredSession
    <3> QED BY <2>1, <2>2, <3>1, <3>2, NewObject DEF Carried
  <2> QED BY <2>3, <2>4 DEF OauthInv
<1>4. ASSUME NEW c \in Callers, StoreFails(c) PROVE OauthInv'
  <2>1. /\ DOMAIN sessions \subseteq Names
        /\ \A n \in DOMAIN sessions :
             sessions[n] \in StoredSession /\ sessions[n].name = n
    BY DEF OauthInv, OauthTypes
  <2> QED BY <1>4, <2>1, EndPreserves DEF StoreFails
<1>5. ASSUME NEW c \in Callers, GetOauthSession(c) PROVE OauthInv'
  <2>1. PICK u \in Users : \E s \in Best(Loaded(u)) :
               /\ userOf' = [userOf EXCEPT ![c] = u]
               /\ best' = [best EXCEPT ![c] = s]
    BY <1>5 DEF GetOauthSession
  <2>2. PICK n \in DOMAIN sessions :
               best' = [best EXCEPT ![c] = sessions[n]]
    BY <2>1 DEF Best, Loaded
  <2>3. /\ doing' = [doing EXCEPT ![c] = "using"]
        /\ UNCHANGED <<time, issued, sessions, fresh>>
    BY <1>5 DEF GetOauthSession
  <2>4. OauthTypes'
    BY <2>1, <2>2, <2>3 DEF OauthInv, OauthTypes, StoredSession
  <2>5. sessions[n] \in StoredSession /\ StoredSession' = StoredSession
    BY <2>3 DEF OauthInv, OauthTypes, StoredSession
  <2>6. sessions[n].name = n
    BY DEF OauthInv, OauthTypes
  <2>7. Carried(c)'
    BY <2>1, <2>2, <2>3, <2>5, <2>6 DEF OauthInv, OauthTypes, Carried, StoredSession
  <2>8. \A d \in Callers \ {c} : Carried(d)'
    BY <2>1, <2>2, <2>3, <2>5 DEF OauthInv, OauthTypes, Carried
  <2> QED BY <2>4, <2>7, <2>8 DEF OauthInv
<1>6. ASSUME NEW c \in Callers, Renew(c) PROVE OauthInv'
  <2>1. OauthTypes'
    BY <1>6, IssuePreserves DEF OauthInv, OauthTypes, Renew
  <2>2. /\ best[c] \in StoredSession
        /\ userOf[c] \in Users
        /\ best[c].name \in DOMAIN sessions
        /\ best[c].version <= sessions[best[c].name].version
        /\ best[c].version = sessions[best[c].name].version =>
             best[c].token = sessions[best[c].name].token
    BY <1>6 DEF OauthInv, Renew, Carried
  <2>3. best[c].token < fresh'[c].token
    BY <1>6, <2>2, IssuePreserves DEF OauthInv, OauthTypes, Renew, StoredSession
  <2>4. best[c] \in StoredSession'
    BY <1>6, <2>2, IssuePreserves DEF Renew
  <2>5. doing'[c] = "refreshing" /\ UNCHANGED <<sessions, userOf, best>>
    BY <1>6 DEF OauthInv, OauthTypes, Renew
  <2>6. Carried(c)'
    BY <2>2, <2>3, <2>4, <2>5 DEF Carried
  <2>7. \A d \in Callers \ {c} : Carried(d)'
    BY <1>6, IssueCarries DEF OauthInv, OauthTypes, Renew
  <2> QED BY <2>1, <2>6, <2>7 DEF OauthInv
<1>7. ASSUME NEW c \in Callers, RefreshSession(c) PROVE OauthInv'
  <2>1. End(c) /\ UNCHANGED <<time, issued>>
    BY <1>7 DEF RefreshSession
  <2>2. /\ DOMAIN sessions \subseteq Names
        /\ \A n \in DOMAIN sessions :
             sessions[n] \in StoredSession /\ sessions[n].name = n
    BY DEF OauthInv, OauthTypes
  <2>3. CASE ~Current(c)
    BY <1>7, <2>1, <2>2, <2>3, EndPreserves DEF RefreshSession
  <2>4. CASE Current(c)
    <3>1. Put(best[c].name, Refreshed(c))
      BY <1>7, <2>4 DEF RefreshSession
    <3>2. doing[c] = "refreshing"
      BY <1>7 DEF RefreshSession
    <3>3. best[c] \in StoredSession /\ best[c].name \in DOMAIN sessions
      BY <3>2 DEF OauthInv, Carried
    <3>4. Refreshed(c) \in StoredSession /\ Refreshed(c).name = best[c].name
      BY <3>2, <3>3, SessionTyped DEF Refreshed, StoredSession
    <3>5. Refreshed(c).version > sessions[best[c].name].version
      BY <2>4, <3>3 DEF Refreshed, Session, Current, StoredSession
    <3>6. /\ DOMAIN sessions' = DOMAIN sessions
          /\ \A m \in DOMAIN sessions :
               IF m = best[c].name THEN sessions'[m] = Refreshed(c)
                                   ELSE sessions'[m] = sessions[m]
      BY <3>1, <3>3, PutKeeps
    <3> QED BY <2>1, <2>2, <3>4, <3>5, <3>6, EndPreserves
  <2> QED BY <2>3, <2>4
<1>8. ASSUME NEW c \in Callers, Finish(c) PROVE OauthInv'
  <2>1. /\ DOMAIN sessions \subseteq Names
        /\ \A n \in DOMAIN sessions :
             sessions[n] \in StoredSession /\ sessions[n].name = n
    BY DEF OauthInv, OauthTypes
  <2> QED BY <1>8, <2>1, EndPreserves DEF Finish
<1>9. CASE TimePasses
  <2>1. time' \in Nat /\ UNCHANGED <<issued, sessions, doing, userOf, fresh, best>>
    BY <1>9 DEF OauthInv, OauthTypes, TimePasses
  <2> QED BY <2>1 DEF OauthInv, OauthTypes, Carried, StoredSession
<1>10. CASE UNCHANGED oauthVars
  BY <1>10 DEF OauthInv, OauthTypes, Carried, StoredSession, oauthVars
<1> QED BY <1>1, <1>2, <1>3, <1>4, <1>5, <1>6, <1>7, <1>8, <1>9, <1>10
       DEF OauthNext

\* The invariant that the theorems below rest on: a copy with the version of
\* the stored object has its token.
THEOREM OauthInductive == OauthSpec => []OauthInv
BY OauthInitially, OauthStep, PTL DEF OauthSpec

\* Only a refresh changes an object, and only one of the version it was read at:
\* the token refreshed is that of the object.
LEMMA NeverBack ==
  OauthInv /\ [OauthNext]_oauthVars =>
    \A n \in DOMAIN sessions :
      n \in DOMAIN sessions' /\ sessions'[n].token >= sessions[n].token
<1> SUFFICES ASSUME OauthInv, [OauthNext]_oauthVars,
                    NEW n \in DOMAIN sessions
             PROVE  n \in DOMAIN sessions' /\ sessions'[n].token >= sessions[n].token
  OBVIOUS
<1>1. sessions[n].token \in Nat
  BY DEF OauthInv, OauthTypes, StoredSession
<1>2. ASSUME NEW c \in Callers, StoreSession(c) \/ StoreReplyLost(c)
      PROVE  n \in DOMAIN sessions' /\ sessions'[n].token >= sessions[n].token
  BY <1>1, <1>2, NewObject DEF StoreSession, StoreReplyLost
<1>3. ASSUME NEW c \in Callers, RefreshSession(c)
      PROVE  n \in DOMAIN sessions' /\ sessions'[n].token >= sessions[n].token
  <2>1. CASE ~Current(c)
    BY <1>1, <1>3, <2>1 DEF RefreshSession
  <2>2. CASE Current(c)
    <3>1. Put(best[c].name, Refreshed(c)) /\ doing[c] = "refreshing"
      BY <1>3, <2>2 DEF RefreshSession
    <3>2. /\ best[c] \in StoredSession
          /\ sessions[best[c].name].token = best[c].token
          /\ best[c].token < fresh[c].token
      BY <2>2, <3>1 DEF OauthInv, Carried, Current
    <3>3. fresh[c].token \in Nat
      BY DEF OauthInv, OauthTypes
    <3>4. Refreshed(c).token = fresh[c].token
      BY DEF Refreshed, Session
    <3>5. best[c].token \in Nat
      BY <3>2 DEF StoredSession
    <3>6. /\ n \in DOMAIN sessions'
          /\ sessions'[best[c].name] = Refreshed(c)
          /\ n # best[c].name => sessions'[n] = sessions[n]
      BY <3>1, PutKeeps
    <3> QED BY <1>1, <3>2, <3>3, <3>4, <3>5, <3>6
  <2> QED BY <2>1, <2>2
<1>4. CASE UNCHANGED sessions
  BY <1>1, <1>4
<1> QED BY <1>2, <1>3, <1>4
       DEF OauthNext, LoggedIn, StoreFails, GetOauthSession, Renew, Finish,
           TimePasses, oauthVars

\* Two callers that refresh one session do not undo each other
\* (RefreshSession's update is conditional on the version it read).
THEOREM NeverFallsBack == OauthSpec => RefreshNeverFallsBack
<1>1. OauthInv /\ [OauthNext]_oauthVars =>
        [\A n \in DOMAIN sessions :
           n \in DOMAIN sessions' /\ sessions'[n].token >= sessions[n].token]_oauthVars
  BY NeverBack
<1> QED BY <1>1, OauthInductive, PTL DEF OauthSpec, RefreshNeverFallsBack

\* One without end is before all others.
LEMMA NeverIsFirst ==
  ASSUME NEW s \in Expiries
  PROVE  NeverExpires <= s
BY NeverAssumption DEF Expiries

LEMMA BestIsLive ==
  ASSUME OauthInv, OauthNext, NEW c \in Callers,
         doing[c] = "idle", doing'[c] = "using"
  PROVE  /\ best'[c].user = userOf'[c]
         /\ Expired(best'[c]) =>
              \A s \in Loaded(userOf'[c]) : Expired(s) \/ ~HasEnd(s)
         /\ ~HasEnd(best'[c]) =>
              \A s \in Loaded(userOf'[c]) : ~HasEnd(s)
<1>1. GetOauthSession(c)
  BY DEF OauthInv, OauthTypes, OauthNext, LoggedIn, StoreSession, StoreReplyLost,
         StoreFails, GetOauthSession, Renew, RefreshSession, Finish, TimePasses, End
<1>2. PICK u \in Users : \E s \in Best(Loaded(u)) :
             /\ userOf' = [userOf EXCEPT ![c] = u]
             /\ best' = [best EXCEPT ![c] = s]
  BY <1>1 DEF GetOauthSession
<1>3. /\ userOf'[c] = u
      /\ best'[c] \in Loaded(u)
      /\ \A t \in Loaded(u) : t.expires <= best'[c].expires
  BY <1>2 DEF OauthInv, OauthTypes, Best
<1>4. \A s \in Loaded(u) : s.expires \in Expiries /\ s.expires \in Int /\ s.user = u
  BY NeverAssumption DEF OauthInv, OauthTypes, StoredSession, Loaded, Expiries
<1>5. time \in Int
  BY DEF OauthInv, OauthTypes
<1>6. best'[c].user = userOf'[c]
  BY <1>3, <1>4
<1>7. Expired(best'[c]) => \A s \in Loaded(userOf'[c]) : Expired(s) \/ ~HasEnd(s)
  BY <1>3, <1>4, <1>5 DEF Expired, HasEnd
<1>8. ~HasEnd(best'[c]) => \A s \in Loaded(userOf'[c]) : ~HasEnd(s)
  BY <1>3, <1>4, NeverIsFirst, NeverAssumption DEF HasEnd
<1> QED BY <1>6, <1>7, <1>8

\* Who is handed a session that has expired has no other but such and sessions
\* without end; who is handed one of these has no other (GetOauthSession's
\* choice by ExpiresAt).
THEOREM PrefersLive == OauthSpec => LiveSessionPreferred
<1>1. OauthInv /\ [OauthNext]_oauthVars =>
        [\A c \in Callers :
           doing[c] = "idle" /\ doing'[c] = "using" =>
             /\ best'[c].user = userOf'[c]
             /\ Expired(best'[c]) =>
                  \A s \in Loaded(userOf'[c]) : Expired(s) \/ ~HasEnd(s)
             /\ ~HasEnd(best'[c]) =>
                  \A s \in Loaded(userOf'[c]) : ~HasEnd(s)]_oauthVars
  BY BestIsLive
<1> QED BY <1>1, OauthInductive, PTL DEF OauthSpec, LiveSessionPreferred
=============================================================================
