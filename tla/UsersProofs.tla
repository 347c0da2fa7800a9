----------------------------- MODULE UsersProofs -----------------------------
(* Proofs about Users, for any number of callers, accounts, users and faults. *)
EXTENDS Users, FiniteSetTheorems, WellFoundedInduction, TLAPS

\* Numbers are well-founded, and so any set of users has a first one.
LEMMA FirstOf ==
  ASSUME NEW S \in SUBSET UserIDs, S # {}
  PROVE  \E u \in S : \A v \in S : u <= v
<1>0. S \in SUBSET Nat
  BY UserIDsAssumption
<1> DEFINE R == OpToRel(<, Nat)
<1>1. IsWellFoundedOn(R, Nat)
  BY NatLessThanWellFounded
<1>2. \A u, v \in Nat : u < v => <<u, v>> \in R
  BY DEF OpToRel
<1> HIDE DEF R
<1>3. PICK u \in S : \A v \in S : ~(<<v, u>> \in R)
  BY <1>0, <1>1, WFMin, Zenon
<1>4. u \in Nat /\ \A v \in S : v \in Nat /\ ~(v < u)
  BY <1>0, <1>2, <1>3
<1> QED BY <1>4

LEMMA MinOf ==
  ASSUME NEW S \in SUBSET UserIDs, S # {}
  PROVE  Min(S) \in S
<1>1. \E u \in S : \A v \in S : u <= v
  BY FirstOf
<1> QED BY <1>1 DEF Min

LEMMA CreatorsFinite ==
  ASSUME NEW a
  PROVE  /\ IsFiniteSet(Callers) /\ Cardinality(Callers) \in Nat
         /\ IsFiniteSet(Creators(a)) /\ Cardinality(Creators(a)) \in Nat
         /\ Cardinality(Creators(a)) <= Cardinality(Callers)
<1>1. Creators(a) \in SUBSET Callers
  BY DEF Creators
<1>2. IsFiniteSet(Creators(a)) /\ Cardinality(Creators(a)) <= Cardinality(Callers)
  BY <1>1, CallersAssumption, FS_Subset
<1> QED BY <1>2, CallersAssumption, FS_CardinalityType

\* A step that creates no user and lets nobody past the scan keeps the count.
LEMMA CountShrinks ==
  ASSUME NEW a \in Accounts, CountInv(a), owner' = owner,
         Creators(a)' \in SUBSET Creators(a)
  PROVE  CountInv(a)'
<1>1. UsersOf(a)' = UsersOf(a)
  BY DEF UsersOf
<1>2. IsFiniteSet(Creators(a)')
      /\ Cardinality(Creators(a)') <= Cardinality(Creators(a))
  BY CreatorsFinite, FS_Subset
<1>3. /\ Cardinality(Creators(a)') \in Nat
      /\ Cardinality(UsersOf(a)) \in Nat
      /\ Cardinality(Creators(a)) \in Nat /\ Cardinality(Callers) \in Nat
  BY <1>2, CreatorsFinite, FS_CardinalityType DEF CountInv
<1> QED BY <1>1, <1>2, <1>3 DEF CountInv

LEMMA InitInv == Init => IInv
<1> SUFFICES ASSUME Init PROVE IInv
  OBVIOUS
<1> USE AccountsAssumption, FaultsAssumption DEF Init, Calling, Creating
<1>1. TypeOK
  BY DEF TypeOK, NoUser
<1>2. DistinctInv
  BY DEF DistinctInv
<1>3. \A c \in Callers : CallerInv(c)
  BY DEF CallerInv
<1>4. \A u \in UserIDs : UserInv(u)
  BY DEF UserInv
<1>5. ASSUME NEW a \in Accounts PROVE CountInv(a)
  <2>1. UsersOf(a) = {} /\ Creators(a) = {}
    BY DEF UsersOf, Creators
  <2> QED BY <2>1, FS_EmptySet, CreatorsFinite DEF CountInv
<1> QED BY <1>1, <1>2, <1>3, <1>4, <1>5 DEF IInv

LEMMA LoginStep ==
  ASSUME IInv, NEW c \in Callers, Login(c)
  PROVE  IInv'
<1> USE AccountsAssumption DEF IInv, TypeOK, Login, Goto, Calling, Creating, NoUser
<1>1. TypeOK'
  BY NamespaceAssumption, FaultsAssumption DEF CallerInv, Namespaces
<1>2. DistinctInv'
  BY UserIDsAssumption DEF DistinctInv, CallerInv
<1>3. ASSUME NEW e \in Callers PROVE CallerInv(e)'
  BY UserIDsAssumption DEF CallerInv, DistinctInv, UserInv
<1>4. ASSUME NEW u \in UserIDs PROVE UserInv(u)'
  BY DEF UserInv, CallerInv
<1>5. ASSUME NEW a \in Accounts PROVE CountInv(a)'
  <2>1. Creators(a)' \in SUBSET Creators(a)
    BY DEF Creators
  <2> QED BY <2>1, CountShrinks
<1> QED BY <1>1, <1>2, <1>3, <1>4, <1>5

LEMMA ListFindsUserStep ==
  ASSUME IInv, NEW c \in Callers, ListFindsUser(c)
  PROVE  IInv'
<1> USE AccountsAssumption DEF IInv, TypeOK, ListFindsUser, Return, Goto, Calling, Creating, NoUser
<1>a. /\ Min(UsersOf(account[c])) \in UserIDs
      /\ owner[Min(UsersOf(account[c]))] = account[c]
      /\ account[c] \in Accounts
  BY MinOf DEF UsersOf, CallerInv
<1>0. /\ Min(UsersOf(account[c])) \in UserIDs
      /\ owner[Min(UsersOf(account[c]))] = account[c]
      /\ NamespaceFor[Min(UsersOf(account[c]))] \in namespaces
  BY <1>a DEF UserInv
<1>1. TypeOK'
  BY <1>0, NamespaceAssumption, FaultsAssumption DEF CallerInv, Namespaces
<1>2. DistinctInv'
  BY <1>0, UserIDsAssumption DEF DistinctInv, CallerInv
<1>3. ASSUME NEW e \in Callers PROVE CallerInv(e)'
  BY <1>0, UserIDsAssumption DEF CallerInv, DistinctInv, UserInv
<1>4. ASSUME NEW u \in UserIDs PROVE UserInv(u)'
  BY DEF UserInv, CallerInv
<1>5. ASSUME NEW a \in Accounts PROVE CountInv(a)'
  <2>1. Creators(a)' \in SUBSET Creators(a)
    BY DEF Creators
  <2> QED BY <2>1, CountShrinks
<1> QED BY <1>1, <1>2, <1>3, <1>4, <1>5

LEMMA ListFindsNobodyStep ==
  ASSUME IInv, NEW c \in Callers, ListFindsNobody(c)
  PROVE  IInv'
<1> USE AccountsAssumption DEF IInv, TypeOK, ListFindsNobody, Goto, Calling, Creating, NoUser
<1>1. TypeOK'
  BY NamespaceAssumption, FaultsAssumption DEF CallerInv, Namespaces, Fresh
<1>2. DistinctInv'
  BY UserIDsAssumption DEF DistinctInv, CallerInv, Fresh
<1>3. ASSUME NEW e \in Callers PROVE CallerInv(e)'
  BY UserIDsAssumption DEF CallerInv, DistinctInv, UserInv, Fresh
<1>4. ASSUME NEW u \in UserIDs PROVE UserInv(u)'
  BY DEF UserInv, CallerInv
<1>5. ASSUME NEW a \in Accounts PROVE CountInv(a)'
  <2>1. CASE a = account[c]
    <3>1. UsersOf(a)' = {}
      BY <2>1 DEF UsersOf
    <3>2. Creators(a)' \in SUBSET Callers
      BY DEF Creators
    <3>3. IsFiniteSet(Creators(a)') /\ Cardinality(Creators(a)') <= Cardinality(Callers)
      BY <3>2, CallersAssumption, FS_Subset
    <3>4. Cardinality(Creators(a)') \in Nat
      BY <3>3, FS_CardinalityType
    <3> QED BY <3>1, <3>3, <3>4, FS_EmptySet, CreatorsFinite DEF CountInv
  <2>2. CASE a # account[c]
    BY <2>2, CountShrinks DEF Creators
  <2> QED BY <2>1, <2>2
<1> QED BY <1>1, <1>2, <1>3, <1>4, <1>5

LEMMA PopulateUserDataStep ==
  ASSUME IInv, NEW c \in Callers, PopulateUserData(c)
  PROVE  IInv'
<1> USE AccountsAssumption DEF IInv, TypeOK, PopulateUserData, Goto, Calling, Creating, NoUser
<1>1. TypeOK'
  BY NamespaceAssumption, FaultsAssumption DEF CallerInv, Namespaces
<1>2. DistinctInv'
  BY UserIDsAssumption DEF DistinctInv, CallerInv
<1>3. ASSUME NEW e \in Callers PROVE CallerInv(e)'
  BY UserIDsAssumption DEF CallerInv, DistinctInv, UserInv
<1>4. ASSUME NEW u \in UserIDs PROVE UserInv(u)'
  BY DEF UserInv, CallerInv
<1>5. ASSUME NEW a \in Accounts PROVE CountInv(a)'
  <2>1. Creators(a)' \in SUBSET Creators(a)
    BY DEF Creators
  <2> QED BY <2>1, CountShrinks
<1> QED BY <1>1, <1>2, <1>3, <1>4, <1>5

LEMMA GetNamespaceStep ==
  ASSUME IInv, NEW c \in Callers, GetNamespace(c)
  PROVE  IInv'
<1> USE AccountsAssumption DEF IInv, TypeOK, GetNamespace, Goto, Calling, Creating, NoUser
<1>1. TypeOK'
  BY NamespaceAssumption, FaultsAssumption DEF CallerInv, Namespaces
<1>2. DistinctInv'
  BY UserIDsAssumption DEF DistinctInv, CallerInv
<1>3. ASSUME NEW e \in Callers PROVE CallerInv(e)'
  BY UserIDsAssumption DEF CallerInv, DistinctInv, UserInv
<1>4. ASSUME NEW u \in UserIDs PROVE UserInv(u)'
  BY DEF UserInv, CallerInv
<1>5. ASSUME NEW a \in Accounts PROVE CountInv(a)'
  <2>1. Creators(a)' \in SUBSET Creators(a)
    BY DEF Creators
  <2> QED BY <2>1, CountShrinks
<1> QED BY <1>1, <1>2, <1>3, <1>4, <1>5

LEMMA CreateNamespaceStep ==
  ASSUME IInv, NEW c \in Callers, CreateNamespace(c)
  PROVE  IInv'
<1> USE AccountsAssumption DEF IInv, TypeOK, CreateNamespace, ReplyLost, Fail, Goto, Calling, Creating, NoUser
<1>1. TypeOK'
  BY NamespaceAssumption, FaultsAssumption DEF CallerInv, Namespaces
<1>2. DistinctInv'
  BY UserIDsAssumption DEF DistinctInv, CallerInv
<1>3. ASSUME NEW e \in Callers PROVE CallerInv(e)'
  BY UserIDsAssumption DEF CallerInv, DistinctInv, UserInv
<1>4. ASSUME NEW u \in UserIDs PROVE UserInv(u)'
  BY DEF UserInv, CallerInv
<1>5. ASSUME NEW a \in Accounts PROVE CountInv(a)'
  <2>1. Creators(a)' \in SUBSET Creators(a)
    BY DEF Creators
  <2> QED BY <2>1, CountShrinks
<1> QED BY <1>1, <1>2, <1>3, <1>4, <1>5

LEMMA NamespaceExistsStep ==
  ASSUME IInv, NEW c \in Callers, NamespaceExists(c)
  PROVE  IInv'
<1> USE AccountsAssumption DEF IInv, TypeOK, NamespaceExists, Fail, Goto, Calling, Creating, NoUser
<1>1. TypeOK'
  BY NamespaceAssumption, FaultsAssumption DEF CallerInv, Namespaces
<1>2. DistinctInv'
  BY UserIDsAssumption DEF DistinctInv, CallerInv
<1>3. ASSUME NEW e \in Callers PROVE CallerInv(e)'
  BY UserIDsAssumption DEF CallerInv, DistinctInv, UserInv
<1>4. ASSUME NEW u \in UserIDs PROVE UserInv(u)'
  BY DEF UserInv, CallerInv
<1>5. ASSUME NEW a \in Accounts PROVE CountInv(a)'
  <2>1. Creators(a)' \in SUBSET Creators(a)
    BY DEF Creators
  <2> QED BY <2>1, CountShrinks
<1> QED BY <1>1, <1>2, <1>3, <1>4, <1>5

LEMMA CreateUserStep ==
  ASSUME IInv, NEW c \in Callers, CreateUser(c)
  PROVE  IInv'
<1> USE AccountsAssumption DEF IInv, TypeOK, CreateUser, Return, ReplyLost, Fail, Goto, Calling, Creating, NoUser
<1>1. TypeOK'
  BY NamespaceAssumption, FaultsAssumption DEF CallerInv, Namespaces
<1>2. DistinctInv'
  BY UserIDsAssumption DEF DistinctInv, CallerInv
<1>3. ASSUME NEW e \in Callers PROVE CallerInv(e)'
  BY UserIDsAssumption DEF CallerInv, DistinctInv, UserInv
<1>4. ASSUME NEW u \in UserIDs PROVE UserInv(u)'
  BY DEF UserInv, CallerInv
<1>5. ASSUME NEW a \in Accounts PROVE CountInv(a)'
  <2>0. user[c] \in UserIDs /\ owner[user[c]] = NoAccount
    BY DEF CallerInv
  <2>1. CASE a = account[c]
    <3>1. UsersOf(a)' = UsersOf(a) \cup {user[c]} /\ user[c] \notin UsersOf(a)
      BY <2>0, <2>1 DEF UsersOf
    <3>2. Creators(a)' = Creators(a) \ {c} /\ c \in Creators(a)
      BY <2>1 DEF Creators
    <3>3. /\ IsFiniteSet(UsersOf(a) \cup {user[c]})
          /\ Cardinality(UsersOf(a) \cup {user[c]}) = Cardinality(UsersOf(a)) + 1
      <4>1. IsFiniteSet(UsersOf(a))
        BY DEF CountInv
      <4> QED BY ONLY <3>1, <4>1, FS_AddElement
    <3>4. Cardinality(Creators(a)') = Cardinality(Creators(a)) - 1
      BY <3>2, CreatorsFinite, FS_RemoveElement
    <3>5. Cardinality(UsersOf(a)) \in Nat
      BY FS_CardinalityType DEF CountInv
    <3> QED BY <3>1, <3>3, <3>4, <3>5, CreatorsFinite DEF CountInv
  <2>2. CASE a # account[c]
    <3>1. UsersOf(a)' = UsersOf(a)
      BY <2>0, <2>2 DEF UsersOf
    <3>2. Creators(a)' = Creators(a)
      BY <2>2 DEF Creators
    <3> QED BY <3>1, <3>2 DEF CountInv
  <2> QED BY <2>1, <2>2
<1> QED BY <1>1, <1>2, <1>3, <1>4, <1>5

LEMMA CallFailsStep ==
  ASSUME IInv, NEW c \in Callers, CallFails(c)
  PROVE  IInv'
<1> USE AccountsAssumption DEF IInv, TypeOK, CallFails, ReplyLost, Fail, Goto, Calling, Creating, NoUser
<1>1. TypeOK'
  BY NamespaceAssumption, FaultsAssumption DEF CallerInv, Namespaces
<1>2. DistinctInv'
  BY UserIDsAssumption DEF DistinctInv, CallerInv
<1>3. ASSUME NEW e \in Callers PROVE CallerInv(e)'
  BY UserIDsAssumption DEF CallerInv, DistinctInv, UserInv
<1>4. ASSUME NEW u \in UserIDs PROVE UserInv(u)'
  BY DEF UserInv, CallerInv
<1>5. ASSUME NEW a \in Accounts PROVE CountInv(a)'
  <2>1. Creators(a)' \in SUBSET Creators(a)
    BY DEF Creators
  <2> QED BY <2>1, CountShrinks
<1> QED BY <1>1, <1>2, <1>3, <1>4, <1>5

LEMMA RetryStep ==
  ASSUME IInv, NEW c \in Callers, Retry(c)
  PROVE  IInv'
<1> USE AccountsAssumption DEF IInv, TypeOK, Retry, Goto, Calling, Creating, NoUser
<1>1. TypeOK'
  BY NamespaceAssumption, FaultsAssumption DEF CallerInv, Namespaces
<1>2. DistinctInv'
  BY UserIDsAssumption DEF DistinctInv, CallerInv
<1>3. ASSUME NEW e \in Callers PROVE CallerInv(e)'
  BY UserIDsAssumption DEF CallerInv, DistinctInv, UserInv
<1>4. ASSUME NEW u \in UserIDs PROVE UserInv(u)'
  BY DEF UserInv, CallerInv
<1>5. ASSUME NEW a \in Accounts PROVE CountInv(a)'
  <2>1. Creators(a)' \in SUBSET Creators(a)
    BY DEF Creators
  <2> QED BY <2>1, CountShrinks
<1> QED BY <1>1, <1>2, <1>3, <1>4, <1>5

LEMMA LeaveStep ==
  ASSUME IInv, NEW c \in Callers, Leave(c)
  PROVE  IInv'
<1> USE AccountsAssumption DEF IInv, TypeOK, Leave, Goto, Calling, Creating, NoUser
<1>1. TypeOK'
  BY NamespaceAssumption, FaultsAssumption DEF CallerInv, Namespaces
<1>2. DistinctInv'
  BY UserIDsAssumption DEF DistinctInv, CallerInv
<1>3. ASSUME NEW e \in Callers PROVE CallerInv(e)'
  BY UserIDsAssumption DEF CallerInv, DistinctInv, UserInv
<1>4. ASSUME NEW u \in UserIDs PROVE UserInv(u)'
  BY DEF UserInv, CallerInv
<1>5. ASSUME NEW a \in Accounts PROVE CountInv(a)'
  <2>1. Creators(a)' \in SUBSET Creators(a)
    BY DEF Creators
  <2> QED BY <2>1, CountShrinks
<1> QED BY <1>1, <1>2, <1>3, <1>4, <1>5

LEMMA StutterStep ==
  ASSUME IInv, UNCHANGED vars
  PROVE  IInv'
<1> USE DEF vars, IInv
<1>1. TypeOK'
  BY DEF TypeOK
<1>2. DistinctInv'
  BY DEF DistinctInv
<1>3. ASSUME NEW c \in Callers PROVE CallerInv(c)'
  BY DEF CallerInv
<1>4. ASSUME NEW u \in UserIDs PROVE UserInv(u)'
  BY DEF UserInv
<1>5. ASSUME NEW a \in Accounts PROVE CountInv(a)'
  BY CountShrinks DEF Creators
<1> QED BY <1>1, <1>2, <1>3, <1>4, <1>5

LEMMA NextInv == IInv /\ [Next]_vars => IInv'
BY LoginStep, ListFindsUserStep, ListFindsNobodyStep, PopulateUserDataStep,
   GetNamespaceStep, CreateNamespaceStep, NamespaceExistsStep, CreateUserStep,
   CallFailsStep, RetryStep, LeaveStep, StutterStep DEF Next, MapToUser

\* The inductive invariant of MapToUser and ensureNamespace.
THEOREM Inductive == Spec => []IInv
<1>1. Init => IInv
  BY InitInv
<1>2. IInv /\ [Next]_vars => IInv'
  BY NextInv
<1> QED BY <1>1, <1>2, PTL DEF Spec

\* Every variable keeps its type.
THEOREM TypeCorrect == Spec => []TypeOK
<1>1. IInv => TypeOK
  BY DEF IInv
<1> QED BY <1>1, Inductive, PTL

\* An account never has more users than logins can be under way at once,
\* however often it logs in and whatever fails (MapToUser).
THEOREM Bounded == Spec => []UsersDoNotAccumulate
<1>1. IInv => UsersDoNotAccumulate
  <2> SUFFICES ASSUME IInv, NEW a \in Accounts
               PROVE  Cardinality(UsersOf(a)) <= Cardinality(Callers)
    BY DEF UsersDoNotAccumulate
  <2>1. CountInv(a) /\ Cardinality(UsersOf(a)) \in Nat
    BY FS_CardinalityType DEF IInv, CountInv
  <2> QED BY <2>1, CreatorsFinite DEF CountInv
<1> QED BY <1>1, Inductive, PTL

\* Whoever is let in is mapped to an existing user of the account, in an
\* existing namespace (MapToUser, ensureNamespace).
THEOREM Mapped == Spec => []MappedToOwnUser
<1>1. IInv => MappedToOwnUser
  BY DEF IInv, CallerInv, MappedToOwnUser
<1> QED BY <1>1, Inductive, PTL

\* From the moment an account is settled it keeps its users, and every login is
\* mapped to the first of them (MapToUser).
THEOREM Settles == Spec => SettledForever
<1>1. IInv /\ [Next]_vars =>
        [\A a \in Accounts : Settled(a) =>
           /\ Settled(a)' /\ UsersOf(a)' = UsersOf(a)
           /\ \A c \in Callers : (pc[c] = "list" /\ pc'[c] = "done" /\ account[c] = a)
                                    => user'[c] = Min(UsersOf(a))]_vars
  <2> SUFFICES ASSUME IInv, Next, NEW a \in Accounts, Settled(a)
               PROVE  /\ Settled(a)' /\ UsersOf(a)' = UsersOf(a)
                      /\ \A c \in Callers :
                           (pc[c] = "list" /\ pc'[c] = "done" /\ account[c] = a)
                             => user'[c] = Min(UsersOf(a))
    OBVIOUS
  <2> PICK c \in Callers : Login(c) \/ MapToUser(c) \/ CallFails(c) \/ Retry(c) \/ Leave(c)
    BY DEF Next
  <2> USE AccountsAssumption DEF IInv, TypeOK, Goto, Calling, Creating
  <2>1. UsersOf(a)' = UsersOf(a)
    <3>1. CASE CreateUser(c)
      <4>1. account[c] # a /\ user[c] \in UserIDs /\ owner[user[c]] = NoAccount
        BY <3>1 DEF CreateUser, Settled, CallerInv
      <4> QED BY <3>1, <4>1 DEF CreateUser, UsersOf
    <3>2. CASE ~CreateUser(c)
      <4>1. owner' = owner
        BY <3>2 DEF MapToUser, Login, ListFindsUser, ListFindsNobody, PopulateUserData,
             GetNamespace, CreateNamespace, NamespaceExists, CallFails, Retry, Leave
      <4> QED BY <4>1 DEF UsersOf
    <3> QED BY <3>1, <3>2
  <2>2. \A d \in Callers : account'[d] = a => pc'[d] \notin Creating
    BY DEF Settled, MapToUser, Login, ListFindsUser, ListFindsNobody, PopulateUserData,
         GetNamespace, CreateNamespace, NamespaceExists, CreateUser, CallFails, Retry, Leave,
         Return, ReplyLost, Fail
  <2>3. \A d \in Callers : (pc[d] = "list" /\ pc'[d] = "done" /\ account[d] = a)
                              => user'[d] = Min(UsersOf(a))
    BY DEF MapToUser, Login, ListFindsUser, ListFindsNobody, PopulateUserData,
         GetNamespace, CreateNamespace, NamespaceExists, CreateUser, CallFails, Retry, Leave,
         Return, ReplyLost, Fail
  <2> QED BY <2>1, <2>2, <2>3 DEF Settled
<1> QED BY <1>1, Inductive, PTL DEF Spec, SettledForever
=============================================================================
