-------------------------------- MODULE Users --------------------------------
(* components/users, MapToUser: the user of a provider's account is found by   *)
(* scanning all users, or created, with a namespace for it if need be.         *)
(* Nothing locks the users between the scan and the creation, and any call to  *)
(* the API server may fail, before or after it took effect; whoever gets an    *)
(* error logs in again.                                                        *)
EXTENDS Integers, FiniteSets, FiniteSetsExt

CONSTANTS
  Callers,      \* Logins that can be under way at once.
  Accounts,     \* The accounts of the provider.
  NoAccount,
  UserIDs,      \* The names of user objects; a list of users is in their order.
  NamespaceFor, \* NamespaceMapper: the namespace of each user.
  MaxFaults     \* Bound: calls that fail.

ASSUME AccountsAssumption == NoAccount \notin Accounts
ASSUME CallersAssumption == IsFiniteSet(Callers)
ASSUME UserIDsAssumption == UserIDs \subseteq Nat \ {0}
ASSUME NamespaceAssumption == DOMAIN NamespaceFor = UserIDs
ASSUME FaultsAssumption == MaxFaults \in Nat

VARIABLES
  owner,        \* Per user object: the linked account; none: no such object.
  namespaces,   \* The namespaces that exist.
  pc,           \* Per caller: where it is.
  account,      \* Per caller: the account that logs in.
  user,         \* Per caller: the user it is about to create, or was mapped to.
  faults

vars == <<owner, namespaces, pc, account, user, faults>>

NoUser == 0
Namespaces == {NamespaceFor[u] : u \in UserIDs}

\* Past the scan, and certain to create a user unless something fails.
Creating == {"populate", "getNamespace", "createNamespace", "createUser"}
Calling == {"list"} \cup Creating

UsersOf(a) == {u \in UserIDs : owner[u] = a}

Init ==
  /\ owner = [u \in UserIDs |-> NoAccount]
  /\ namespaces = {}
  /\ pc = [c \in Callers |-> "idle"]
  /\ account = [c \in Callers |-> NoAccount]
  /\ user = [c \in Callers |-> NoUser]
  /\ faults = 0

Goto(c, l) == pc' = [pc EXCEPT ![c] = l]

\* Redeem maps an account to a user.
Login(c) ==
  /\ pc[c] = "idle"
  /\ \E a \in Accounts : account' = [account EXCEPT ![c] = a]
  /\ Goto(c, "list")
  /\ UNCHANGED <<owner, namespaces, user, faults>>

\* MapToUser hands its caller user u.
Return(c, u) ==
  /\ user' = [user EXCEPT ![c] = u]
  /\ Goto(c, "done")

\* Mutant of ListFindsUser: any user with the account linked.
ListFindsAnyUser(c) ==
  /\ pc[c] = "list"
  /\ \E u \in UsersOf(account[c]) : Return(c, u)
  /\ UNCHANGED <<owner, namespaces, account, faults>>

\* The first user with the account linked, in the order of the list.
ListFindsUser(c) ==
  /\ pc[c] = "list"
  /\ UsersOf(account[c]) # {}
  /\ Return(c, Min(UsersOf(account[c])))
  /\ UNCHANGED <<owner, namespaces, account, faults>>

\* generateUserID never draws an id that is used, or that another caller drew.
Fresh == {u \in UserIDs : owner[u] = NoAccount /\ \A c \in Callers : user[c] # u}

\* Mutant of ListFindsNobody: the linked accounts are not compared.
ListIgnored(c) ==
  /\ pc[c] = "list"
  /\ \E u \in Fresh : user' = [user EXCEPT ![c] = u]
  /\ Goto(c, "populate")
  /\ UNCHANGED <<owner, namespaces, account, faults>>

ListFindsNobody(c) ==
  /\ pc[c] = "list"
  /\ UsersOf(account[c]) = {}
  /\ \E u \in Fresh : user' = [user EXCEPT ![c] = u]
  /\ Goto(c, "populate")
  /\ UNCHANGED <<owner, namespaces, account, faults>>

PopulateUserData(c) ==
  /\ pc[c] = "populate"
  /\ Goto(c, "getNamespace")
  /\ UNCHANGED <<owner, namespaces, account, user, faults>>

\* The user is not created: it did not get there, or something was in the way.
Fail(c) ==
  /\ Goto(c, "failed")
  /\ user' = [user EXCEPT ![c] = NoUser]

\* The reply to a call that took effect gets lost.
ReplyLost(c) ==
  /\ faults < MaxFaults
  /\ faults' = faults + 1
  /\ Fail(c)

\* Mutant of GetNamespace: the namespace is always created.
GetNamespaceAlwaysCreating(c) ==
  /\ pc[c] = "getNamespace"
  /\ Goto(c, "createNamespace")
  /\ UNCHANGED <<owner, namespaces, account, user, faults>>

\* ensureNamespace.
GetNamespace(c) ==
  /\ pc[c] = "getNamespace"
  /\ Goto(c, IF NamespaceFor[user[c]] \in namespaces THEN "createUser" ELSE "createNamespace")
  /\ UNCHANGED <<owner, namespaces, account, user, faults>>

CreateNamespace(c) ==
  /\ pc[c] = "createNamespace"
  /\ NamespaceFor[user[c]] \notin namespaces
  /\ namespaces' = namespaces \cup {NamespaceFor[user[c]]}
  /\ \/ Goto(c, "createUser") /\ UNCHANGED <<user, faults>>
     \/ ReplyLost(c)
  /\ UNCHANGED <<owner, account>>

\* Somebody else created it since GetNamespace: an error, which ends the login.
NamespaceExists(c) ==
  /\ pc[c] = "createNamespace"
  /\ NamespaceFor[user[c]] \in namespaces
  /\ Fail(c)
  /\ UNCHANGED <<owner, namespaces, account, faults>>

CreateUser(c) ==
  /\ pc[c] = "createUser"
  /\ owner' = [owner EXCEPT ![user[c]] = account[c]]
  /\ \/ Return(c, user[c]) /\ UNCHANGED faults
     \/ ReplyLost(c)
  /\ UNCHANGED <<namespaces, account>>

CallFails(c) ==
  /\ pc[c] \in Calling
  /\ faults < MaxFaults
  /\ faults' = faults + 1
  /\ Fail(c)
  /\ UNCHANGED <<owner, namespaces, account>>

\* Whoever was refused logs in again, with the same account.
Retry(c) ==
  /\ pc[c] = "failed"
  /\ Goto(c, "list")
  /\ UNCHANGED <<owner, namespaces, account, user, faults>>

\* A login is over; the next one is another's.
Leave(c) ==
  /\ pc[c] = "done"
  /\ Goto(c, "idle")
  /\ account' = [account EXCEPT ![c] = NoAccount]
  /\ user' = [user EXCEPT ![c] = NoUser]
  /\ UNCHANGED <<owner, namespaces, faults>>

\* What a caller does on its own, once it wants to log in.
MapToUser(c) ==
  \/ ListFindsUser(c) \/ ListFindsNobody(c) \/ PopulateUserData(c)
  \/ GetNamespace(c) \/ CreateNamespace(c) \/ NamespaceExists(c) \/ CreateUser(c)

Next == \E c \in Callers : Login(c) \/ MapToUser(c) \/ CallFails(c) \/ Retry(c) \/ Leave(c)

Spec == Init /\ [][Next]_vars

\* Calls return, and whoever was refused tries again.
FairSpec == Spec /\ \A c \in Callers : WF_vars(MapToUser(c)) /\ WF_vars(Retry(c))

-----------------------------------------------------------------------------

TypeOK ==
  /\ owner \in [UserIDs -> Accounts \cup {NoAccount}]
  /\ namespaces \subseteq Namespaces
  /\ pc \in [Callers -> {"idle", "done", "failed"} \cup Calling]
  /\ account \in [Callers -> Accounts \cup {NoAccount}]
  /\ user \in [Callers -> UserIDs \cup {NoUser}]
  /\ faults \in 0..MaxFaults

\* However often an account logs in and whatever fails, it ends up with at most
\* as many users as logins were ever under way at once (MapToUser's "it is
\* possible that we create two users simultaneously", and no more than that).
UsersDoNotAccumulate ==
  \A a \in Accounts : Cardinality(UsersOf(a)) <= Cardinality(Callers)

\* The account has a user, and nobody is about to create another.
Settled(a) ==
  /\ UsersOf(a) # {}
  /\ \A c \in Callers : account[c] = a => pc[c] \notin Creating

\* From the moment an account is settled it keeps the users it has, and every
\* login is mapped to the same one of them.
SettledForever ==
  [][\A a \in Accounts : Settled(a) =>
       /\ Settled(a)' /\ UsersOf(a)' = UsersOf(a)
       /\ \A c \in Callers : (pc[c] = "list" /\ pc'[c] = "done" /\ account[c] = a)
                                => user'[c] = Min(UsersOf(a))]_vars

\* Nobody is mapped to a user that belongs to another account, or whose object or
\* namespace does not exist (LoadUser reads it on every later request).
MappedToOwnUser ==
  \A c \in Callers :
    pc[c] = "done" => owner[user[c]] = account[c] /\ NamespaceFor[user[c]] \in namespaces

\* A login that is tried again and again succeeds, although a concurrent one may
\* have failed it (ensureNamespace: "Deal with concurrent creation?").
RetriesSucceed == \A c \in Callers : pc[c] = "failed" ~> pc[c] = "done"

-----------------------------------------------------------------------------
(* The inductive invariant of the proofs in UsersProofs.                      *)

\* The callers about to create a user for account a.
Creators(a) == {c \in Callers : account[c] = a /\ pc[c] \in Creating}

CallerInv(c) ==
  /\ pc[c] \in Calling \cup {"done", "failed"} => account[c] \in Accounts
  /\ pc[c] \in Creating => user[c] \in UserIDs /\ owner[user[c]] = NoAccount
  /\ pc[c] = "createUser" => NamespaceFor[user[c]] \in namespaces
  /\ pc[c] = "done" =>
       /\ user[c] \in UserIDs
       /\ owner[user[c]] = account[c] /\ NamespaceFor[user[c]] \in namespaces

\* A user's namespace is there before the user is.
UserInv(u) == owner[u] # NoAccount => NamespaceFor[u] \in namespaces

\* A user is created by one caller only.
DistinctInv ==
  \A c, d \in Callers :
    (c # d /\ pc[c] \in Creating /\ pc[d] \in Creating) => user[c] # user[d]

\* Users that are there and users that are on their way count alike.
CountInv(a) ==
  /\ IsFiniteSet(UsersOf(a))
  /\ Cardinality(UsersOf(a)) + Cardinality(Creators(a)) <= Cardinality(Callers)

IInv ==
  /\ TypeOK /\ DistinctInv
  /\ \A u \in UserIDs : UserInv(u)
  /\ \A c \in Callers : CallerInv(c)
  /\ \A a \in Accounts : CountInv(a)
=============================================================================
