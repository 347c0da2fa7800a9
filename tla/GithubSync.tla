----------------------------- MODULE GithubSync -----------------------------
(* components/github, SyncInstallations: when a replica starts it copies the   *)
(* installations of the GitHub app, page by page, into objects of the API      *)
(* server.  It runs once per start, before the replica serves; GitHub changes  *)
(* meanwhile, other replicas do the same, and the first error ends it.         *)
EXTENDS KubeClient, Functions

CONSTANTS
  Replicas,
  Installations, \* Their ids; GitHub lists installations in this order.
  AccountOf,     \* Per installation: the id of the account that installed it.
  PerPage,       \* Installations per page of a listing.
  MaxStarts,     \* Bound: starts of replicas.
  MaxChanges,    \* Bound: installs, removals and renames at GitHub.
  MaxFaults      \* Bound: failed calls and crashes.

ASSUME InstallationsAssumption ==
  Installations \subseteq Nat \ {0} /\ IsFiniteSet(Installations)
ASSUME AccountsAssumption ==
  DOMAIN AccountOf = Installations /\ Range(AccountOf) \subseteq Nat \ {0}
ASSUME PerPageAssumption == PerPage \in Nat \ {0}

\* fmt.Sprintf("github-%d", ...) and strconv.FormatInt(...).
NamespaceFor(account) == "github-" \o ToString(account)
NameFor(installation) == ToString(installation)

\* Formatting tells numbers apart and makes no empty names.
ASSUME FormatAssumption ==
  /\ \A i, j \in Installations : NameFor(i) = NameFor(j) => i = j
  /\ \A i \in Installations : NameFor(i) # "" /\ NamespaceFor(AccountOf[i]) # ""

VARIABLES
  installed,   \* At GitHub: the installations there are.
  login,       \* At GitHub: per account, which of its names it has, a counter.
  namespaces,  \* At the API server: the namespaces there are.
  objects,     \* At the API server: objects by path.
  late,        \* Applies a dead process had sent that may still arrive.
  pc,          \* Per replica: where it is.
  page,        \* Per replica: opts.Page.
  todo,        \* Per replica: what is left of the page that was read.
  nextPage,    \* Per replica: response.NextPage.
  starts, changes, faults,
  \* History, for the properties only.  Per replica, about its latest sync:
  steady,      \* the installations there all along,
  began,       \* the logins when it began,
  shifted,     \* whether an installation went away meanwhile,
  alone,       \* whether no other sync could write meanwhile,
  excuse       \* whether something outside the process stood in its way.

syncVars == <<installed, login, namespaces, objects, late, pc, page, todo,
              nextPage, starts, changes, faults, steady, began, shifted, alone,
              excuse>>

github == <<installed, login>>
cluster == <<namespaces, objects, late>>
process == <<pc, page, todo, nextPage>>
history == <<steady, began, shifted, alone, excuse>>

Accounts == {AccountOf[i] : i \in Installations}

FieldManager == "kweb-github"
\* Another field manager, say an administrator's kubectl, and the login it sets.
OtherManager == "other"
OtherLogin == -1

AppInstallation ==
  KindInfo([name |-> "AppInstallation", kind |-> "AppInstallation",
            resource |-> "", group |-> "github.kweb.dev",
            version |-> "v1alpha1"])

PathOf(i) == ObjectPath(AppInstallation, NamespaceFor(AccountOf[i]), NameFor(i))

SyncInit ==
  /\ installed \in SUBSET Installations
  /\ login = [a \in Accounts |-> 0]
  /\ namespaces \in {{NamespaceFor(a) : a \in A} : A \in SUBSET Accounts}
  /\ objects = [path \in {} |-> {}]
  /\ late = {}
  /\ pc = [r \in Replicas |-> "down"]
  /\ page = [r \in Replicas |-> 1]
  /\ todo = [r \in Replicas |-> {}]
  /\ nextPage = [r \in Replicas |-> 0]
  /\ starts = 0 /\ changes = 0 /\ faults = 0
  /\ steady = [r \in Replicas |-> {}]
  /\ began = [r \in Replicas |-> login]
  /\ shifted = [r \in Replicas |-> FALSE]
  /\ alone = [r \in Replicas |-> TRUE]
  /\ excuse = [r \in Replicas |-> FALSE]

Syncing == {r \in Replicas : pc[r] \in {"list", "apply"}}

-----------------------------------------------------------------------------
(* A replica.                                                                  *)

\* server.New calls SyncInstallations before the server listens.
Start(r) ==
  /\ pc[r] = "down"
  /\ starts < MaxStarts
  /\ pc' = [pc EXCEPT ![r] = "list"]
  /\ page' = [page EXCEPT ![r] = 1]
  /\ todo' = [todo EXCEPT ![r] = {}]
  /\ nextPage' = [nextPage EXCEPT ![r] = 0]
  /\ starts' = starts + 1
  /\ steady' = [steady EXCEPT ![r] = installed]
  /\ began' = [began EXCEPT ![r] = login]
  /\ shifted' = [shifted EXCEPT ![r] = FALSE]
  /\ alone' = [q \in Replicas |->
                 IF q = r THEN Syncing = {} /\ late = {}
                 ELSE alone[q] /\ q \notin Syncing]
  /\ excuse' = [excuse EXCEPT ![r] = FALSE]
  /\ UNCHANGED <<github, cluster, changes, faults>>

\* Apps.ListInstallations: GitHub's answer for a page, and the number of the
\* page after it, 0 after the last.
Rank(i) == Cardinality({j \in installed : j < i})
PageOf(p) ==
  {i \in installed : (p - 1) * PerPage <= Rank(i) /\ Rank(i) < p * PerPage}
NextPageOf(p) == IF p * PerPage < Cardinality(installed) THEN p + 1 ELSE 0

\* The page is read: the installations with the login each account has now.
Read(p) == {[id |-> i, login |-> login[AccountOf[i]]] : i \in PageOf(p)}

\* Where the loop goes when the installations of a page are done with: on to
\* the next page, or out of it.
\* Mutants: the loop ends with the first page, and opts.Page is not set.
AfterFirstPage(next) == "done"
AfterPage(next) == IF next = 0 THEN "done" ELSE "list"
PageNotAdvanced(p, next) == p
PageAfter(p, next) == IF next = 0 THEN p ELSE next

ListPage(r) ==
  /\ pc[r] = "list"
  /\ todo' = [todo EXCEPT ![r] = Read(page[r])]
  /\ nextPage' = [nextPage EXCEPT ![r] = NextPageOf(page[r])]
  /\ IF Read(page[r]) = {}
     THEN /\ pc' = [pc EXCEPT ![r] = AfterPage(NextPageOf(page[r]))]
          /\ page' = [page EXCEPT ![r] = PageAfter(@, NextPageOf(page[r]))]
     ELSE /\ pc' = [pc EXCEPT ![r] = "apply"]
          /\ UNCHANGED page
  /\ UNCHANGED <<github, cluster, starts, changes, faults, history>>

\* appClient or ListInstallations fails: SyncInstallations returns the error,
\* which server.New only logs.
ListFails(r) ==
  /\ pc[r] = "list"
  /\ faults < MaxFaults
  /\ faults' = faults + 1
  /\ pc' = [pc EXCEPT ![r] = "failed"]
  /\ excuse' = [excuse EXCEPT ![r] = TRUE]
  /\ UNCHANGED <<github, cluster, page, todo, nextPage, starts, changes,
                 steady, began, shifted, alone>>

\* The installations of a page are dealt with in the order they were listed.
Foremost(items) == {x \in items : \A y \in items : x.id <= y.id}

\* What follows in the loop once the Apply of an item has been told its outcome:
\* the first error ends the synchronisation.
AfterApply(r, item, told) ==
  IF told # Ok
  THEN pc' = [pc EXCEPT ![r] = "failed"] /\ UNCHANGED <<page, todo>>
  ELSE /\ todo' = [todo EXCEPT ![r] = @ \ {item}]
       /\ IF todo[r] # {item}
          THEN UNCHANGED <<pc, page>>
          ELSE /\ pc' = [pc EXCEPT ![r] = AfterPage(nextPage[r])]
               /\ page' = [page EXCEPT ![r] = PageAfter(@, nextPage[r])]

\* ApplyOptions.Force is not set.
ForceConflicts == FALSE

StatusFor(item) ==
  ApplyStatus(objects, namespaces, PathOf(item.id), FieldManager, item.login,
              ForceConflicts)

Arrived(item) ==
  IF StatusFor(item) \in {200, 201}
  THEN Applied(objects, PathOf(item.id), FieldManager, item.login)
  ELSE objects

ApplyNext(r) ==
  /\ pc[r] = "apply"
  /\ \E item \in Foremost(todo[r]) :
       /\ objects' = Arrived(item)
       /\ AfterApply(r, item, ToldByApply(NameFor(item.id), StatusFor(item)))
       /\ excuse' = [excuse EXCEPT ![r] =
            @ \/ NamespaceFor(AccountOf[item.id]) \notin namespaces
              \/ Conflicts(objects, PathOf(item.id), FieldManager, item.login)]
  /\ UNCHANGED <<github, namespaces, late, nextPage, starts, changes, faults,
                 steady, began, shifted, alone>>

\* The request, or the answer to it, is lost.
ApplyLost(r) ==
  /\ pc[r] = "apply"
  /\ faults < MaxFaults
  /\ faults' = faults + 1
  /\ \E item \in Foremost(todo[r]) :
       /\ objects' \in {objects, Arrived(item)}
       /\ AfterApply(r, item, ToldByApply(NameFor(item.id), 0))
  /\ excuse' = [excuse EXCEPT ![r] = TRUE]
  /\ UNCHANGED <<github, namespaces, late, nextPage, starts, changes, steady,
                 began, shifted, alone>>

\* The replica stops or is killed.  A request it had sent may still arrive.
Stop(r) ==
  /\ pc[r] # "down"
  /\ pc' = [pc EXCEPT ![r] = "down"]
  /\ IF r \in Syncing
     THEN faults < MaxFaults /\ faults' = faults + 1
     ELSE UNCHANGED faults
  /\ late' \in {late} \cup
       (IF pc[r] = "apply" THEN {late \cup {x} : x \in Foremost(todo[r])} ELSE {})
  /\ UNCHANGED <<github, namespaces, objects, page, todo, nextPage, starts,
                 changes, history>>

-----------------------------------------------------------------------------
(* The rest of the world.                                                      *)

LateApply ==
  \E item \in late :
    /\ late' = late \ {item}
    /\ objects' \in {objects, Arrived(item)}
    /\ UNCHANGED <<github, namespaces, process, starts, changes, faults,
                   history>>

\* An app is installed and uninstalled, and an account takes another name.
Install(i) ==
  /\ i \notin installed
  /\ changes < MaxChanges
  /\ changes' = changes + 1
  /\ installed' = installed \cup {i}
  /\ UNCHANGED <<login, cluster, process, starts, faults, history>>

Uninstall(i) ==
  /\ i \in installed
  /\ changes < MaxChanges
  /\ changes' = changes + 1
  /\ installed' = installed \ {i}
  /\ steady' = [r \in Replicas |-> IF r \in Syncing THEN steady[r] \ {i}
                                                    ELSE steady[r]]
  /\ shifted' = [r \in Replicas |-> shifted[r] \/ r \in Syncing]
  /\ UNCHANGED <<login, cluster, process, starts, faults, began, alone, excuse>>

Rename(a) ==
  /\ changes < MaxChanges
  /\ changes' = changes + 1
  /\ login' = [login EXCEPT ![a] = @ + 1]
  /\ UNCHANGED <<installed, cluster, process, starts, faults, history>>

\* Nothing in the program makes the namespaces of the accounts.
MakeNamespace(a) ==
  /\ NamespaceFor(a) \notin namespaces
  /\ namespaces' = namespaces \cup {NamespaceFor(a)}
  /\ UNCHANGED <<github, objects, late, process, starts, changes, faults,
                 history>>

\* Somebody else sets the login of an object, taking the field over.
SetByHand(i) ==
  /\ PathOf(i) \in DOMAIN objects
  /\ changes < MaxChanges
  /\ changes' = changes + 1
  /\ objects' = Applied(objects, PathOf(i), OtherManager, OtherLogin)
  /\ UNCHANGED <<github, namespaces, late, process, starts, faults, history>>

ReplicaStep(r) == ListPage(r) \/ ApplyNext(r)

SyncNext ==
  \/ \E r \in Replicas : \/ Start(r) \/ ReplicaStep(r) \/ ListFails(r)
                         \/ ApplyLost(r) \/ Stop(r)
  \/ LateApply
  \/ \E i \in Installations : Install(i) \/ Uninstall(i) \/ SetByHand(i)
  \/ \E a \in Accounts : Rename(a) \/ MakeNamespace(a)

\* A process that runs gets on: its loop is sequential code, and every call it
\* makes is answered or fails.
SyncFairness == \A r \in Replicas : WF_syncVars(ReplicaStep(r))

-----------------------------------------------------------------------------

\* A synchronisation that ended without error has brought over every
\* installation that was there all along, with a login at least as new as when
\* it began -- whatever failed before, whatever was installed meanwhile and
\* however the pages fell -- unless an installation went away meanwhile, which
\* moves the later ones into pages already read.  Only the login may be older,
\* and only if another synchronisation overlapped or an administrator owns it.
SyncCovers ==
  \A r \in Replicas :
    pc[r] = "done" /\ ~shifted[r] =>
      \A i \in steady[r] :
        /\ PathOf(i) \in DOMAIN objects
        /\ \/ OtherManager \in objects[PathOf(i)].owners
           \/ alone[r] => objects[PathOf(i)].value >= began[r][AccountOf[i]]

\* A synchronisation fails only for a cause outside the process: a call that
\* failed, an account without a namespace, a field another manager has taken.
\* In particular objects left by earlier, even half-done, synchronisations are
\* never in the way of the next.
FailsOnlyForCause ==
  \A r \in Replicas : pc[r] = "failed" => excuse[r]

\* Every synchronisation ends, so that the replica gets to serve: the pages
\* run out, though installations come and go while they are read.
SyncEnds ==
  \A r \in Replicas : r \in Syncing ~> r \notin Syncing

-----------------------------------------------------------------------------
(* Why the two invariants hold: what is proved in GithubProofs.                *)

\* The synchronisation by itself; MCGithub runs it beside the other parts.
SyncSpec == SyncInit /\ [][SyncNext]_syncVars

Items == [id : Installations, login : Nat]

SyncTypes ==
  /\ installed \subseteq Installations
  /\ login \in [Accounts -> Nat]
  /\ late \subseteq Items
  /\ pc \in [Replicas -> {"down", "list", "apply", "done", "failed"}]
  /\ page \in [Replicas -> Nat \ {0}] /\ nextPage \in [Replicas -> Nat]
  /\ todo \in [Replicas -> SUBSET Items]
  /\ steady \in [Replicas -> SUBSET Installations]
  /\ began \in [Replicas -> [Accounts -> Nat]]
  /\ {shifted, alone, excuse} \subseteq [Replicas -> BOOLEAN]

\* A replica is synchronising, or has done so to the end.
Reached(r) == pc[r] \in {"list", "apply", "done"}

\* What a replica began with is no newer than this item.
NewEnough(r, x) == began[r][AccountOf[x.id]] <= x.login

\* While nobody else has synchronised since before a replica began, nothing that
\* may still be applied, by anybody, is older than that.
NothingOlder(r) ==
  Reached(r) =>
    /\ \A a \in Accounts : began[r][a] <= login[a]
    /\ alone[r] =>
         /\ \A x \in late : NewEnough(r, x)
         /\ \A q \in Replicas :
              pc[q] = "apply" => \A x \in todo[q] : NewEnough(r, x)

\* The installation has been brought over, as SyncCovers asks.
Brought(r, i) ==
  /\ PathOf(i) \in DOMAIN objects
  /\ \/ OtherManager \in objects[PathOf(i)].owners
     \/ alone[r] => objects[PathOf(i)].value >= began[r][AccountOf[i]]

\* Every installation that was there all along has been brought over, or is on
\* the page being dealt with, or on one that is still to be read: others only
\* move it to later pages.
Covering(r) ==
  ~shifted[r] =>
    \A i \in steady[r] :
      /\ r \in Syncing => i \in installed
      /\ pc[r] = "list" => Brought(r, i) \/ Rank(i) >= (page[r] - 1) * PerPage
      /\ pc[r] = "apply" =>
           \/ Brought(r, i)
           \/ \E x \in todo[r] : x.id = i
           \/ nextPage[r] = page[r] + 1 /\ Rank(i) >= page[r] * PerPage
      /\ pc[r] = "done" => Brought(r, i)

SyncInv ==
  /\ SyncTypes
  /\ \A r \in Replicas : NothingOlder(r) /\ Covering(r)
  /\ FailsOnlyForCause
=============================================================================
