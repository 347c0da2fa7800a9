----------------------------- MODULE KubeClient -----------------------------
(* components/kube/kubeclient: the client that kweb puts before the API server *)
(* for kinds described by protobuf messages.  A call is one HTTP request whose *)
(* path names the object; the status decides what the caller is told.  Bodies  *)
(* are written and read by kubejson, which has modules of its own; parsing a   *)
(* reply the API server really sent is taken to succeed.                       *)
EXTENDS Integers, Sequences, FiniteSets, TLC

\* What a caller is told: nothing wrong, apierrors.NewNotFound, or any other
\* error.
Ok == "ok"
NotFound == "notFound"
Failed == "failed"

\* The resource a kind is served under when its annotation names none: the
\* kind in lower case with an "s".
Pluralised == "AppInstallation" :> "appinstallations" @@ "User" :> "users"

\* GetKindInfo: read from the annotations of a message and of its file.  Kind
\* and resource have defaults; a file without group or version ends the
\* process, so every kind that is used has both.
KindInfo(message) ==
  LET kind == IF message.kind = "" THEN message.name ELSE message.kind
  IN [Group    |-> message.group,
      Version  |-> message.version,
      Kind     |-> kind,
      Resource |-> IF message.resource = "" THEN Pluralised[kind]
                                            ELSE message.resource]

\* The path of a collection: the path List reads and Create posts to.
CollectionPath(info, namespace) ==
  (IF info.Group = "" THEN <<"api">> ELSE <<"apis", info.Group>>)
  \o <<info.Version>>
  \o (IF namespace = "" THEN <<>> ELSE <<"namespaces", namespace>>)
  \o <<info.Resource>>

\* The path of an object: the path Get reads and Apply patches.
ObjectPath(info, namespace, name) ==
  Append(CollectionPath(info, namespace), name)

\* How a status is told to the caller; a request that got no answer has status
\* 0.
Told(accepted, status) ==
  CASE status \in accepted -> Ok
    [] status = 404        -> NotFound
    [] OTHER               -> Failed

\* The statuses each call takes for success.  An Apply is answered 200 when the
\* object existed and 201 when it was created by it.
ListAccepts == {200}
\* Mutant of ApplyAccepts: only a creation is a success.
ApplyAcceptsCreated == {201}
ApplyAccepts == {200, 201}

\* Before any request is sent a call that names an object checks that it has a
\* name.
ToldByApply(name, status) ==
  IF name = "" THEN Failed ELSE Told(ApplyAccepts, status)

ToldByList(status) == Told(ListAccepts, status)

-----------------------------------------------------------------------------
(* The API server, as far as kweb's requests go: the objects by path.          *)

Namespaced(path) == Len(path) > 4 /\ path[Len(path) - 3] = "namespaces"
NamespaceOf(path) == path[Len(path) - 2]

\* Server-side apply of one field.  The managers that own the field are kept;
\* a manager that applies a value other than that of another owner conflicts
\* with it, unless it forces its own.
Conflicts(objects, path, manager, value) ==
  /\ path \in DOMAIN objects
  /\ objects[path].owners \ {manager} # {}
  /\ objects[path].value # value

ApplyStatus(objects, namespaces, path, manager, value, force) ==
  IF ~Namespaced(path) THEN 404
  ELSE IF NamespaceOf(path) \notin namespaces THEN 404
  ELSE IF ~force /\ Conflicts(objects, path, manager, value) THEN 409
  ELSE IF path \in DOMAIN objects THEN 200
  ELSE 201

Applied(objects, path, manager, value) ==
  [p \in {path} \cup DOMAIN objects |->
     IF p # path THEN objects[p]
     ELSE [value  |-> value,
           owners |-> IF path \in DOMAIN objects /\ objects[path].value = value
                      THEN objects[path].owners \cup {manager}
                      ELSE {manager}]]
=============================================================================
