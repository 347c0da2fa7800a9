# kweb in TLA+

kweb (`src/`) is a Go framework for small web applications that keep their
state in Kubernetes objects, with an SSO server, a dashboard and a blob store
built on it. This directory holds TLA+ modules for the parts of it that keep
state or decide something, the TLC configurations that check them on small
instances, and theorems about them that TLAPS proves for instances of any size.

`PROJECT.json` is the index: components, runs, which lines each definition
models (`map`), the hazards, a faulty variant of the code for every property
(`mutants`) and the theorems. This file explains them.

## 1. The system

A kweb server is one Go process, usually one of several replicas. It serves
HTTP; every request runs through a chain of filters and then a handler. State
that outlives a request is in the API server of a Kubernetes cluster, in the
browser's cookies, or in the memory of the process.

    browser --cookies--> [cookies] [sessions] [users] [oidclogin] [jwtissuer] --> handler
                             |         |          |        |           |
                             |     session     User     keys of      active key
                             |     objects    objects   the issuer   of a keyset
                             +------------- Kubernetes API server ---------+
                                               secret of keysets <-- keystore (watch)
    client --gRPC streams--> blobstore server --> directory | GCS | S3

### Components

| component | state it keeps | operations | what makes it correct |
|---|---|---|---|
| keystore (`components/keystore`) | a secret with keysets; per process a cache of it | KeySet (find or create a key), WatchForever, Encrypt/Sign | ids are never reused, no stored key is lost, caches are versions of the secret, what one server signs others can verify |
| sessions (`components/sessions`, two storages) | session objects; the session cookie; a snapshot per request | filter around the handler: look up, edit, store | a browser gets only ids of stored sessions, never another browser's; alone, it reads what it wrote |
| login (`components/login`) | one-time state in the session | start, callback, logout | an identity only for who came back from a login started here; a login completes once |
| sso (`apps/sso`) | the token cookie | read the token, replace or clear it | session and token name the same user; sign-in and sign-out take effect |
| token signing and discovery (`apps/sso`) | per process a keyset held for life, a verifier built on first use, the keys it fetched | sign a token; serve the discovery document and the keys; verify | rotations sign nobody out for good; a deleted secret revokes; nobody waits for ever |
| users (`components/users`) | User objects, namespaces | MapToUser, SetUser, UserFromToken | an account has few users and settles on one of them |
| blobstore (`services/blobstore`) | files or objects named by SHA-256; scratch files | Upload, Download | a name stands for a whole blob or for nothing; downloads are exact; nothing is left behind |
| pages, templates (`components/pages`, `templates`) | handlers built at startup; a scope per request | match a path, render | a page answers its own address; rendering means what its nodes mean and restores the scope |
| kubejson (`components/kube/kubejson`) | none | Marshal, Unmarshal, UnmarshalKubeList | what is written is read back; what is read is JSON |
| kubeclient (`components/kube/kubeclient`) | none | Get, List, Create, Apply over HTTP | errors are told apart from absence |
| github (`components/github`) | AppInstallation objects; two token caches per client | SyncInstallations, GetClient | installations reach the cluster; tokens are fresh and few |
| oauthsessions | OauthSession objects | StoreSession, GetOauthSession, RefreshSession | a live session is found; refreshes do not undo each other |
| server (`server`, `main.go`) | components, the mux and its mutex, listeners | New, AddComponent, ListenAndServe, shutdown | everything registered is served; everything started is stopped |
| dashboard, healthcheck, debug | none | read-only handlers | - |

### How they interact

* Request handling is synchronous and one goroutine per request; concurrency
  comes from several requests, several browsers and several replicas. Nothing
  in a request holds a lock across a call to the API server, so every such
  call is a point where others may run, the call may fail, or its answer may
  be lost after it took effect.
* The filters nest: cookies inside the HTTP handler, sessions inside cookies,
  users, oidclogin and jwtissuer inside sessions. A filter's work after the
  handler runs in the reverse order, and an error returned by an inner filter
  discards what the outer ones collected.
* The keystore's cache is changed by three goroutines: the caller of KeySet
  that just wrote, the list of a watch that starts, and the events of the watch.
* The blob store's parties share only the directory (or the bucket).
* Replicas of the SSO server share the keyset's secret, and the address of the
  issuer: a replica that verifies a token asks that address for documents, and
  may be answered by another replica or by itself.
* The GitHub component talks to GitHub and to the API server once at start, and
  to GitHub on behalf of requests; the goroutines of a request share a client.
* The components of an app share one mux, which the first `ListenAndServe` builds.

### What is hard

The list is `hazards` in `PROJECT.json`, each at the line where it bites with
the properties that would notice. The themes: read-edit-write over the API
server by several replicas (keystore, sessions, users); caches and snapshots
that are stale when used (keystore cache, session snapshot, token against
session); replies lost after they took effect (every create); one step of
several failing (session stored after the handler ran, upload after its file
was made); crashes between two steps (keystore, blob store, memory sessions, synchronisation);
protocols over several requests (login, callback, logout, redirect); listings
read in pages while they change; clocks that differ (GitHub's JWT and tokens);
a mutex held across a fetch from one's own address; a shutdown that races
listening and serving; grammars and trees where a unit test covers a handful of inputs (expressions, texts,
templates, JSON).

## 2. Modules

| module | models | composed with |
|---|---|---|
| `KeySets` | a keyset, what a secret holds, decoding and `ensureKeySet`'s edit | used by `KeyStore`, `KeyRegistry` |
| `KeyStore` | `kubernetes.go`: callers, cache, watch, crash, administrators | `INSTANCE KeyRegistry` |
| `KeyRegistry` | what the keystore promises: one atomic registry of keysets | |
| `Sessions` | sessions filter, cookies, both storages, requests in flight | extended by `SSO`, `MCSessions` |
| `SSO` | the whole chain of the SSO server over sessions in Kubernetes | `EXTENDS Sessions` |
| `Users` | MapToUser and ensureNamespace under concurrent logins | |
| `BlobStore` | uploads, downloads, files and objects | `INSTANCE BlobRegistry` |
| `BlobRegistry` | what the blob store promises: a hash names one content, forever | |
| `Pages` | which page answers a request | `MCPages` |
| `FieldPath`, `Mustache` | conditions and texts: lexing, parsing, evaluating | used by `Templates` |
| `Templates` | rendering: scopes, `*ngIf`, `*ngFor`, texts | `MCPages` |
| `KubeMessages` | messages: what is populated, fields by their two names | used by the next three |
| `JsonReader` | the decoder's Read and Peek, one lexeme at a time | used by `KubeJson` |
| `JsonNumbers` | where a number ends, and the integer it is | used by `KubeJson` |
| `KubeJson` | `Unmarshal` and `UnmarshalKubeList` | `MCKubeJson` |
| `KubeJsonWriter` | `Marshal` on a single line, and the encoder's commas | `MCKubeJson` |
| `TokenTrust` | signing, the documents served, verification, over replicas that come and go | `INSTANCE KeyRegistry` |
| `KubeClient` | kinds, paths, statuses; the API server's side of Apply | used by the next two |
| `GithubSync` | SyncInstallations by several replicas | `MCGithub` |
| `AppTokens` | GetClient and the tokens of an installation | `MCGithub` |
| `OauthSessions` | the tokens users bring, stored and refreshed | `MCGithub` |
| `ServerLife` | New, the apps' components, the mux, ListenAndServe, shutdown | `MCServer` |
| `KeyStoreProofs`, `UsersProofs`, `BlobStoreProofs`, `ServerLifeProofs`, `TokenTrustProofs`, `GithubProofs`, `SSOProofs`, `ReadingProofs` | theorems | `GithubProofs` extends the three GitHub modules; `SSOProofs` has the theorems of `Sessions` too, and the step from one to the other; `ReadingProofs` those of `Pages` and `KubeJson` |
| `MC*` | the small instances; `MCPages` and `MCKubeJson` also grow the inputs and state the reference meanings, and `MCGithub` and `MCReading` run one of several parts that share nothing | |

### KeyStore

`log` is the secret at each resource version, written only by the API server
(external): a conditional write appends to it if the writer read the last
version. `cache`, `watch`, `pc`, `call`, `txn` and `held` are `keySets` with
`resourceVersion`, the position of `WatchForever`, the point a `KeySet` call
has reached, its arguments, the private copy of `mutateSecret`, and what the
call returned. `KeySetHit/Miss` is the first look into the cache,
`GetAndMutate` the read and the edit, `WriteSecret`, `WriteReplyLost` and
`WriteFails` the outcomes of Create or Update, `ApplyWrite` is
`onUpdateSecret` of one's own write and `RereadFound/Missing` the second look.
`ListSecret`, `ApplyList`, `WatchEvent`, `WatchBreaks`, `WatchRetries` are the
watch. `Restart` is a crash. `RetireActive`, `StoreUnknown` and `DeleteSecret`
are what administrators (or a newer program) may do to the secret.

Key material is a number that is never drawn twice. Not modelled: an int32 key
id that overflows, a resource version that does not parse as a number, an
administrator who takes single keys out of a keyset; and requests in flight at
a crash are accepted or refused before it. `WatchForever` is not called by any
program in `src/`, so the runs have a server with a watch and one without.

### Sessions and SSO

`store` holds session objects with their resource version, `jar` each browser's
session cookie. A request takes a snapshot at its lookup (`sess`, `base`,
`clean`), edits it, and stores it by a Create or by a second read and an Update
(`ReadForUpdate`, `UpdateSession`) that is refused if the object changed in
between; the memory storage has no versions. Cookies reach the browser with the
answer (`Deliver`), never when it is lost. `known` is history: the value a
browser that waits for its answers must find next.

`HandlerReturns` is all of the inner filters and the handler, with any value left in
the session and any use of `Set` and `Clear` on the way; `Returns` is what the
filter then does with a value. Nobody else sees the session before, so this is one
step.

`backend` is the storage, chosen by `SessionsInit`. `SSO` extends `Sessions`, starts with
the Kubernetes storage and has three steps in the place of `HandlerReturns` and
`HandlerFails`: `ServeHandler`, a request's filters and handler in their order;
`ServeRedirect`, where jwtissuer follows a redirect kept in the session instead of
calling the handler; and `Refuses`, with every failure of a verification, of the provider and of
`UserFromToken`. Everything a request does between its lookup and the write of
the session is private to it, so each is one step. `token` and `flows` are
what the browser holds besides the session, `job` what a request is for and
what came of it; `granted` and `spent` are history that the properties read.

Clocks are replaced by cookies that may expire at any time. A response that a
handler returns along with its error is dropped by the sessions and cookies
filters (`components/sessions/component.go:72`), although
`components/serve.go:105` has a branch for it; the model drops it too, so an
error is an answer without cookies. The encoding of the
session is left out. The memory storage exists in `src/` but `server.go` wires
the Kubernetes one.

### Users

A call of `MapToUser` is the list of all users, the creation of a user with a
random name (its order in the next list is therefore arbitrary), and before it
`ensureNamespace`. `CallFails` is any call that fails, before or after it took
effect. Whoever gets an error may log in again (`Retry`) or give up (`Leave`).
The API server lists objects by name. Users are never deleted by the program.

### BlobStore

An upload sends chunks; the server appends them to a scratch file, compares the
hash, and hands the file to the store: a temporary file beside the blobs that
is renamed (`CreateFile`, `Copy`, `Rename`), or one call that publishes a whole
object (`PutObject`). `names` maps hashes to the upload whose file stands there;
a download holds the file it opened, whatever the name stands for later. A
crash loses the calls but no file; damage takes content from a stored one.

Not modelled: loss of power before data reaches the disk, `BlobFile.Close` by
the caller of a download, the scratch file's descriptor that is never closed,
the `Length` of a reply that is never set, and a `file://` URL used as a path.

### Pages, FieldPath, Mustache, Templates

Functions, all but the set `site` of the pages a directory holds, which grows. `Pages`
says how a file becomes a pattern and a handler (`Tokens`, `Pattern`, `Match`), which
file is read before which, as `fs.ReadDir` sorts entries (`ReadBefore`), and so which
handlers may answer a request: the first to match among those of the pattern that
Go's `ServeMux` (1.21: longest pattern wins; external) chooses. The loops of
`addHandlersFromDir` and `patternMux` are these two definitions, since what they
build is a list in reading order. `Files` and `Requests` are constants, of which
the theorem assumes no more than their types. Two pages `Compete` if a path is an
address of both (`Collide`), or if the mux takes an address of one for the subtree
of the other (`Shadows`); pages of different lengths may share a pattern. The
dashboard's pages do not compete (`DashboardAssumption` in `MCPages`), and are one
of the sites of the run. `FieldPath` is the lexer,
parser and evaluator of conditions, over runes of a small alphabet; `Mustache`
finds `{{`, `}}` pairs in a text; `Templates` renders trees of elements with
conditions, loops and texts. The trees stand for parsed HTML.

Left out: HTML's own syntax, void elements, comments and doctypes, attributes
other than `*ngIf` and `*ngFor`, escaping, and reflection on Go structs and
methods (values are the lists and messages the handlers put into scopes).

### KubeJson

A text is a sequence of lexemes: symbols, names and strings, numbers. `dec` is
the decoder: the text (`orig`), what is left of it, `lastCall`, `lastToken`, `lastErr` and
the stack of open brackets. `frames` is the stack of the Go calls that are under
way, the innermost last: `unmarshalMessage` ("message", then "fields"),
`unmarshalScalar`, `unmarshalList`, `skipJSONValue`, `unmarshalKubeListObject`
and its items. Each action is what the innermost call does with the next token
or member; a token it has no use for is `Reject`, which ends every call with an
error. A message is the set of pairs of a path and the value there, so that two
messages are equal exactly if the same is populated in them; `items` are the
messages that the callback of `UnmarshalKubeList` got. An int64 in quotes is read
through a second decoder over the text in the string, whose first token counts
and nothing behind it, as in the code. (`KubeMessages.FieldOf` picks one field
of a name; there is one.)

`KubeJsonWriter` writes `source` to `out`; `calls` is its stack, and
`WriteField` takes any of the fields that are left, since protobuf's `Range` has no
order. `lastKind` decides the next comma. `MCKubeJson` lets a case be written or
flattened to lexemes, edited by an insertion, removal or replacement of a
lexeme, and read; a numeral grows rune by rune beside that.

`Spec` is `Unmarshal` or `UnmarshalKubeList` of any text, a sequence over `Lexemes`, into
any type. `IsJson` is the grammar of JSON over lexemes, as a function on the parts of
a text, and knows nothing of the decoder.

Seen while modelling: `skipJSONValue` on a text that ends inside of a skipped array,
behind an object whose last member has no value, gets EOF from every Peek without an
error and does not come to an end; no claim is made of texts that are not read to
their end.

Left out: booleans, the other integer widths, floats, bytes and enums, maps,
oneofs, extensions and required fields, escapes and invalid UTF-8 in strings,
white space and the position in errors, indented output. The digits and exponents
are scaled (5-bit integers of 2 digits), and an exponent that does not fit 32
bits does not occur. What a reader does on a text that is not JSON is claimed
only where it ends without an error. A numeral may have an `e` with no digit after
it when any text follows (`decode_number.go:63`); `NumbersAreRead` lets such
texts be, since they are no numbers of RFC 7159.

### TokenTrust

`reg` is the secret, at the level `KeyRegistry` specifies and `KeyStore` is shown
to implement: the module uses the registry's own steps to get, rotate and
delete keys. A replica that starts holds the keyset it got for life (`held`); it
signs with the active key (`Sign`), and answers for its keys (`JWKS`). A request
with a token takes the authenticator's mutex (`GetVerifier`), fetches the
discovery document with the mutex held (`Discover`, `DiscoverFails`), and
verifies with cached or fetched keys (`VerifyCached`, `FetchKeys`, `FetchFails`);
any replica that is up may answer a fetch, the one that asks included. `verdict`
is what the last step answered, `met` which incarnations of the secret a
replica can have seen keys of. Claims and expiry are left out; `SSO` has them.

### KubeClient, GithubSync, AppTokens, OauthSessions

`KubeClient` has paths and statuses: what a caller is told for what the API server
answers, and the server's side of a server-side apply, which keeps the owners of
a field and refuses (409) to take one over.

`GithubSync` is `SyncInstallations` (`ListPage`, `ApplyNext`) by replicas that start
and stop, with GitHub's listing cut into pages at the moment each page is read,
installations that come, go and change their account's name, lost requests and
answers, requests of a dead process that arrive late, namespaces that do not
exist, and an administrator who takes a field over. The history variables say
when a synchronisation began and what disturbed it.

`AppTokens` has a clock, and GitHub's clock at a fixed distance from it. `reused` is
the token in oauth2's `ReuseTokenSource`, `token` the one in `userTokenSource`,
`holder` the mutex; `OwnToken` asks GitHub with a JWT (`Claims`) that
`Acceptable` judges. `TokenFails` may lose the reply of a creation: GitHub then has a
token that nobody holds, which `created`, the history of the latest two, records.
The order of installations' names, by which the API server lists them, is left open:
`GetClient` takes any (`ClientsFor`). `OauthSessions` is the component's three operations under
callers that store, look for and refresh sessions, with conflicts detected by
the API server; nothing in `src/` calls it yet.

Seen while modelling, and kept in the models:

* The objects go to namespaces `github-<account>`, which nothing in the program
  creates, and `GetClient` looks in the user's namespace, which is never one of
  those: it finds something only where somebody else puts objects
  (`components/github/installations.go:47`, `request.go:43`).
* One installation whose field another manager owns stops every later one from
  being synchronised, at every start (`installations.go:57`).
* Dating the JWT back by a minute buys nothing: its expiry is already the
  furthest GitHub allows, so a process whose clock is ahead is refused anyway
  (`appauth.go:142`).
* `userTokenSource` wants a minute left of a token, but oauth2's cache in front
  of it decides with its own ten seconds, so a token is never renewed earlier
  (`appauth.go:32`). `GithubProofs!NothingKept` is that fact.
* A session without expiry ranks as the oldest of all
  (`components/oauthsessions/component.go:66`).

### ServerLife

`phase` is where the process is: built from its environment (`New`, `NewFails`),
given the app's components (`AddComponents`), running, exited. `mux` maps each
pattern to the filters in front of its handler; `building` is `ensureMux`'s own
mux while a call registers one component after the other under `Server.mutex`.
`pc` and `goroutine` are the two goroutines of each call of `ListenAndServe`:
the one that listens, announces its address and serves, and the one that waits
for the context to shut the server down. `http.Server` and the listener are
external. Left out: reading key files, flags, the return values of a call.
Patterns of pages are taken to differ from the other routes; `http.ServeMux`
would panic otherwise.

Seen while modelling: `-listen` has no effect, since `main.go:30` copies the
options before `main.go:35` binds the flag; `ServeTLS` without a certificate
leaves the listener open; the send of the address does not select on the
context, so it waits for its receiver; `ListenAndServe` returns as soon as the
shutdown begins (`server.go:189`), and an app that then ends cuts off the
requests it was to wait for.

## 3. Properties, by what they protect against

**KeyStore** - `KeyAgreement`: two caches of one incarnation of the secret never
have different keys under one id, the consequence of racing creations and of
the id rule `highest + 1`. `LaterHoldersVerify`: what the active key of a
keyset in someone's hands signs, every keyset handed out at the same or a later
version verifies. `BehindOnlyOnMissedDelete`: the one thing a watch can miss is
a deletion. `MissingOnlyIfTakenAway`: "created key was not found" is never the
server's own doing. `NeverHandedOlder` (action property): a caller that asks
again gets no older keyset. `RegistrySpec`: refinement of `KeyRegistry`, which
says that keys survive. `WatchConverges`: liveness. `CacheIsVersion` and
`KeysSurvive` are proved and in no run.

**Sessions**, over either storage - `OnlyStoredSessions`: no browser is given an
id before its session is stored. `OneBrowserPerSession`: no two browsers are in
one session, by cookie, request or response, not even in memory, where a restart
empties the storage. `ReadsOwnWrites` (action property): a browser that waits
for its answers finds what its last request left.

**SSO** - `IdentityEarned`: a session or token names only a user who came back
from a login this browser started, unless a logout overlapped.
`IdentitiesAgree`: an undisturbed answer leaves session and token with one
user. `SignInAndOutTakeEffect`, `CompletedOnce`.

**Users** - `UsersDoNotAccumulate` (at most one user per login that can be
under way at once), `SettledForever`, `RetriesSucceed` (liveness).
`MappedToOwnUser` is proved and in no run.

**BlobStore** - `OnlyWholeBlobs`: a file takes a blob's name only when its copy is
complete (`PublishedWhole`), and no download finds another hash than it asked for
unless the file was damaged (`MismatchOnlyIfDamaged`), although other uploads take
the name over meanwhile. `NothingLeftBehind`. `BlobRegistrySpec` (refinement): no
blob is lost, downloads are exact.

**TokenTrust** - `RefusedForCause`: a signed token is turned down only if keys
could not be fetched, came from a replica that holds keys older than the
token's, or from another incarnation of the secret. `Revoked`: after the secret
was deleted, a replica that met nobody with the old keys believes no old token,
though key ids start again at 1. `EveryRequestAnswered` (liveness): the mutex
held while fetching from one's own address blocks nobody for ever.

**GitHub** - `SyncCovers`: a synchronisation that ended well brought over
everything that was there all along, up to date, whatever failed before; with
the one exception of pages that shifted because an installation went away.
`FailsOnlyForCause`: what earlier synchronisations left is never in the way.
`SyncEnds` (liveness): the pages run out. `CreationsSpaced`: a token is created only
when the one before is about to end, whichever goroutine asks, or if the reply with
that one was lost. `RefusedOnlyIfSkewed`: which clocks make GitHub refuse the app's
JWT. `TokensAccepted`, that no token is used late, is proved and in no run.

**oauthsessions** - `LiveSessionPreferred`: an expired session is handed out only to
a user all of whose sessions have expired or have no end, and one without end only
to a user who has no other. That the latter rank last is what the code does, and
stated, not excluded. `RefreshNeverFallsBack`.

**Server** - `ServesEverything`: every listener serves every component behind
every filter, whoever registered them and whatever failed before.
`CutOffOnlyLate`: a shutdown lets requests finish, unless the process ends; a caller
that exits when `ListenAndServe` returns does cut them off. `EndsCompletely` (liveness):
a call that is cancelled or fails leaves no goroutine, no open address, no
waiting receiver.

**Pages and templates** - `PagesAnswerTheirPaths`: on a site whose pages do not compete
each page is served at all its addresses (`EveryPageIsServed`), and on any site no page
answers another address but for two that the empty token gives away: the root page
takes paths of one token, and a placeholder page of the topmost directory takes `/`
(`NothingElseIsServed`). `GrammarsAreRead`: what is accepted as a condition or a text
is exactly what a declarative grammar generates, and the tree has the negations, the
operator and the words that were written. `RenderedAsMeant`: rendering agrees with a meaning defined on the
tree by substitution, and leaves the scope as it was, but for loop variables
bound to nil.

**kubejson** - `OnlyJsonIsRead`: what is read without an error is derived by a
declarative grammar of JSON, although the decoder alone lets some other texts
pass; the exception are texts with an object that ends behind a member's colon
(`NamesHaveValues`), which may get through `skipJSONValue`. `ReadsOnlyJson`, without
that exception, is what the code's comment expects and does not hold (section 6).
`MeansTheTree`: a JSON text is read as what its tree means, and refused
exactly if it means nothing in the message type. `ReadBack`: what is
marshalled, in any order of fields, is read as the same message.
`NumbersAreRead`: the integer of a token is that of the number by RFC 7159,
or there is none.

For every property `PROJECT.json` has a mutant: a definition of the model
replaced by a plausible faulty form, kept in the module beside the right one
(for example `ObserveAnyOrder`: a cache that takes older versions,
`StoreFailsLeavingFile`: a failed upload that leaves its temporary file). The property
must fail with it.

## 4. Runs

| run | instance | question |
|---|---|---|
| `keystore_race` | 2 servers (1 with a watch), 1 caller in each, 1 keyset, 4 versions, 3 keys, 1 crash; fair | do racing creations, rotations and deletions keep caches and keys consistent, does the protocol implement the registry, does a watch catch up? |
| `keystore_encrypt` | 1 held secretbox key (violation) | does Encrypt report the truth about key types? |
| `sessions` | 2 browsers, 2 requests of one and 1 of the other, 2 ids, 2 values; memory: 2 writes; Kubernetes: 3 writes, at most two requests at a time, of one browser or of both | conflicts, lost replies, deleted session objects, restarts and ids in memory |
| `sso_login` | 1 browser with 2 requests, 2 users, 1 nonce, redirects, 1 logout, 3 writes | identities through logins, callbacks and logouts |
| `sso_switch` | 1 request at a time, 2 users (violation) | does signing in always set the token? |
| `trust` | 2 replicas, 2 requests, 2 keys, 1 token, 3 starts; fair | who is believed through rotations, deletions and restarts; does the mutex ever block? |
| `users_logins` | 2 callers, 2 accounts, 5 user ids, 2 faults; fair | first logins that race and fail |
| `blobs` | 2 uploads (1 by a client that may lie about the hash), 2 downloads, 3 contents of which one is a prefix of another, 1 crash, 1 damaged file | publication, exactness, cleaning up |
| `github` | synchronisation: 2 replicas, 3 installations of 2 accounts, 1 a page, 2 starts, 1 change, 1 fault; tokens: 2 goroutines, GitHub's clock -1, 0, 1 or 3 ahead, lives and margins 4/3/1/2/1, clock to 8; sessions: 2 callers, 2 users, 2 names, 3 tokens of 1 or 2 units or without end; fair | do installations arrive, are tokens fresh and few, do refreshes get lost? |
| `server` | 2 calls of ListenAndServe, 2 requests, 3 environments, 2 extensions, 2 pages; fair | is everything served, is everything over in the end? |
| `reading` | pages: sites of up to 3 pages and the dashboard's 8, 6 runes, 9 braces, 4 nodes; kubejson: some 4,200 objects, lists and messages of `User` and `AppInstallation`, 6 texts with 1 edit, numerals of 6 runes over 8; one of the two parts at a time | who answers a path, what do conditions and templates mean; is what is read JSON, and what it means; does what is written read back; are numbers exact? |
| `kubejson_skip` | the texts of `reading` (violation) | is only JSON read, without exception? |

Why the bounds are enough: two servers and four versions give every order of a
create, a conflicting write, a rotation or deletion and the list and events
that report them, and a fifth version adds only repetitions; what holds for
more is proved. Two requests of one browser are what a snapshot needs to become
stale, a third write is what makes a conflict after a conflict. Two callers
race for the first user of an account; two faults let one call fail and its
retry too. Two contents in the relation of a prefix are what a half-written
file can be mistaken for. Three pages allow two siblings and a parent; six
runes reach `a.a=='` and every shorter faulty text; nine braces reach two
complete mustaches with a stray brace; four nodes reach a text under a
condition under a loop under a loop. Two or three members in an object show a field
named twice, by one name or both, and a skipped member between read ones; two
elements show what one leaves for the next. One edit is enough for each fault the
decoder itself lets pass; texts further from JSON are the theorem's, which is for
all of them. Six
runes reach `-1.0e1` and every shorter faulty numeral; 5 bits and 2 digits keep the
largest unsigned value (31) at MaxDigits digits as 64 bits and 20 digits do.

Three installations at one a page are three pages, so that one can shift into a
page already read while another follows it; the change, the fault and the second
start give every pair of a synchronisation and what disturbs it. A clock of 8
reaches the second token of every skew, and skews of -1, 0, 1 and 3 are a
process ahead, in step, within and beyond the margins. Three oauth tokens are
two logins and a refresh, or one login refreshed twice. Two replicas are what a
rolling replacement has; three starts let a replica come back between a
rotation or deletion and the other's end. Two calls on one server race for the
mux and for each other's requests; a third would only wait for the same mutex.
What holds for more is proved, for every safety property of the runs but five of
`reading` (section 5).

`SYMMETRY Alike` in `sso_login` permutes request slots and users, which the
module treats alike; no liveness is checked there. `CHECK_DEADLOCK FALSE` is
set where the system stops by design: uploads and downloads are made once each
(`blobs`), inputs only grow and a text is read once (`reading`), starts
and clocks are bounded (`github`, `trust`), the process ends (`server`).

### Fairness

`FairSpec` of `KeyStore` asks only for the watch: `WatchRetries` weakly fair
(its loop sleeps and starts again), `ListSecret`, `ApplyList` and `WatchEvent`
strongly fair (the stream may break again and again, but not always before it
delivers). Callers, administrators and crashes may stop. `FairSpec` of `Users`
asks for `MapToUser` to run on (it does not wait for anybody) and for whoever
got an error to log in again; faults are bounded, since nothing succeeds if
every call fails. `SyncFairness` asks a replica's loop to go on, which is
sequential code whose calls are answered or fail. `FairSpec` of `TokenTrust` asks
requests to go on, and, strongly, that whoever waits for the mutex gets it: Go's
mutex is handed to a waiter after a millisecond. `Fairness` of `ServerLife` asks
the two goroutines of a call to go on and the receiver of the address to
receive; nothing is asked of requests, which may take for ever, nor of whoever
may cancel.

## 5. Theorems

The proof modules follow one pattern: an invariant (`IInv`, or one named
for its module), a conjunction of named parts defined in the component's module,
holds initially, is preserved by every action (a lemma per action or per part,
with a step for each of the other), and implies the invariants that the runs
check; action properties and refinements are proved from it.

* `KeyStoreProofs`: `IInv` is type correctness, `LogInv` (every
  keyset has one key per id and a highest id, and within one incarnation a
  later version has every readable key of an earlier one), and per caller `TxnInv` (the private copy is
  the version it was read from, edited), `CallInv`, `HeldInv`, and per server
  `CacheInv`, `WatchInv`. `LogInv` is what the checked invariants lack to be
  inductive: they speak of caches and hands, and only the history of the secret
  relates those. Proved: every safety property of `keystore_race` and the
  refinement `RegistrySpec`.
* `UsersProofs`: `IInv` counts, per account, existing users and callers that
  are past their scan; their sum never exceeds the callers. That a list has a first
  user (`FirstOf`) needs a smallest number, which `NatLessThanWellFounded` and `WFMin`
  of the library give. Proved: the safety
  properties of `users_logins`.
* `ServerLifeProofs`: `IInv` says that components are added only while nobody
  serves (`Untouched`), that the published mux serves all of them (`MuxServes`),
  that a mux under construction serves those dealt with so far and is thrown
  away on failure (`Building`), and that a server being shut down takes no more
  requests (`Stopping`). Without `Building` publication could not be shown to be
  complete; without `Stopping` a request could arrive after the drain. Proved:
  the safety properties of `server`.
* `GithubProofs`, tokens: `TokensInv` says that the two caches have one token between
  them, the one created last if that was received (`OneToken`), that whoever asks for another holds
  the mutex and there is none to reuse (`Asking`), and how old the claims of a
  JWT can be (`Claimed`). From that, `NothingKept` shows userTokenSource's rule
  never to decide, and `SpacedFromLast` that creations keep their distance
  from the last one received. Proved: `TokensAccepted`, and the safety properties of the token part of `github`.
* `GithubProofs`, oauth sessions: `OauthInv` says that a copy a caller works on is
  never newer than the stored object, has its token if it has its version, and is
  refreshed only by a later one (`Carried`). Proved: both properties of the
  session part of `github`.
* `GithubProofs`, synchronisation: `SyncInv` says that nothing that may still be
  applied, by anybody, is older than what GitHub said when a replica that
  synchronises alone began (`NothingOlder`), and that each
  installation that was there all along is brought over, on the page at hand, or
  on a page to come (`Covering`); a page that shifted is the one way out of the
  last. The arithmetic of ranks and pages is in `Ranks` and `Pages`, paths in
  `Paths`. Proved: both safety properties of the synchronisation, for any number of
  replicas, installations and pages.
* `SSOProofs`, sessions: `SessionsInv` says that every id in anybody's hands was stored
  once (`HeldWereStored`), so that a drawn one is nobody's; what a Session object
  looks like at each step of its request (`Formed`); that a request no other of
  its browser overlaps works on the browser's session and leaves there what it
  answers with (`WorksAlone`); and that what a browser may rely on is there while
  none of its requests is past the lookup (`Relied`). The three checked
  properties alone are not inductive: `ReadsOwnWrites` compares two requests, and
  only `WorksAlone` follows a value from the write of one to the lookup of the
  next. Proved: all properties of `sessions`.
* `SSOProofs`, refinement: `SSOImplementsSessions` says that the SSO server is one of
  the applications `Sessions` is about: what its filters and handlers do, a
  redirect in the place of a handler, a login, a logout, a refused token, is a
  `HandlerReturns` or a `HandlerFails` (`HandlerIsReturn`, `RedirectIsReturn`,
  `SSOStepIsSessions`), with `SSOInv` to know what each finds in the session.
  `SSOSessions` is what follows: the three properties of sessions hold of the server.
* `SSOProofs`: `SSOInv` is `SessionsInv` and, per request, that it has changed
  nothing before it is served (`Unserved`), what its handler left in session and
  token (`Served`), and that the token it came with is still its browser's
  (`CameWithToken`); and of all browsers, that whatever user a token, a request,
  or a session that it holds or works on can name was granted (`TokensEarned`,
  `SessionsEarned`), that a nonce belongs to the one browser that drew it
  (`NoncesApart`), and that no session holds one that is spent (`SpentAreGone`).
  `SessionsEarned` speaks of sessions in requests too, since a snapshot outlives
  the stored session; `NoncesApart` is why `SpentAreGone` survives the logins of
  other browsers. Each step of a session is first shown to bring nobody a value
  that was not there (`OnlyWhatTheyHad`, `DataKept` and the `NothingNew` lemmas),
  and the parts follow. Proved: every property of `sso_login`.
* `TokenTrustProofs`: `IInv` says that keys are numbered as they are made, in one
  incarnation of the secret each (`Numbered`), that the secret loses none while
  it exists and a replica holds every key made before it started (`Complete`),
  and that what a replica has cached was published by one it has met (`Met`).
  `Complete` is what a refusal is judged by, `Numbered` and `Met` what a believed
  token is traced back with. Proved: both safety properties of `trust`.
* `BlobStoreProofs`: `IInv` says what each file holds at each step of an upload
  (`UploadInv`), that names point at files copied to the end (`NameInv`), and
  that what a download received is a prefix of the file it opened unless that
  was damaged (`DownloadInv`). Proved: all properties of `blobs`.
* `ReadingProofs`, pages: the invariant is that a site consists of `Files`; the rest is
  about any such site. If no two pages compete, no other page matches an address of a
  page, or they collided (`OnlyItMatches`); its pattern is the one chosen, or another's
  subtree shadowed it (`ItIsChosen`); so it alone answers (`OnlyHandler`), and the
  parameters are the tokens in its own places (`ParametersAre`). The root's empty token
  is a case of its own (`BesideTheRoot`). Proved: `PagesAnswerTheirPaths`.
* `ReadingProofs`, kubejson: `IInv` is `OnlyJsonIsRead` and, while a call runs, `Running`:
  the decoder is `Sound` and the frames are calls (`CallsAre`). `Sound` relates the
  decoder's one token of memory and its stack to the grammar: for every level of the
  stack the text since its bracket is elements or members, complete or up to a
  comma, a name or nothing, as the last token tells (`ReadTo`). A decoder does not
  notice a missing value; `ReadTo` holds nevertheless of texts whose names have values
  (`NamesHaveValues`), and at the bottom of the stack needs the callers: whoever is past
  its first token has begun (`Begun`), so that EOF comes behind a value. Each of the
  15 steps of the calls is shown to keep `Running`, and `Finish` with it to have read
  a value from the first lexeme to the last. The grammar is a recursive function, so
  that `IsJson` is a CHOOSE; that one exists (`TextsAreSolved`) is shown by taking
  the intersection of all sets closed under the rules, which is one the rules define.
  Proved: `OnlyJsonIsRead`, for any text, schema and nesting.

The assumptions are those of the modules: callers live in one server, bounds
are natural numbers, SHA-256 has no collisions among the contents, contents are
closed under prefixes, user ids are positive numbers, callers are finite, margins of
tokens are in the order the code's have (0 < ReuseMargin < OwnMargin < TokenLife),
GitHub's numbers are positive and their decimal forms differ (`FormatAssumption`,
which only formatting them could prove), a page of a listing holds at least one
installation, a request belongs to one browser, names of directory entries are
strings and not empty, `index` and `pages` do not start with an underscore, a
request's path without tokens is `/`, and `NoSID`, `Unknown`, `NoUser` and `NoNonce` are
none of the ids, values, users and nonces.

Only model-checked: the liveness properties (fairness is out of the prover's
reach); and `RenderedAsMeant`, `GrammarsAreRead`, `MeansTheTree`, `ReadBack` and
`NumbersAreRead`. What these compare are recursions over data, a parser, a renderer, a
marshaller or a decimal number with a meaning defined along a tree or a numeral, and
declared RECURSIVE on one side or both; that they agree for every input is an
induction over that data, with an operator as its hypothesis. (`OnlyJsonIsRead` is
about such data too, but its induction is along the steps of a behaviour.)
`LoginSetsToken`, `EncryptErrorIsTrue` and `ReadsOnlyJson` do not hold (section 6).

## 6. Findings

1. `Encrypt` and `AuthenticateAndDecrypt` test `if !!ok`: they refuse exactly
   the keys they support (`components/keystore/kubernetes.go:120`).
2. Signing in as another user while signed in keeps the old token, because the
   "login" branch compares user ids with `==`
   (`apps/sso/components/jwtissuer/component.go:123`).
3. `skipJSONValue` relies on the decoder to refuse types that are not in sequence
   (its comment, `components/kube/kubejson/well_known_types.go:310`), and the decoder
   lets an object end behind a member's name: `{"kind":[{"a":},{}]}` is read without
   an error. `OnlyJson` proves that there is no other way for a text that is not JSON.

## 7. Not modelled, and the plan

Everything in `src/` that keeps state across calls is modelled. What could be added
is in `KubeJson`: the other scalar kinds, maps and oneofs, which no object of the
repository uses. Of `well_known_types.go` only `skipJSONValue` (309-355) is live code,
the rest is commented out.

Left out for good: generated protobuf and deepcopy code (`*.pb.go`, `zz_*`), which
holds no decisions of the program; `components/kube/meta.go`'s reflection; the
dashboard, whose handlers read the cluster and render it; the health check's
answer and the formatting of logs; HTTP headers and bodies; `GetRESTConfig`, flags
and the reading of key files; attribute escaping and reflection on Go values
in templates.
