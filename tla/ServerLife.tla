----------------------------- MODULE ServerLife -----------------------------
(* server.New, the apps' use of it, and ListenAndServe: a server is built from *)
(* its environment, gets the components of its app, registers their handlers  *)
(* once and for all, listens, and shuts down when its context is cancelled or *)
(* its listener fails.  Several calls of ListenAndServe may share the server,  *)
(* one for http and one for https say.                                         *)
EXTENDS Naturals, Sequences

CONSTANTS
  Calls,     \* Calls of App.Run, or of ListenAndServe itself.
  Requests,
  Environments, \* What the environment may say.  app: GITHUB_APP_ID and
                \* GITHUB_APP_KEY; client: whether there is an OAUTH2_CLIENT_ID;
                \* provider: OAUTH2_PROVIDER.
  Extensions,   \* Sequences of components; every app adds one to its server.
  Pages,     \* The patterns that the app's pages are served under.
  NoMux,
  Nobody

ASSUME EnvironmentsAssumption ==
  Environments \subseteq [app : {"none", "keyless", "unreadable", "good"},
                          client : BOOLEAN,
                          provider : {"", "google", "github", "unknown"}]

\* The components there are: what implements components.Component.
Component ==
  {"kubeclient", "healthcheck", "cookies", "sessions", "pages", "users",
   "oauthsessions", "github", "login", "oidclogin", "jwtissuer"}

ASSUME ExtensionsAssumption == Extensions \subseteq Seq(Component)
ASSUME NothingAssumption == Nobody \notin Calls

VARIABLES
  phase,      \* "new", "built", "ready", "failed" or "exited": where the process is.
  components, \* Server.Components.
  providers,  \* The login component's providers.
  mux,        \* Server.mux: per pattern, the filters in front of its handler.
  holder,     \* Who holds Server.mutex.
  pc,         \* Per call: where it is.
  building,   \* Per call: ensureMux's own mux while it registers.
  tls,        \* Per call: what its tlsConfig is.
  listening,  \* Per call: its channel, "none" where it has none.
  listener,   \* Per call: its listener.
  cancelled,  \* Per call: ctxWithCancel is done.
  stopping,   \* Per call: Shutdown has marked its http.Server.
  goroutine,  \* Per call: where the goroutine that shuts it down is.
  state,      \* Per request: "none", "active" or "cut" off.
  servedBy,   \* Per request: the call whose server took it.
  timedOut    \* History, per call: Shutdown ran out of its 30 seconds.

app == <<phase, components, providers>>
muxVars == <<mux, holder, building>>
callVars == <<pc, tls, listening, listener, cancelled, stopping, goroutine>>
requestVars == <<state, servedBy, timedOut>>
vars == <<app, muxVars, callVars, requestVars>>

-----------------------------------------------------------------------------
(* The server and its components.                                              *)

Refused(env) ==
  \/ env.app \in {"keyless", "unreadable"}
  \/ env.client /\ env.provider \notin {"google", "github"}

Built(env) ==
  <<"kubeclient", "healthcheck", "cookies", "sessions", "pages", "users",
    "oauthsessions">>
  \o (IF env.app = "good" THEN <<"github">> ELSE <<>>) \o <<"login">>

Providers(env) == IF env.client THEN {env.provider} ELSE {}

\* The components that have a ProcessRequest.
IsFilter(component) ==
  component \in {"cookies", "sessions", "users", "github", "oidclogin", "jwtissuer"}

RoutesOf(component) ==
  CASE component = "healthcheck" -> {"/healthz"}
    [] component = "pages" -> Pages
    [] component = "github" -> {"/_ghapp/"}
    [] component = "login" -> {"/_login/logout"}
         \cup {"/_login/oauth2/" \o p : p \in providers}
         \cup {"/_login/oauth2-callback/" \o p : p \in providers}
    [] component = "jwtissuer" -> {"/.well-known/openid-configuration",
                                   "/.oidc/jwks", "/.oidc/userinfo"}
    [] OTHER -> {}

\* components.Server.ServeHTTP: the filters of all components, in their order.
FiltersOf(all) == SelectSeq(all, IsFilter)
Filters == FiltersOf(components)

\* ensureMux before the first component.
Fresh == [done |-> 0, routes |-> <<>>]

\* Only reading the pages can fail.
MayFail(component) == component = "pages"

Init ==
  /\ phase = "new" /\ components = <<>> /\ providers = {}
  /\ mux = NoMux /\ holder = Nobody
  /\ building = [c \in Calls |-> Fresh]
  /\ pc = [c \in Calls |-> "idle"]
  /\ tls = [c \in Calls |-> "none"]
  /\ listening = [c \in Calls |-> "none"]
  /\ listener = [c \in Calls |-> "none"]
  /\ cancelled = [c \in Calls |-> FALSE]
  /\ stopping = [c \in Calls |-> FALSE]
  /\ goroutine = [c \in Calls |-> "none"]
  /\ state = [r \in Requests |-> "none"]
  /\ servedBy = [r \in Requests |-> Nobody]
  /\ timedOut = [c \in Calls |-> FALSE]

New(env) ==
  /\ phase = "new" /\ ~Refused(env)
  /\ phase' = "built"
  /\ components' = Built(env)
  /\ providers' = Providers(env)
  /\ UNCHANGED <<muxVars, callVars, requestVars>>

\* The environment is refused, or a client cannot be built; the app ends.
NewFails ==
  /\ phase = "new"
  /\ phase' = "failed"
  /\ UNCHANGED <<components, providers, muxVars, callVars, requestVars>>

\* The apps add their components, one by one, between NewApp and Run.
AddComponents(extension) ==
  /\ phase = "built"
  /\ components' = components \o extension
  /\ phase' = "ready"
  /\ UNCHANGED <<providers, muxVars, callVars, requestVars>>

-----------------------------------------------------------------------------
(* ListenAndServe.                                                             *)

\* Mutant: the context is never cancelled by the call itself.
ReturnNotCancelling(c) ==
  /\ pc' = [pc EXCEPT ![c] = "returned"]
  /\ UNCHANGED cancelled
  /\ listening' = [listening EXCEPT ![c] = IF @ = "none" THEN "none" ELSE "closed"]

\* Everything that is deferred: cancel and, last, close(listening).  A call
\* that returns before it made a context has nothing to cancel.  What the call
\* returns is left out: nil if its context is done, and an error otherwise.
Return(c) ==
  /\ pc' = [pc EXCEPT ![c] = "returned"]
  /\ cancelled' = [cancelled EXCEPT ![c] = @ \/ goroutine[c] # "none"]
  /\ listening' = [listening EXCEPT ![c] = IF @ = "none" THEN "none" ELSE "closed"]

\* App.Run: with UseSPIFFE the configuration has a certificate, or the call
\* ends here; without, it is the one in the options, if any.
Run(c) ==
  /\ phase = "ready" /\ pc[c] = "idle"
  /\ pc' = [pc EXCEPT ![c] = "ensure"]
  /\ \E config \in {"none", "certificate", "no certificate"} :
       tls' = [tls EXCEPT ![c] = config]
  /\ \E channel \in {"none", "open"} :
       listening' = [listening EXCEPT ![c] = channel]
  /\ UNCHANGED <<app, muxVars, listener, cancelled, stopping, goroutine,
                 requestVars>>

RunFails(c) ==
  /\ phase = "ready" /\ pc[c] = "idle"
  /\ Return(c)
  /\ UNCHANGED <<app, muxVars, tls, listener, stopping, goroutine, requestVars>>

\* The goroutine is started before the listener.
Spawn(c) ==
  /\ pc' = [pc EXCEPT ![c] = "listen"]
  /\ goroutine' = [goroutine EXCEPT ![c] = "waiting"]

Available(c) == holder = Nobody

HasMux(c) ==
  /\ phase = "ready" /\ pc[c] = "ensure" /\ Available(c)
  /\ mux # NoMux
  /\ Spawn(c)
  /\ UNCHANGED <<app, muxVars, tls, listening, listener, cancelled, stopping,
                 requestVars>>

EnsureMux(c) ==
  /\ phase = "ready" /\ pc[c] = "ensure" /\ Available(c)
  /\ mux = NoMux
  /\ holder' = c
  /\ pc' = [pc EXCEPT ![c] = "register"]
  /\ UNCHANGED <<app, mux, building, tls, listening, listener, cancelled,
                 stopping, goroutine, requestVars>>

\* The next component's RegisterHandlers.  http.ServeMux panics on a pattern it
\* has; the patterns of the pages are taken to differ from the others.
Registered(c) ==
  LET new == RoutesOf(components[building[c].done + 1])
      old == building[c].routes
  IN  [done   |-> building[c].done + 1,
       routes |-> [p \in DOMAIN old \cup new |->
                     IF p \in new THEN Filters ELSE old[p]]]

\* Mutant: the handlers are registered on the server's mux itself.
RegisterHandlersShared(c) ==
  /\ phase = "ready" /\ pc[c] = "register"
  /\ building[c].done < Len(components)
  /\ building' = [building EXCEPT ![c] = Registered(c)]
  /\ mux' = Registered(c).routes
  /\ UNCHANGED <<app, holder, callVars, requestVars>>

RegisterHandlers(c) ==
  /\ phase = "ready" /\ pc[c] = "register"
  /\ building[c].done < Len(components)
  /\ building' = [building EXCEPT ![c] = Registered(c)]
  /\ UNCHANGED <<app, mux, holder, callVars, requestVars>>

RegisterFails(c) ==
  /\ phase = "ready" /\ pc[c] = "register"
  /\ building[c].done < Len(components)
  /\ MayFail(components[building[c].done + 1])
  /\ holder' = Nobody
  /\ building' = [building EXCEPT ![c] = Fresh]
  /\ Return(c)
  /\ UNCHANGED <<app, mux, tls, listener, stopping, goroutine, requestVars>>

PublishMux(c) ==
  /\ phase = "ready" /\ pc[c] = "register"
  /\ building[c].done = Len(components)
  /\ mux' = building[c].routes
  /\ holder' = Nobody
  /\ building' = [building EXCEPT ![c] = Fresh]
  /\ Spawn(c)
  /\ UNCHANGED <<app, tls, listening, listener, cancelled, stopping,
                 requestVars>>

Listen(c) ==
  /\ phase = "ready" /\ pc[c] = "listen"
  /\ listener' = [listener EXCEPT ![c] = "open"]
  /\ pc' = [pc EXCEPT ![c] = IF listening[c] = "none" THEN "serve" ELSE "announce"]
  /\ UNCHANGED <<app, muxVars, tls, listening, cancelled, stopping, goroutine,
                 requestVars>>

ListenFails(c) ==
  /\ phase = "ready" /\ pc[c] = "listen"
  /\ Return(c)
  /\ UNCHANGED <<app, muxVars, tls, listener, stopping, goroutine, requestVars>>

\* listening <- ln.Addr(): both sides of the channel meet.
Announce(c) ==
  /\ phase = "ready" /\ pc[c] = "announce"
  /\ pc' = [pc EXCEPT ![c] = "serve"]
  /\ UNCHANGED <<app, muxVars, tls, listening, listener, cancelled, stopping,
                 goroutine, requestVars>>

\* http.Server's Serve and ServeTLS.  ServeTLS returns before it takes charge
\* of the listener if there is no certificate.
ServeTLSFails(c) ==
  /\ phase = "ready" /\ pc[c] = "serve" /\ tls[c] = "no certificate"
  /\ Return(c)
  /\ UNCHANGED <<app, muxVars, tls, listener, stopping, goroutine, requestVars>>

\* Serve closes the listener however it ends.  It does not begin on a server
\* that is being shut down.
ServeStart(c) ==
  /\ phase = "ready" /\ pc[c] = "serve" /\ tls[c] # "no certificate"
  /\ IF stopping[c]
     THEN /\ listener' = [listener EXCEPT ![c] = "closed"]
          /\ Return(c)
     ELSE /\ pc' = [pc EXCEPT ![c] = "serving"]
          /\ UNCHANGED <<listener, listening, cancelled>>
  /\ UNCHANGED <<app, muxVars, tls, stopping, goroutine, requestVars>>

\* Serve returns because Shutdown closed the listener, or because Accept failed
\* for good.
ServeEnds(c) ==
  /\ phase = "ready" /\ pc[c] = "serving"
  /\ listener[c] = "closed"
  /\ Return(c)
  /\ UNCHANGED <<app, muxVars, tls, listener, stopping, goroutine, requestVars>>

AcceptFails(c) ==
  /\ phase = "ready" /\ pc[c] = "serving"
  /\ listener[c] = "open"
  /\ listener' = [listener EXCEPT ![c] = "closed"]
  /\ Return(c)
  /\ UNCHANGED <<app, muxVars, tls, stopping, goroutine, requestVars>>

-----------------------------------------------------------------------------
(* The goroutine that shuts a server down.                                     *)

Cancel(c) ==
  /\ phase = "ready" /\ goroutine[c] = "waiting" /\ ~cancelled[c]
  /\ cancelled' = [cancelled EXCEPT ![c] = TRUE]
  /\ UNCHANGED <<app, muxVars, pc, tls, listening, listener, stopping, goroutine,
                 requestVars>>

Active(c) == {r \in Requests : state[r] = "active" /\ servedBy[r] = c}

\* Mutant: Shutdown is given the context whose end started it.
ShutdownBeginsCancelled(c) ==
  /\ phase = "ready" /\ goroutine[c] = "waiting" /\ cancelled[c]
  /\ stopping' = [stopping EXCEPT ![c] = TRUE]
  /\ listener' = [listener EXCEPT ![c] = IF pc[c] = "serving" THEN "closed" ELSE @]
  /\ goroutine' = [goroutine EXCEPT ![c] = "closing"]
  /\ UNCHANGED <<app, muxVars, pc, tls, listening, cancelled, requestVars>>

\* Shutdown marks the server and closes the listeners that Serve has taken
\* charge of, then waits for the requests, on a context of its own.
ShutdownBegins(c) ==
  /\ phase = "ready" /\ goroutine[c] = "waiting" /\ cancelled[c]
  /\ stopping' = [stopping EXCEPT ![c] = TRUE]
  /\ listener' = [listener EXCEPT ![c] = IF pc[c] = "serving" THEN "closed" ELSE @]
  /\ goroutine' = [goroutine EXCEPT ![c] = "draining"]
  /\ UNCHANGED <<app, muxVars, pc, tls, listening, cancelled, requestVars>>

Drained(c) ==
  /\ phase = "ready" /\ goroutine[c] = "draining" /\ Active(c) = {}
  /\ goroutine' = [goroutine EXCEPT ![c] = "closing"]
  /\ UNCHANGED <<app, muxVars, pc, tls, listening, listener, cancelled, stopping,
                 requestVars>>

DrainTimesOut(c) ==
  /\ phase = "ready" /\ goroutine[c] = "draining" /\ Active(c) # {}
  /\ goroutine' = [goroutine EXCEPT ![c] = "closing"]
  /\ timedOut' = [timedOut EXCEPT ![c] = TRUE]
  /\ UNCHANGED <<app, muxVars, pc, tls, listening, listener, cancelled, stopping,
                 state, servedBy>>

Cut(rs) == state' = [r \in Requests |-> IF r \in rs THEN "cut" ELSE state[r]]

Close(c) ==
  /\ phase = "ready" /\ goroutine[c] = "closing"
  /\ goroutine' = [goroutine EXCEPT ![c] = "done"]
  /\ Cut(Active(c))
  /\ UNCHANGED <<app, muxVars, pc, tls, listening, listener, cancelled, stopping,
                 servedBy, timedOut>>

-----------------------------------------------------------------------------
(* Requests, and the end of the process.                                       *)

Arrive(r, c) ==
  /\ phase = "ready" /\ state[r] = "none"
  /\ pc[c] = "serving" /\ listener[c] = "open"
  /\ state' = [state EXCEPT ![r] = "active"]
  /\ servedBy' = [servedBy EXCEPT ![r] = c]
  /\ UNCHANGED <<app, muxVars, callVars, timedOut>>

\* Once it is answered there may be another like it.
Answer(r) ==
  /\ phase = "ready" /\ state[r] = "active"
  /\ state' = [state EXCEPT ![r] = "none"]
  /\ servedBy' = [servedBy EXCEPT ![r] = Nobody]
  /\ UNCHANGED <<app, muxVars, callVars, timedOut>>

\* main returns, or exits, as soon as Run has returned.
Exit ==
  /\ phase = "ready" /\ \E c \in Calls : pc[c] = "returned"
  /\ phase' = "exited"
  /\ Cut({r \in Requests : state[r] = "active"})
  /\ UNCHANGED <<components, providers, muxVars, callVars, servedBy, timedOut>>

Step(c) ==
  \/ HasMux(c) \/ EnsureMux(c) \/ RegisterHandlers(c) \/ RegisterFails(c)
  \/ PublishMux(c) \/ Listen(c) \/ ListenFails(c) \/ Announce(c)
  \/ ServeTLSFails(c) \/ ServeStart(c) \/ ServeEnds(c)

ShutdownStep(c) ==
  ShutdownBegins(c) \/ Drained(c) \/ DrainTimesOut(c) \/ Close(c)

Next ==
  \/ \E env \in Environments : New(env)
  \/ NewFails
  \/ \E extension \in Extensions : AddComponents(extension)
  \/ \E c \in Calls : \/ Run(c) \/ RunFails(c) \/ Step(c) \/ ShutdownStep(c)
                      \/ AcceptFails(c) \/ Cancel(c)
                      \/ \E r \in Requests : Arrive(r, c)
  \/ \E r \in Requests : Answer(r)
  \/ Exit

\* Goroutines run, the receiver of a channel receives, 30 seconds pass.
\* Nothing is asked of the requests, nor that anybody cancels.
Fairness == \A c \in Calls : WF_vars(Step(c)) /\ WF_vars(ShutdownStep(c))

Spec == Init /\ [][Next]_vars
FairSpec == Spec /\ Fairness

-----------------------------------------------------------------------------
\* The routes that the first n components register.
RoutesOfFirst(n) == UNION {RoutesOf(components[i]) : i \in 1..n}

\* A mux that serves those, each behind all the filters.
Serves(routes, n) ==
  /\ DOMAIN routes = RoutesOfFirst(n)
  /\ \A p \in DOMAIN routes : routes[p] = Filters

PastMux(c) == pc[c] \in {"listen", "announce", "serve", "serving"}

\* Whoever is served is served by all the components of the app, each behind
\* every filter of the app, also by the server of a call that did not register
\* them, and also after a call that failed half way through them (ensureMux).
ServesEverything ==
  \A c \in Calls : PastMux(c) => Serves(mux, Len(components))

\* A shutdown lets the requests it finds finish: one is cut off only after the
\* 30 seconds, or because the process did not wait for the shutdown
\* (ListenAndServe returns as soon as the shutdown begins).
CutOffOnlyLate ==
  \A r \in Requests : state[r] = "cut" =>
    \/ timedOut[servedBy[r]]
    \/ phase = "exited" /\ \E c \in Calls : pc[c] = "returned"

\* Nothing of the call is left: it returned, its goroutine ended, its receiver
\* knows, its address is free.  Only a TLS configuration without a certificate
\* leaves the listener open.
Over(c) ==
  /\ pc[c] = "returned"
  /\ goroutine[c] \in {"none", "done"}
  /\ listening[c] # "open"
  /\ listener[c] = "open" => tls[c] = "no certificate"

\* A call that is cancelled, wherever it is, and one that fails are over in the
\* end, and leave nothing behind: no goroutine, no open address, no receiver
\* that waits (the deferred calls of ListenAndServe).
EndsCompletely ==
  \A c \in Calls :
    (cancelled[c] \/ pc[c] = "returned") ~> (Over(c) \/ phase = "exited")

-----------------------------------------------------------------------------
(* Why the two invariants hold: what is proved in ServerLifeProofs.            *)

Types ==
  /\ phase \in {"new", "built", "ready", "failed", "exited"}
  /\ components \in Seq(Component)
  /\ DOMAIN building = Calls
  /\ pc \in [Calls -> {"idle", "ensure", "register", "listen", "announce",
                       "serve", "serving", "returned"}]
  /\ DOMAIN listener = Calls
  /\ stopping \in [Calls -> BOOLEAN]
  /\ goroutine \in [Calls -> {"none", "waiting", "draining", "closing", "done"}]
  /\ state \in [Requests -> {"none", "active", "cut"}]
  /\ servedBy \in [Requests -> Calls \cup {Nobody}]
  /\ timedOut \in [Calls -> BOOLEAN]

\* Components are added only while nobody serves or registers.
Untouched ==
  phase \notin {"ready", "exited"} =>
    mux = NoMux /\ \A c \in Calls : pc[c] = "idle"

MuxServes == mux # NoMux => Serves(mux, Len(components))

\* A mux under construction, which only the call that builds it can see, has
\* the routes of the components dealt with; one that failed is thrown away.
Building(c) ==
  /\ building[c].done \in 0..Len(components)
  /\ Serves(building[c].routes, building[c].done)
  /\ pc[c] # "register" => building[c] = Fresh

\* A server that is shut down takes no more requests, and what a goroutine that
\* did not run out of time is about to close has none.
Stopping(c) ==
  /\ goroutine[c] \in {"draining", "closing", "done"} => stopping[c]
  /\ stopping[c] /\ pc[c] = "serving" => listener[c] = "closed"
  /\ goroutine[c] = "closing" => timedOut[c] \/ Active(c) = {}

IInv ==
  /\ Types
  /\ Untouched
  /\ MuxServes
  /\ ServesEverything
  /\ \A c \in Calls : Building(c) /\ Stopping(c)
  /\ CutOffOnlyLate
=============================================================================
