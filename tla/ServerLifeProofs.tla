-------------------------- MODULE ServerLifeProofs --------------------------
(* Proofs about ServerLife, for any number of calls and requests, and whatever *)
(* the environment, the pages and the components an app adds.                  *)
EXTENDS ServerLife, TLAPS

\* What a mux has to serve depends on the components and providers only.
LEMMA ServesSame ==
  ASSUME components' = components, providers' = providers
  PROVE  \A routes, n : Serves(routes, n) => Serves(routes, n)'
<1>1. Filters' = Filters
  BY DEF Filters
<1>2. \A x : RoutesOf(x)' = RoutesOf(x)
  BY DEF RoutesOf
<1>3. \A n : RoutesOfFirst(n)' = RoutesOfFirst(n)
  BY <1>2 DEF RoutesOfFirst
<1> QED BY <1>1, <1>3 DEF Serves

\* A mux without routes serves the first none of the components.
LEMMA ServesNone == Serves(<<>>, 0)
BY DEF Serves, RoutesOfFirst

LEMMA ServesNext ==
  ASSUME NEW c \in Calls, Types, Building(c), building[c].done < Len(components)
  PROVE  /\ Registered(c).done \in 0..Len(components)
         /\ Serves(Registered(c).routes, Registered(c).done)
<1> DEFINE n == building[c].done
           new == RoutesOf(components[n + 1])
           old == building[c].routes
           routes == [p \in DOMAIN old \cup new |->
                        IF p \in new THEN Filters ELSE old[p]]
<1>1. n \in Nat /\ Len(components) \in Nat /\ n + 1 \in 1..Len(components)
  BY DEF Types, Building
<1>2. DOMAIN old = RoutesOfFirst(n) /\ \A p \in DOMAIN old : old[p] = Filters
  BY DEF Building, Serves
<1>3. 1..(n + 1) = (1..n) \cup {n + 1}
  BY <1>1
<1>4. RoutesOfFirst(n + 1) = RoutesOfFirst(n) \cup new
  BY <1>3 DEF RoutesOfFirst
<1>5. Registered(c).done = n + 1 /\ Registered(c).routes = routes
  BY DEF Registered
<1>6. Serves(routes, n + 1)
  <2>1. DOMAIN routes = RoutesOfFirst(n + 1)
    BY <1>2, <1>4
  <2>2. \A p \in DOMAIN routes : routes[p] = Filters
    BY <1>2
  <2> QED BY <2>1, <2>2 DEF Serves
<1> QED BY <1>1, <1>5, <1>6

LEMMA BuiltTyped ==
  ASSUME NEW env
  PROVE  Built(env) \in Seq(Component)
<1> DEFINE first == <<"kubeclient", "healthcheck", "cookies", "sessions", "pages",
                      "users", "oauthsessions">>
           github == IF env.app = "good" THEN <<"github">> ELSE <<>>
           login == <<"login">>
<1>1. first \in Seq(Component) /\ login \in Seq(Component)
  BY DEF Component
<1>2. github \in Seq(Component)
  <2>1. <<"github">> \in Seq(Component) /\ <<>> \in Seq(Component)
    BY DEF Component
  <2> QED BY <2>1
<1>3. Built(env) = first \o github \o login
  BY DEF Built
<1> HIDE DEF first, github, login
<1>4. first \o github \o login \in Seq(Component)
  BY <1>1, <1>2
<1> QED BY <1>3, <1>4

LEMMA Initially == Init => IInv
<1> SUFFICES ASSUME Init PROVE IInv
  OBVIOUS
<1>1. Types
  BY DEF Init, Types
<1>2. \A c \in Calls : Building(c)
  <2>1. Fresh.done = 0 /\ Fresh.routes = <<>> /\ Len(components) \in Nat
    BY DEF Init, Fresh
  <2>2. \A c \in Calls : building[c] = Fresh
    BY DEF Init
  <2>3. Serves(Fresh.routes, Fresh.done) /\ Fresh.done \in 0..Len(components)
    BY <2>1, ServesNone
  <2> QED BY <2>2, <2>3 DEF Building
<1>3. \A c \in Calls : Stopping(c)
  BY DEF Init, Stopping
<1>4. Untouched /\ MuxServes /\ ServesEverything /\ CutOffOnlyLate
  BY DEF Init, Untouched, MuxServes, ServesEverything, PastMux, CutOffOnlyLate
<1> QED BY <1>1, <1>2, <1>3, <1>4 DEF IInv

\* A step that leaves the muxes alone, forgets no call that registers and lets
\* nobody go on without a mux.
LEMMA MuxUntouched ==
  ASSUME IInv, phase \in {"ready", "exited"}, phase' \in {"ready", "exited"},
         components' = components, providers' = providers,
         mux' = mux, building' = building,
         \A c \in Calls : pc[c] = "register" => pc'[c] = "register",
         \A c \in Calls : PastMux(c)' => PastMux(c) \/ mux # NoMux
  PROVE  /\ Untouched' /\ MuxServes' /\ ServesEverything'
         /\ \A c \in Calls : Building(c)'
<1>1. Untouched'
  BY DEF Untouched
<1>2. MuxServes'
  BY ServesSame DEF IInv, MuxServes
<1>3. ServesEverything'
  BY ServesSame DEF IInv, MuxServes, ServesEverything
<1>4. \A c \in Calls : Building(c)'
  BY ServesSame DEF IInv, Building, Fresh
<1> QED BY <1>1, <1>2, <1>3, <1>4

\* A step that leaves the requests alone, and no call that has returned.
LEMMA RequestsUntouched ==
  ASSUME IInv, phase' = phase, UNCHANGED requestVars,
         \A c \in Calls : pc[c] = "returned" => pc'[c] = "returned"
  PROVE  CutOffOnlyLate' /\ \A c \in Calls : Active(c)' = Active(c)
BY DEF IInv, CutOffOnlyLate, requestVars, Active

-----------------------------------------------------------------------------
(* The server and its components: nobody serves yet.                           *)

LEMMA StepsBefore ==
  ASSUME IInv, \/ \E env \in Environments : New(env)
               \/ NewFails
               \/ \E extension \in Extensions : AddComponents(extension)
  PROVE  IInv'
<1>1. phase \in {"new", "built"} /\ UNCHANGED <<muxVars, callVars, requestVars>>
  BY DEF New, NewFails, AddComponents
<1>2. \A c \in Calls : pc[c] = "idle" /\ building[c] = Fresh
  BY <1>1 DEF IInv, Untouched, Building
<1>3. mux = NoMux
  BY <1>1 DEF IInv, Untouched
<1>4. components' \in Seq(Component)
  <2>1. CASE \E env \in Environments : New(env)
    BY <2>1, BuiltTyped DEF New
  <2>2. CASE NewFails
    BY <2>2 DEF NewFails, IInv, Types
  <2>3. CASE \E extension \in Extensions : AddComponents(extension)
    BY <2>3, ExtensionsAssumption DEF AddComponents, IInv, Types
  <2> QED BY <2>1, <2>2, <2>3
<1>5. phase' \in {"built", "ready", "failed"}
  BY DEF New, NewFails, AddComponents
<1>6. Types'
  BY <1>1, <1>4, <1>5 DEF IInv, Types, muxVars, callVars, requestVars
<1>7. \A c \in Calls : Building(c)'
  <2>1. Fresh.done = 0 /\ Fresh.routes = <<>> /\ Len(components)' \in Nat
    BY <1>4 DEF Fresh
  <2>2. Serves(<<>>, 0)'
    BY DEF Serves, RoutesOfFirst
  <2>3. \A c \in Calls : building'[c] = Fresh
    BY <1>1, <1>2 DEF muxVars
  <2> QED BY <2>1, <2>2, <2>3 DEF Building
<1>8. \A c \in Calls : Stopping(c)'
  BY <1>1 DEF IInv, Stopping, Active, callVars, requestVars
<1>9. Untouched' /\ MuxServes' /\ ServesEverything'
  BY <1>1, <1>2, <1>3 DEF Untouched, MuxServes, ServesEverything, PastMux,
     muxVars, callVars
<1>10. CutOffOnlyLate'
  BY <1>1 DEF IInv, CutOffOnlyLate, requestVars
<1> QED BY <1>6, <1>7, <1>8, <1>9, <1>10 DEF IInv

-----------------------------------------------------------------------------
(* A call, up to its listener: neither the requests nor a server that serves   *)
(* are touched.                                                                *)

LEMMA StoppingUntouched ==
  ASSUME IInv, NEW c \in Calls, UNCHANGED <<phase, stopping, requestVars>>,
         DOMAIN pc' = Calls, DOMAIN listener' = Calls, DOMAIN goroutine' = Calls,
         \A d \in Calls \ {c} : /\ pc'[d] = pc[d]
                               /\ listener'[d] = listener[d]
                               /\ goroutine'[d] = goroutine[d],
         pc[c] # "serving", pc[c] # "returned", pc'[c] # "serving",
         goroutine'[c] \in {goroutine[c], "waiting"}
  PROVE  CutOffOnlyLate' /\ \A d \in Calls : Stopping(d)'
<1>1. CutOffOnlyLate' /\ \A d \in Calls : Active(d)' = Active(d)
  BY RequestsUntouched
<1>2. ASSUME NEW d \in Calls
      PROVE  Stopping(d)'
  <2>1. CASE d = c
    BY <1>1, <2>1 DEF IInv, Stopping, requestVars
  <2>2. CASE d # c
    BY <1>1, <2>2 DEF IInv, Stopping, requestVars
  <2> QED BY <2>1, <2>2
<1> QED BY <1>1, <1>2

LEMMA StepsUpToListener ==
  ASSUME IInv, NEW c \in Calls,
         \/ Run(c) \/ RunFails(c) \/ HasMux(c) \/ EnsureMux(c) \/ Listen(c)
         \/ ListenFails(c) \/ Announce(c) \/ ServeTLSFails(c)
  PROVE  IInv'
<1> USE DEF app, muxVars, requestVars
<1>1. /\ phase = "ready" /\ UNCHANGED <<app, mux, building, requestVars, stopping>>
      /\ pc[c] \in {"idle", "ensure", "listen", "announce", "serve"}
  BY DEF Run, RunFails, HasMux, EnsureMux, Listen, ListenFails, Announce,
         ServeTLSFails
<1>2. Types'
  <2>1. CASE Run(c)
    BY <2>1 DEF IInv, Types, Run
  <2>2. CASE RunFails(c)
    BY <2>2 DEF IInv, Types, RunFails, Return
  <2>3. CASE HasMux(c)
    BY <2>3 DEF IInv, Types, HasMux, Spawn
  <2>4. CASE EnsureMux(c)
    BY <2>4 DEF IInv, Types, EnsureMux
  <2>5. CASE Listen(c)
    BY <2>5 DEF IInv, Types, Listen
  <2>6. CASE ListenFails(c)
    BY <2>6 DEF IInv, Types, ListenFails, Return
  <2>7. CASE Announce(c)
    BY <2>7 DEF IInv, Types, Announce
  <2>8. CASE ServeTLSFails(c)
    BY <2>8 DEF IInv, Types, ServeTLSFails, Return
  <2> QED BY <2>1, <2>2, <2>3, <2>4, <2>5, <2>6, <2>7, <2>8
<1>3. /\ DOMAIN pc' = Calls /\ DOMAIN listener' = Calls /\ DOMAIN goroutine' = Calls
      /\ \A d \in Calls \ {c} : /\ pc'[d] = pc[d]
                                /\ listener'[d] = listener[d]
                                /\ goroutine'[d] = goroutine[d]
      /\ pc'[c] \in {"ensure", "returned", "listen", "register", "serve", "announce"}
      /\ goroutine'[c] \in {goroutine[c], "waiting"}
      /\ PastMux(c)' => PastMux(c) \/ mux # NoMux
  BY DEF IInv, Types, PastMux, Run, RunFails, HasMux, EnsureMux, Listen,
         ListenFails, Announce, ServeTLSFails, Return, Spawn
<1>4. CutOffOnlyLate' /\ \A d \in Calls : Stopping(d)'
  BY <1>1, <1>3, StoppingUntouched
<1>5. /\ \A d \in Calls : pc[d] = "register" => pc'[d] = "register"
      /\ \A d \in Calls : PastMux(d)' => PastMux(d) \/ mux # NoMux
  BY <1>1, <1>3 DEF PastMux
<1>6. /\ Untouched' /\ MuxServes' /\ ServesEverything'
      /\ \A d \in Calls : Building(d)'
  BY <1>1, <1>5, MuxUntouched
<1> QED BY <1>2, <1>4, <1>6 DEF IInv

-----------------------------------------------------------------------------
(* A call that builds the mux.                                                 *)

\* What the building of one mux leaves alone.
LEMMA OthersBuild ==
  ASSUME IInv, NEW c \in Calls, UNCHANGED <<phase, components, providers>>,
         \A d \in Calls \ {c} : building'[d] = building[d] /\ pc'[d] = pc[d]
  PROVE  \A d \in Calls \ {c} : Building(d)'
BY ServesSame DEF IInv, Building, Fresh

LEMMA StepRegisterHandlers ==
  ASSUME IInv, NEW c \in Calls, RegisterHandlers(c)
  PROVE  IInv'
<1> USE DEF app, callVars, requestVars
<1>1. /\ phase = "ready" /\ pc[c] = "register"
      /\ building[c].done < Len(components)
      /\ building' = [building EXCEPT ![c] = Registered(c)]
      /\ UNCHANGED <<phase, components, providers, mux>>
      /\ UNCHANGED callVars /\ UNCHANGED requestVars
  BY DEF RegisterHandlers
<1>2. Types'
  BY <1>1 DEF IInv, Types
<1>3. building'[c] = Registered(c)
      /\ \A d \in Calls \ {c} : building'[d] = building[d] /\ pc'[d] = pc[d]
  BY <1>1 DEF IInv, Types
<1>4. Building(c)'
  <2>1. /\ Registered(c).done \in 0..Len(components)
        /\ Serves(Registered(c).routes, Registered(c).done)
    BY <1>1, ServesNext DEF IInv
  <2>2. PICK routes, n : /\ routes = Registered(c).routes
                         /\ n = Registered(c).done
                         /\ Serves(routes, n)'
    BY <1>1, <2>1, ServesSame
  <2>3. Serves(building[c].routes, building[c].done)'
    BY <1>3, <2>2 DEF Serves
  <2> QED BY <1>1, <1>3, <2>1, <2>3 DEF Building
<1>5. \A d \in Calls : Building(d)'
  BY <1>1, <1>3, <1>4, OthersBuild
<1>6. Untouched' /\ MuxServes' /\ ServesEverything'
  BY <1>1, ServesSame DEF IInv, Untouched, MuxServes, ServesEverything, PastMux
<1>7. CutOffOnlyLate' /\ \A d \in Calls : Stopping(d)'
  BY <1>1 DEF IInv, CutOffOnlyLate, Stopping, Active
<1> QED BY <1>2, <1>5, <1>6, <1>7 DEF IInv

LEMMA StepRegisterFails ==
  ASSUME IInv, NEW c \in Calls, RegisterFails(c)
  PROVE  IInv'
<1> USE DEF app, requestVars
<1>1. /\ phase = "ready" /\ pc[c] = "register"
      /\ building' = [building EXCEPT ![c] = Fresh]
      /\ pc' = [pc EXCEPT ![c] = "returned"]
      /\ UNCHANGED <<phase, components, providers, mux, listener, stopping,
                     goroutine>>
      /\ UNCHANGED requestVars
  BY DEF RegisterFails, Return
<1>2. Types'
  BY <1>1 DEF IInv, Types
<1>3. building'[c] = Fresh /\ pc'[c] = "returned"
      /\ \A d \in Calls \ {c} : building'[d] = building[d] /\ pc'[d] = pc[d]
  BY <1>1 DEF IInv, Types
<1>4. Building(c)'
  <2>1. Fresh.done = 0 /\ Fresh.routes = <<>> /\ Len(components)' \in Nat
    BY <1>1 DEF Fresh, IInv, Types
  <2>2. Serves(<<>>, 0)'
    BY DEF Serves, RoutesOfFirst
  <2> QED BY <1>3, <2>1, <2>2 DEF Building
<1>5. \A d \in Calls : Building(d)'
  BY <1>1, <1>3, <1>4, OthersBuild
<1>6. Untouched' /\ MuxServes'
  BY <1>1, ServesSame DEF IInv, Untouched, MuxServes
<1>7. ServesEverything'
  BY <1>1, <1>3, ServesSame DEF IInv, ServesEverything, PastMux
<1>8. CutOffOnlyLate' /\ \A d \in Calls : Stopping(d)'
  BY <1>1, <1>3, StoppingUntouched DEF IInv, Types
<1> QED BY <1>2, <1>5, <1>6, <1>7, <1>8 DEF IInv

\* All components are dealt with, so the mux serves them all.
LEMMA StepPublishMux ==
  ASSUME IInv, NEW c \in Calls, PublishMux(c)
  PROVE  IInv'
<1> USE DEF app, requestVars
<1>1. /\ phase = "ready" /\ pc[c] = "register"
      /\ building[c].done = Len(components)
      /\ mux' = building[c].routes
      /\ building' = [building EXCEPT ![c] = Fresh]
      /\ pc' = [pc EXCEPT ![c] = "listen"]
      /\ goroutine' = [goroutine EXCEPT ![c] = "waiting"]
      /\ UNCHANGED <<phase, components, providers, listener, stopping>>
      /\ UNCHANGED requestVars
  BY DEF PublishMux, Spawn
<1>2. Types'
  BY <1>1 DEF IInv, Types
<1>3. building'[c] = Fresh /\ pc'[c] = "listen" /\ goroutine'[c] = "waiting"
      /\ \A d \in Calls \ {c} : /\ building'[d] = building[d]
                                /\ pc'[d] = pc[d]
                                /\ goroutine'[d] = goroutine[d]
  BY <1>1 DEF IInv, Types
<1>4. Building(c)'
  <2>1. Fresh.done = 0 /\ Fresh.routes = <<>> /\ Len(components)' \in Nat
    BY <1>1 DEF Fresh, IInv, Types
  <2>2. Serves(<<>>, 0)'
    BY DEF Serves, RoutesOfFirst
  <2> QED BY <1>3, <2>1, <2>2 DEF Building
<1>5. \A d \in Calls : Building(d)'
  BY <1>1, <1>3, <1>4, OthersBuild
<1>6. Serves(mux, Len(components))'
  <2>1. PICK routes, n : /\ routes = building[c].routes
                         /\ n = building[c].done
                         /\ Serves(routes, n)'
    BY <1>1, ServesSame DEF IInv, Building
  <2> QED BY <1>1, <2>1 DEF Serves
<1>7. Untouched' /\ MuxServes' /\ ServesEverything'
  BY <1>1, <1>6 DEF Untouched, MuxServes, ServesEverything
<1>8. CutOffOnlyLate' /\ \A d \in Calls : Stopping(d)'
  BY <1>1, <1>3, StoppingUntouched DEF IInv, Types
<1> QED BY <1>2, <1>5, <1>7, <1>8 DEF IInv

-----------------------------------------------------------------------------
(* A call that serves, and its shutdown.                                       *)

LEMMA StepsOfServing ==
  ASSUME IInv, NEW c \in Calls, ServeStart(c) \/ ServeEnds(c) \/ AcceptFails(c)
  PROVE  IInv'
<1> USE DEF app, muxVars, requestVars
<1>1. /\ phase = "ready" /\ UNCHANGED <<phase, components, providers, mux, building,
                                        stopping, goroutine>>
      /\ UNCHANGED requestVars
      /\ pc[c] \in {"serve", "serving"}
  BY DEF ServeStart, ServeEnds, AcceptFails
<1>2. Types'
  BY DEF IInv, Types, ServeStart, ServeEnds, AcceptFails, Return
<1>3. /\ DOMAIN pc' = Calls /\ DOMAIN listener' = Calls
      /\ \A d \in Calls \ {c} : pc'[d] = pc[d] /\ listener'[d] = listener[d]
      /\ pc'[c] = "returned" \/ (pc'[c] = "serving" /\ ~stopping[c])
  BY DEF IInv, Types, ServeStart, ServeEnds, AcceptFails, Return
<1>4. CutOffOnlyLate' /\ \A d \in Calls : Active(d)' = Active(d)
  BY <1>1, <1>3, RequestsUntouched
<1>5. \A d \in Calls : Stopping(d)'
  BY <1>1, <1>3, <1>4 DEF IInv, Stopping
<1>6. /\ Untouched' /\ MuxServes' /\ ServesEverything'
      /\ \A d \in Calls : Building(d)'
  <2>1. \A d \in Calls : pc[d] = "register" => pc'[d] = "register"
    BY <1>1, <1>3
  <2>2. \A d \in Calls : PastMux(d)' => PastMux(d)
    BY <1>1, <1>3 DEF PastMux
  <2> QED BY <1>1, <2>1, <2>2, MuxUntouched
<1> QED BY <1>2, <1>4, <1>5, <1>6 DEF IInv

\* A step of the shutdown, or of a request, changes neither pc nor the muxes.
LEMMA PcUntouched ==
  ASSUME IInv, phase = "ready", phase' \in {"ready", "exited"},
         UNCHANGED <<components, providers, mux, building, pc>>
  PROVE  /\ Untouched' /\ MuxServes' /\ ServesEverything'
         /\ \A c \in Calls : Building(c)'
BY MuxUntouched DEF PastMux

LEMMA StepsOfShutdown ==
  ASSUME IInv, NEW c \in Calls,
         \/ Cancel(c) \/ ShutdownBegins(c) \/ Drained(c) \/ DrainTimesOut(c)
         \/ Close(c)
  PROVE  IInv'
<1> USE DEF app, muxVars, requestVars
<1>1. phase = "ready" /\ UNCHANGED <<phase, components, providers, mux, building, pc>>
  BY DEF Cancel, ShutdownBegins, Drained, DrainTimesOut, Close
<1>2. /\ Untouched' /\ MuxServes' /\ ServesEverything'
      /\ \A d \in Calls : Building(d)'
  BY <1>1, PcUntouched
<1>3. Types'
  <2>1. CASE Cancel(c)
    BY <2>1 DEF IInv, Types, Cancel
  <2>2. CASE ShutdownBegins(c)
    BY <2>2 DEF IInv, Types, ShutdownBegins
  <2>3. CASE Drained(c)
    BY <2>3 DEF IInv, Types, Drained
  <2>4. CASE DrainTimesOut(c)
    BY <2>4 DEF IInv, Types, DrainTimesOut
  <2>5. CASE Close(c)
    BY <2>5 DEF IInv, Types, Close, Cut
  <2> QED BY <2>1, <2>2, <2>3, <2>4, <2>5
<1>4. CutOffOnlyLate' /\ \A d \in Calls : Stopping(d)'
  <2>1. CASE Cancel(c)
    BY <2>1 DEF Cancel, IInv, CutOffOnlyLate, Stopping, Active
  <2>2. CASE ShutdownBegins(c)
    BY <2>2 DEF ShutdownBegins, IInv, Types, CutOffOnlyLate, Stopping, Active
  <2>3. CASE Drained(c)
    BY <2>3 DEF Drained, IInv, Types, CutOffOnlyLate, Stopping, Active
  <2>4. CASE DrainTimesOut(c)
    <3>1. /\ goroutine[c] = "draining" /\ goroutine' = [goroutine EXCEPT ![c] = "closing"]
          /\ timedOut' = [timedOut EXCEPT ![c] = TRUE]
          /\ UNCHANGED <<phase, pc, listener, stopping, state, servedBy>>
      BY <2>4 DEF DrainTimesOut
    <3>2. \A d \in Calls : timedOut[d] => timedOut'[d]
      BY <3>1 DEF IInv, Types
    <3>3. CutOffOnlyLate'
      BY <3>1, <3>2, NothingAssumption DEF IInv, Types, CutOffOnlyLate
    <3>4. \A d \in Calls : Stopping(d)'
      BY <3>1, <3>2 DEF IInv, Types, Stopping, Active
    <3> QED BY <3>3, <3>4
  <2>5. CASE Close(c)
    <3>1. /\ goroutine[c] = "closing" /\ goroutine' = [goroutine EXCEPT ![c] = "done"]
          /\ state' = [r \in Requests |-> IF r \in Active(c) THEN "cut" ELSE state[r]]
          /\ UNCHANGED <<phase, pc, listener, stopping, servedBy, timedOut>>
      BY <2>5 DEF Close, Cut
    <3>2. \A r \in Active(c) : servedBy[r] = c /\ timedOut[c]
      BY <3>1 DEF IInv, Stopping, Active
    <3>3. CutOffOnlyLate'
      BY <3>1, <3>2 DEF IInv, CutOffOnlyLate
    <3>4. \A d \in Calls : Active(d)' \subseteq Active(d)
      BY <3>1 DEF Active
    <3>5. \A d \in Calls : Stopping(d)'
      BY <3>1, <3>4 DEF IInv, Types, Stopping
    <3> QED BY <3>3, <3>5
  <2> QED BY <2>1, <2>2, <2>3, <2>4, <2>5
<1> QED BY <1>2, <1>3, <1>4 DEF IInv

-----------------------------------------------------------------------------
(* Requests, and the end of the process.                                       *)

\* A server takes a request only while its listener is open, so not while its
\* goroutine closes what is left.
LEMMA StepArrive ==
  ASSUME IInv, NEW c \in Calls, NEW r \in Requests, Arrive(r, c)
  PROVE  IInv'
<1> USE DEF app, muxVars, callVars
<1>1. /\ phase = "ready" /\ pc[c] = "serving" /\ listener[c] = "open"
      /\ state[r] = "none"
      /\ state' = [state EXCEPT ![r] = "active"]
      /\ servedBy' = [servedBy EXCEPT ![r] = c]
      /\ UNCHANGED <<phase, components, providers, mux, building, timedOut>>
      /\ UNCHANGED callVars
  BY DEF Arrive
<1>2. /\ Untouched' /\ MuxServes' /\ ServesEverything'
      /\ \A d \in Calls : Building(d)'
  BY <1>1, PcUntouched
<1>3. Types'
  BY <1>1 DEF IInv, Types
<1>4. CutOffOnlyLate'
  BY <1>1 DEF IInv, Types, CutOffOnlyLate
<1>5. ASSUME NEW d \in Calls
      PROVE  Stopping(d)'
  <2>1. CASE d = c
    BY <1>1, <2>1 DEF IInv, Stopping
  <2>2. CASE d # c
    <3>1. Active(d)' \subseteq Active(d)
      BY <1>1, <2>2 DEF IInv, Types, Active
    <3> QED BY <1>1, <3>1 DEF IInv, Stopping
  <2> QED BY <2>1, <2>2
<1> QED BY <1>2, <1>3, <1>4, <1>5 DEF IInv

LEMMA StepAnswer ==
  ASSUME IInv, NEW r \in Requests, Answer(r)
  PROVE  IInv'
<1> USE DEF app, muxVars, callVars
<1>1. /\ phase = "ready"
      /\ state' = [state EXCEPT ![r] = "none"]
      /\ servedBy' = [servedBy EXCEPT ![r] = Nobody]
      /\ UNCHANGED <<phase, components, providers, mux, building, timedOut>>
      /\ UNCHANGED callVars
  BY DEF Answer
<1>2. /\ Untouched' /\ MuxServes' /\ ServesEverything'
      /\ \A d \in Calls : Building(d)'
  BY <1>1, PcUntouched
<1>3. Types'
  BY <1>1 DEF IInv, Types
<1>4. CutOffOnlyLate'
  BY <1>1 DEF IInv, Types, CutOffOnlyLate
<1>5. \A d \in Calls : Active(d)' \subseteq Active(d)
  BY <1>1 DEF IInv, Types, Active
<1>6. \A d \in Calls : Stopping(d)'
  BY <1>1, <1>5 DEF IInv, Stopping
<1> QED BY <1>2, <1>3, <1>4, <1>6 DEF IInv

LEMMA StepExit ==
  ASSUME IInv, Exit
  PROVE  IInv'
<1> USE DEF muxVars, callVars
<1>1. /\ phase = "ready" /\ phase' = "exited" /\ \E c \in Calls : pc[c] = "returned"
      /\ state' = [r \in Requests |-> IF state[r] = "active" THEN "cut" ELSE state[r]]
      /\ UNCHANGED <<components, providers, mux, building, servedBy, timedOut>>
      /\ UNCHANGED callVars
  BY DEF Exit, Cut
<1>2. /\ Untouched' /\ MuxServes' /\ ServesEverything'
      /\ \A d \in Calls : Building(d)'
  BY <1>1, PcUntouched
<1>3. Types'
  BY <1>1 DEF IInv, Types
<1>4. CutOffOnlyLate'
  BY <1>1 DEF CutOffOnlyLate
<1>5. \A d \in Calls : Active(d)' \subseteq Active(d)
  BY <1>1 DEF Active
<1>6. \A d \in Calls : Stopping(d)'
  BY <1>1, <1>5 DEF IInv, Stopping
<1> QED BY <1>2, <1>3, <1>4, <1>6 DEF IInv

LEMMA StepStutters ==
  ASSUME IInv, UNCHANGED vars
  PROVE  IInv'
<1> USE DEF vars, app, muxVars, callVars, requestVars
<1>1. Types' /\ Untouched'
  BY DEF IInv, Types, Untouched
<1>2. MuxServes' /\ ServesEverything' /\ \A c \in Calls : Building(c)'
  BY ServesSame DEF IInv, MuxServes, ServesEverything, PastMux, Building, Fresh
<1>3. CutOffOnlyLate' /\ \A c \in Calls : Stopping(c)'
  BY DEF IInv, CutOffOnlyLate, Stopping, Active
<1> QED BY <1>1, <1>2, <1>3 DEF IInv

-----------------------------------------------------------------------------

LEMMA StepKeeps ==
  ASSUME IInv, [Next]_vars
  PROVE  IInv'
<1>1. CASE \/ \E env \in Environments : New(env)
           \/ NewFails
           \/ \E extension \in Extensions : AddComponents(extension)
  BY <1>1, StepsBefore
<1>2. ASSUME NEW c \in Calls, Run(c) \/ RunFails(c) \/ Step(c) \/ AcceptFails(c)
      PROVE  IInv'
  BY <1>2, StepsUpToListener, StepRegisterHandlers, StepRegisterFails,
     StepPublishMux, StepsOfServing DEF Step
<1>3. ASSUME NEW c \in Calls, Cancel(c) \/ ShutdownStep(c)
      PROVE  IInv'
  BY <1>3, StepsOfShutdown DEF ShutdownStep
<1>4. ASSUME NEW c \in Calls, NEW r \in Requests, Arrive(r, c)
      PROVE  IInv'
  BY <1>4, StepArrive
<1>5. ASSUME NEW r \in Requests, Answer(r)
      PROVE  IInv'
  BY <1>5, StepAnswer
<1>6. CASE Exit
  BY <1>6, StepExit
<1>7. CASE UNCHANGED vars
  BY <1>7, StepStutters
<1> QED BY <1>1, <1>2, <1>3, <1>4, <1>5, <1>6, <1>7 DEF Next

\* The inductive invariant holds in every reachable state.
THEOREM Inductive == Spec => []IInv
BY Initially, StepKeeps, PTL DEF Spec

\* Whoever is served is served by all the components of the app, each behind
\* every filter of the app (ensureMux, components.Server.ServeHTTP).
THEOREM ServedByAll == Spec => []ServesEverything
<1>1. IInv => ServesEverything
  BY DEF IInv
<1> QED BY <1>1, Inductive, PTL

\* A shutdown lets the requests it finds finish (the goroutine of
\* ListenAndServe).
THEOREM CutOff == Spec => []CutOffOnlyLate
<1>1. IInv => CutOffOnlyLate
  BY DEF IInv
<1> QED BY <1>1, Inductive, PTL
=============================================================================
