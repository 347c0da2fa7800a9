------------------------------- MODULE Sessions -------------------------------
(* components/sessions and components/cookies: the filter that loads a        *)
(* session before the handler and stores it afterwards, its two storages, and *)
(* the browsers that carry the session id in a cookie.  A browser may have    *)
(* several requests in flight; each works on a snapshot of its own.           *)
(*                                                                            *)
(* What the handler leaves in the session is left open (HandlerReturns); the  *)
(* SSO module fills it in.                                                    *)
EXTENDS Naturals

CONSTANTS
  Browsers,
  Requests,     \* Slots for requests in flight.
  Home,         \* The browser of each slot.
  SIDs,         \* Session ids; GenerateSessionID never draws one twice.
  NoSID,
  Values,       \* What a session can hold.
  Empty,        \* What a new session holds.
  Unknown,      \* Not a value.
  MaxWrites     \* Bound, per storage: writes to one session.

ASSUME HomeAssumption == Home \in [Requests -> Browsers]
ASSUME SIDAssumption == NoSID \notin SIDs
ASSUME ValuesAssumption == Empty \in Values /\ Unknown \notin Values

\* kubesessionstorage and memorysessionstorage.
Backends == {"kube", "memory"}

ASSUME BoundAssumption == MaxWrites \in [Backends -> Nat]

VARIABLES
  backend,  \* The storage the server was built with.
  store,    \* Per session id: whether it is there, its version, what it holds.
  jar,      \* Per browser: the session cookie.
  pc,       \* Per request: where it is.
  sess,     \* Per request: its Session object.
  cookie,   \* Per request: the id in its Cookie, later its Set-Cookie, header.
  base,     \* Per request: the version WriteSession read before its update.
  clean,    \* Per request: no other request of the browser overlapped it.
  known     \* Per browser: what it may rely on its session to hold.

sessionVars == <<backend, store, jar, pc, sess, cookie, base, clean, known>>

\* "ok" and "error" are requests whose response is on its way.
InFlight(r) == pc[r] # "idle"

NewSession == [id |-> NoSID, new |-> TRUE, dirty |-> FALSE, val |-> Empty]

Version(s) == store[s].version

SessionsInit ==
  /\ backend \in Backends
  /\ store = [s \in SIDs |-> [present |-> FALSE, version |-> 0, val |-> Empty]]
  /\ jar = [b \in Browsers |-> NoSID]
  /\ pc = [r \in Requests |-> "idle"]
  /\ sess = [r \in Requests |-> NewSession]
  /\ cookie = [r \in Requests |-> NoSID]
  /\ base = [r \in Requests |-> 0]
  /\ clean = [r \in Requests |-> TRUE]
  /\ known = [b \in Browsers |-> Empty]

Goto(r, l) == pc' = [pc EXCEPT ![r] = l]

\* The other requests the browser of r has in flight.
Overlapping(r) == {q \in Requests \ {r} : Home[q] = Home[r] /\ InFlight(q)}

-----------------------------------------------------------------------------
(* The filter, up to the handler.                                             *)

Send(r) ==
  /\ ~InFlight(r)
  /\ Goto(r, "lookup")
  /\ cookie' = [cookie EXCEPT ![r] = jar[Home[r]]]
  /\ clean' = [q \in Requests |->
                 IF q = r THEN Overlapping(r) = {}
                 ELSE clean[q] /\ q \notin Overlapping(r)]
  /\ known' = [known EXCEPT ![Home[r]] = IF Overlapping(r) = {} THEN @ ELSE Unknown]
  /\ UNCHANGED <<store, jar, sess, base>>

\* beforeRequest: the session named by the cookie, or a new one.
Lookup(r) ==
  /\ pc[r] = "lookup"
  /\ LET s == cookie[r]
     IN  sess' = [sess EXCEPT ![r] =
                    IF s \in SIDs /\ store[s].present
                    THEN [id |-> s, new |-> FALSE, dirty |-> FALSE, val |-> store[s].val]
                    ELSE NewSession]
  /\ cookie' = [cookie EXCEPT ![r] = NoSID]
  /\ Goto(r, "handler")
  /\ UNCHANGED <<store, jar, base, clean, known>>

\* An error anywhere answers 500, without the cookies set so far.
Fail(r) ==
  /\ Goto(r, "error")
  /\ cookie' = [cookie EXCEPT ![r] = NoSID]
  /\ sess' = [sess EXCEPT ![r] = NewSession]
  /\ base' = [base EXCEPT ![r] = 0]
  /\ UNCHANGED <<store, jar, clean, known>>

LookupFails(r) == pc[r] = "lookup" /\ Fail(r)

HandlerFails(r) == pc[r] = "handler" /\ Fail(r)

\* Mutant of Returns: only a new session is stored.
ReturnsUnsaved(r, val, touched) ==
  LET dirty == touched \/ val # sess[r].val
  IN  /\ sess' = [sess EXCEPT ![r].val = val, ![r].dirty = dirty]
      /\ Goto(r, IF sess[r].new /\ dirty THEN "write" ELSE "ok")
      /\ UNCHANGED <<store, jar, cookie, base, clean, known>>

\* The handler ends without an error, with val in the session: touched if it set
\* something, be it what was there (Session.Set, Session.Clear).
Returns(r, val, touched) ==
  LET dirty == touched \/ val # sess[r].val
  IN  /\ sess' = [sess EXCEPT ![r].val = val, ![r].dirty = dirty]
      /\ Goto(r, IF dirty THEN "write" ELSE "ok")
      /\ UNCHANGED <<store, jar, cookie, base, clean, known>>

HandlerReturns(r) ==
  /\ pc[r] = "handler"
  /\ \E val \in Values, touched \in BOOLEAN : Returns(r, val, touched)

-----------------------------------------------------------------------------
(* WriteSession.                                                              *)

Put(s, val) ==
  /\ Version(s) < MaxWrites[backend]
  /\ store' = [store EXCEPT ![s] = [present |-> TRUE, version |-> @.version + 1, val |-> val]]

\* The session is stored and the filter goes on, or (kube) the reply was lost.
Written(r, s) ==
  /\ base' = [base EXCEPT ![r] = 0]
  /\ \/ /\ Goto(r, "ok")
        /\ sess' = [sess EXCEPT ![r].id = s]
        /\ cookie' = [cookie EXCEPT ![r] = IF sess[r].new THEN s ELSE NoSID]
     \/ /\ backend = "kube"
        /\ Goto(r, "error")
        /\ sess' = [sess EXCEPT ![r] = NewSession]
        /\ cookie' = [cookie EXCEPT ![r] = NoSID]
  /\ UNCHANGED <<jar, clean, known>>

\* Mutants of CreateSession: an id that is in use, and an id given out for
\* a session that is not stored.
CreateSessionAnywhere(r) ==
  /\ pc[r] = "write" /\ sess[r].id = NoSID
  /\ \E s \in SIDs : Put(s, sess[r].val) /\ Written(r, s)
CreateSessionUnstored(r) ==
  /\ pc[r] = "write" /\ sess[r].id = NoSID
  /\ \E s \in SIDs : Version(s) = 0 /\ Written(r, s)
  /\ UNCHANGED store

\* A new session is stored under a fresh id.
CreateSession(r) ==
  /\ pc[r] = "write" /\ sess[r].id = NoSID
  /\ \E s \in SIDs :
       /\ Version(s) = 0
       /\ Put(s, sess[r].val)
       /\ Written(r, s)

\* memorysessionstorage: the snapshot replaces whatever is there.
PutSession(r) ==
  /\ backend = "memory"
  /\ pc[r] = "write" /\ sess[r].id # NoSID
  /\ Put(sess[r].id, sess[r].val)
  /\ Written(r, sess[r].id)

\* kubesessionstorage reads the object again ...
ReadForUpdate(r) ==
  /\ backend = "kube"
  /\ pc[r] = "write" /\ sess[r].id # NoSID
  /\ store[sess[r].id].present
  /\ base' = [base EXCEPT ![r] = Version(sess[r].id)]
  /\ Goto(r, "update")
  /\ UNCHANGED <<store, jar, sess, cookie, clean, known>>

\* ... and updates the version it has just read, with the snapshot.
UpdateSession(r) ==
  /\ pc[r] = "update"
  /\ store[sess[r].id].present /\ Version(sess[r].id) = base[r]
  /\ Put(sess[r].id, sess[r].val)
  /\ Written(r, sess[r].id)

\* Not found, a conflict, or the storage cannot be reached.
WriteFails(r) ==
  /\ backend = "kube"
  /\ pc[r] \in {"write", "update"}
  /\ Fail(r)

-----------------------------------------------------------------------------
(* The browser and the storage's administrator.                               *)

\* What is left of requests that are over.
Finish(R) ==
  /\ pc' = [r \in Requests |-> IF r \in R THEN "idle" ELSE pc[r]]
  /\ sess' = [r \in Requests |-> IF r \in R THEN NewSession ELSE sess[r]]
  /\ cookie' = [r \in Requests |-> IF r \in R THEN NoSID ELSE cookie[r]]
  /\ base' = [r \in Requests |-> IF r \in R THEN 0 ELSE base[r]]

Deliver(r) ==
  /\ pc[r] \in {"ok", "error"}
  /\ jar' = [jar EXCEPT ![Home[r]] = IF cookie[r] = NoSID THEN @ ELSE cookie[r]]
  /\ known' = [known EXCEPT ![Home[r]] =
                 IF pc[r] = "ok" /\ clean[r] THEN sess[r].val ELSE Unknown]
  /\ Finish({r})
  /\ clean' = [clean EXCEPT ![r] = TRUE]
  /\ UNCHANGED store

\* The browser gives up on a request: the handler runs to its end, and nobody
\* reads the response.
ResponseLost(r) ==
  /\ pc[r] \in {"ok", "error"}
  /\ known' = [known EXCEPT ![Home[r]] = Unknown]
  /\ Finish({r})
  /\ clean' = [clean EXCEPT ![r] = TRUE]
  /\ UNCHANGED <<store, jar>>

\* When the sessions S vanish, their browsers can rely on nothing, nor can those
\* with a request on its way.
Vanish(S) ==
  known' = [b \in Browsers |->
              IF jar[b] \in S \/ \E r \in Requests : Home[r] = b /\ InFlight(r)
              THEN Unknown ELSE known[b]]

\* Nothing in the program deletes a session object; an administrator may.
Purge(s) ==
  /\ backend = "kube"
  /\ store[s].present
  /\ store' = [store EXCEPT ![s].present = FALSE]
  /\ Vanish({s})
  /\ clean' = [r \in Requests |-> clean[r] /\ ~InFlight(r)]
  /\ UNCHANGED <<jar, pc, sess, cookie, base>>

\* The process restarts: its requests end where they are, and with them the
\* sessions it kept in memory.
Restart ==
  /\ \E r \in Requests : InFlight(r)
  /\ store' = IF backend = "memory" THEN [s \in SIDs |-> [store[s] EXCEPT !.present = FALSE]]
              ELSE store
  /\ Vanish(IF backend = "memory" THEN SIDs ELSE {})
  /\ Finish(Requests)
  /\ clean' = [r \in Requests |-> TRUE]
  /\ UNCHANGED jar

-----------------------------------------------------------------------------

\* The steps of a request the SSO module takes as they are.
StorageStep(r) ==
  \/ CreateSession(r) \/ PutSession(r) \/ ReadForUpdate(r) \/ UpdateSession(r)
  \/ WriteFails(r)

SessionsNext ==
  /\ UNCHANGED backend
  /\ \/ \E r \in Requests :
          \/ Send(r) \/ Lookup(r) \/ LookupFails(r)
          \/ HandlerReturns(r) \/ HandlerFails(r)
          \/ StorageStep(r)
          \/ Deliver(r) \/ ResponseLost(r)
     \/ \E s \in SIDs : Purge(s)
     \/ Restart

SessionsSpec == SessionsInit /\ [][SessionsNext]_sessionVars

-----------------------------------------------------------------------------

\* A browser is in a session: by its cookie, by a request that works on it, or
\* by a response on its way.
Holds(b, s) ==
  \/ jar[b] = s
  \/ \E r \in Requests : Home[r] = b /\ s \in {sess[r].id, cookie[r]}

\* No two browsers are ever in one session (beforeRequest, WriteSession).
OneBrowserPerSession ==
  \A b, c \in Browsers, s \in SIDs : Holds(b, s) /\ Holds(c, s) => b = c

\* A browser is only ever given the id of a session that was stored: neither
\* the cookie nor the header names one that a failed or lost write left unstored
\* (ProcessRequest sets the cookie after WriteSession).
OnlyStoredSessions ==
  /\ \A b \in Browsers : jar[b] # NoSID => Version(jar[b]) > 0
  /\ \A r \in Requests : cookie[r] # NoSID => Version(cookie[r]) > 0

\* A browser that waits for each answer before it sends the next request finds
\* in its session what its last answered request left there (beforeRequest and
\* WriteSession, over either storage).
ReadsItsWrites ==
  \A r \in Requests :
    (pc[r] = "lookup" /\ pc'[r] = "handler" /\ known[Home[r]] # Unknown)
    => sess'[r].val = known[Home[r]]

ReadsOwnWrites == [][ReadsItsWrites]_sessionVars

-----------------------------------------------------------------------------
(* Why the three hold: what is proved in SSOProofs.                           *)

SessionsTypes ==
  /\ backend \in Backends
  /\ store \in [SIDs -> [present : BOOLEAN, version : Nat, val : Values]]
  /\ jar \in [Browsers -> SIDs \cup {NoSID}]
  /\ pc \in [Requests -> {"idle", "lookup", "handler", "write", "update",
                          "ok", "error"}]
  /\ sess \in [Requests -> [id : SIDs \cup {NoSID}, new : BOOLEAN,
                            dirty : BOOLEAN, val : Values]]
  /\ cookie \in [Requests -> SIDs \cup {NoSID}]
  /\ base \in [Requests -> Nat]
  /\ clean \in [Requests -> BOOLEAN]
  /\ known \in [Browsers -> Values \cup {Unknown}]

\* What a request with this cookie would find.
Found(s) == IF s \in SIDs /\ store[s].present THEN store[s].val ELSE Empty

\* Every session that is held was stored once, so that a fresh id is nobody's.
HeldWereStored ==
  \A s \in SIDs : Version(s) = 0 => \A b \in Browsers : ~Holds(b, s)

\* The Session object of a request that has not been answered.
Formed(r) ==
  /\ pc[r] \in {"handler", "write", "update"} =>
       cookie[r] = NoSID /\ (sess[r].new <=> sess[r].id = NoSID)
  /\ pc[r] = "handler" => ~sess[r].dirty
  /\ pc[r] = "update" => sess[r].id # NoSID

\* A request works on the session its browser has, and leaves there what it
\* answers with.
InItsSession(r) ==
  /\ pc[r] = "lookup" => cookie[r] = jar[Home[r]]
  /\ pc[r] \in {"handler", "write", "update"} =>
       sess[r].id \in {NoSID, jar[Home[r]]}
  /\ pc[r] = "handler" => Found(jar[Home[r]]) = sess[r].val
  /\ pc[r] = "ok" =>
       Found(IF cookie[r] = NoSID THEN jar[Home[r]] ELSE cookie[r]) = sess[r].val

\* So does every request that no other of its browser overlapped.
WorksAlone(r) ==
  InFlight(r) /\ clean[r] => Overlapping(r) = {} /\ InItsSession(r)

\* What a browser may rely on is in its session until a request of its changes
\* it, and that request is alone.
Relied(b) ==
  known[b] # Unknown =>
    /\ \A r \in Requests : Home[r] = b /\ InFlight(r) => clean[r]
    /\ (\A r \in Requests : Home[r] = b => pc[r] \in {"idle", "lookup"}) =>
         Found(jar[b]) = known[b]

SessionsInv ==
  /\ SessionsTypes /\ OneBrowserPerSession /\ HeldWereStored
  /\ \A r \in Requests : Formed(r) /\ WorksAlone(r)
  /\ \A b \in Browsers : Relied(b)
=============================================================================
