------------------------------- MODULE SSOProofs -------------------------------
(* Proofs about Sessions and about SSO, which extends it.  The first part is    *)
(* about sessions alone: for any browsers, requests, session ids and values,    *)
(* over either storage, and from the assumptions of Sessions only.  The second  *)
(* is about the SSO application, for any users and logins; that its sessions    *)
(* keep the invariant of Sessions is taken from the first, step by step.        *)
EXTENDS SSO, TLAPS


LEMMA SessionsInitially == SessionsInit => SessionsInv
<1> SUFFICES ASSUME SessionsInit PROVE SessionsInv
  OBVIOUS
<1> USE DEF SessionsInit, NewSession
<1>1. SessionsTypes
  BY ValuesAssumption DEF SessionsTypes
<1>2. \A b \in Browsers, s \in SIDs : ~Holds(b, s)
  BY SIDAssumption, HomeAssumption DEF Holds
<1>3. \A r \in Requests : Formed(r) /\ WorksAlone(r)
  BY DEF Formed, WorksAlone, InFlight
<1>4. \A b \in Browsers : Relied(b)
  BY SIDAssumption DEF Relied, InFlight, Found
<1> QED BY <1>1, <1>2, <1>3, <1>4
        DEF SessionsInv, OneBrowserPerSession, HeldWereStored

-----------------------------------------------------------------------------
(* A step of one request, as the others see it.                                *)

\* Nothing changes but what belongs to a request and its browser, and perhaps
\* what is stored under s.
Elsewhere(r, s) ==
  /\ \A q \in Requests \ {r} : /\ pc'[q] = pc[q] /\ sess'[q] = sess[q]
                               /\ cookie'[q] = cookie[q] /\ clean'[q] = clean[q]
  /\ \A b \in Browsers \ {Home[r]} : jar'[b] = jar[b] /\ known'[b] = known[b]
  /\ \A t \in SIDs \ {s} : store'[t] = store[t]

\* The request may store something under s: the id is fresh, or its browser's.
MayStore(r, s) == s \in SIDs => Version(s) = 0 \/ Holds(Home[r], s)

\* Nobody else has what is stored there.
LEMMA NobodyElses ==
  ASSUME SessionsInv, NEW r \in Requests, NEW s, MayStore(r, s),
         NEW b \in Browsers \ {Home[r]}, s \in SIDs
  PROVE  ~Holds(b, s)
  BY HomeAssumption
  DEF MayStore, SessionsInv, HeldWereStored, OneBrowserPerSession

\* What a browser would find stays, if it is not in the session that is stored.
LEMMA FoundKept ==
  ASSUME NEW s, NEW t, \A u \in SIDs \ {s} : store'[u] = store[u],
         t \in SIDs => t # s
  PROVE  Found(t)' = Found(t)
  BY DEF Found

LEMMA OthersWorkAlone ==
  ASSUME SessionsInv, NEW r \in Requests, InFlight(r), NEW s, MayStore(r, s),
         Elsewhere(r, s), NEW q \in Requests \ {r}
  PROVE  Formed(q)' /\ WorksAlone(q)'
<1>1. /\ pc'[q] = pc[q] /\ sess'[q] = sess[q] /\ cookie'[q] = cookie[q]
      /\ clean'[q] = clean[q]
  BY DEF Elsewhere
<1>2. Formed(q) /\ WorksAlone(q) /\ SessionsTypes
  BY DEF SessionsInv
<1>3. Formed(q)'
  BY <1>1, <1>2 DEF Formed
<1>4. InFlight(q)' <=> InFlight(q)
  BY <1>1 DEF InFlight
<1>5. SUFFICES ASSUME InFlight(q), clean[q] PROVE WorksAlone(q)'
  BY <1>1, <1>3, <1>4 DEF WorksAlone
<1>6. Home[q] # Home[r] /\ Overlapping(q) = {}
  BY <1>2, <1>5 DEF WorksAlone, Overlapping
<1>7. Overlapping(q)' = {}
  <2>1. ASSUME NEW p \in Requests \ {q}, Home[p] = Home[q], InFlight(p)'
        PROVE  FALSE
    <3>1. p # r
      BY <1>6, <2>1
    <3>2. InFlight(p)
      BY <2>1, <3>1 DEF InFlight, Elsewhere
    <3> QED BY <1>6, <2>1, <3>2 DEF Overlapping
  <2> QED BY <2>1 DEF Overlapping
<1>8. Home[q] \in Browsers \ {Home[r]}
  BY <1>6, HomeAssumption
<1>9. jar'[Home[q]] = jar[Home[q]]
  BY <1>8 DEF Elsewhere
<1>10. PICK j, c : j = jar[Home[q]] /\ c = cookie[q]
  OBVIOUS
<1>11. (j \in SIDs => j # s) /\ (c \in SIDs => c # s)
  <2>1. Holds(Home[q], j) /\ Holds(Home[q], c)
    BY <1>10 DEF Holds
  <2> QED BY <1>8, <2>1, NobodyElses
<1>12. \A u \in SIDs \ {s} : store'[u] = store[u]
  BY DEF Elsewhere
<1>13. Found(j)' = Found(j) /\ Found(c)' = Found(c)
  BY <1>11, <1>12, FoundKept
<1>14. /\ Found(jar[Home[q]])' = Found(jar[Home[q]])
       /\ Found(IF cookie[q] = NoSID THEN jar[Home[q]] ELSE cookie[q])'
            = Found(IF cookie[q] = NoSID THEN jar[Home[q]] ELSE cookie[q])
  BY <1>1, <1>9, <1>10, <1>13 DEF Found
<1> QED BY <1>1, <1>2, <1>5, <1>7, <1>9, <1>14 DEF WorksAlone, InItsSession

LEMMA OthersRely ==
  ASSUME SessionsInv, NEW r \in Requests, NEW s, MayStore(r, s),
         Elsewhere(r, s), NEW b \in Browsers \ {Home[r]}
  PROVE  Relied(b)'
<1>1. jar'[b] = jar[b] /\ known'[b] = known[b]
  BY DEF Elsewhere
<1>2. \A q \in Requests : Home[q] = b => pc'[q] = pc[q] /\ clean'[q] = clean[q]
  BY DEF Elsewhere
<1>3. \A q \in Requests : Home[q] = b => (InFlight(q)' <=> InFlight(q))
  BY <1>2 DEF InFlight
<1>4. Relied(b)
  BY DEF SessionsInv
<1>5. PICK j : j = jar[b]
  OBVIOUS
<1>6. j \in SIDs => j # s
  <2>1. Holds(b, j)
    BY <1>5 DEF Holds
  <2> QED BY <2>1, NobodyElses
<1>7. Found(j)' = Found(j)
  <2>1. \A u \in SIDs \ {s} : store'[u] = store[u]
    BY DEF Elsewhere
  <2> QED BY <1>6, <2>1, FoundKept
<1>8. Found(jar[b])' = Found(jar[b])
  BY <1>1, <1>5, <1>7 DEF Found
<1> QED BY <1>1, <1>2, <1>3, <1>4, <1>8 DEF Relied

\* Who may be in a session after a step of a request.
LEMMA StillOneBrowser ==
  ASSUME SessionsInv, NEW r \in Requests, NEW s, MayStore(r, s),
         \A b \in Browsers :
           \/ jar'[b] = jar[b]
           \/ \E q \in Requests : Home[q] = b /\ jar'[b] = cookie[q],
         \A q \in Requests :
           /\ \/ sess'[q].id \in {NoSID, sess[q].id, cookie[q]}
              \/ q = r /\ sess'[q].id = s
           /\ \/ cookie'[q] \in {NoSID, cookie[q], jar[Home[q]]}
              \/ q = r /\ cookie'[q] = s,
         \A t \in SIDs : Version(t)' = 0 => Version(t) = 0,
         s \in SIDs => Version(s)' # 0
  PROVE  OneBrowserPerSession' /\ HeldWereStored'
<1>1. ASSUME NEW b \in Browsers, NEW t \in SIDs, Holds(b, t)'
      PROVE  Holds(b, t) \/ (b = Home[r] /\ t = s)
  <2>1. CASE jar'[b] = t
    BY <2>1 DEF Holds
  <2>2. ASSUME NEW q \in Requests, Home[q] = b, t \in {sess'[q].id, cookie'[q]}
        PROVE  Holds(b, t) \/ (b = Home[r] /\ t = s)
    BY <2>2, SIDAssumption DEF Holds
  <2> QED BY <1>1, <2>1, <2>2 DEF Holds
<1>2. ASSUME NEW b \in Browsers, Holds(b, s), s \in SIDs PROVE b = Home[r]
  BY <1>2, NobodyElses
<1>3. OneBrowserPerSession
  BY DEF SessionsInv
<1>4. OneBrowserPerSession'
  <2>1. ASSUME NEW b \in Browsers, NEW c \in Browsers, NEW t \in SIDs,
               Holds(b, t)', Holds(c, t)'
        PROVE  b = c
    BY <1>1, <1>2, <1>3, <2>1 DEF OneBrowserPerSession
  <2> QED BY <2>1 DEF OneBrowserPerSession
<1>5. HeldWereStored'
  <2>1. ASSUME NEW t \in SIDs, Version(t)' = 0, NEW b \in Browsers, Holds(b, t)'
        PROVE  FALSE
    <3>1. t # s /\ Version(t) = 0
      BY <2>1
    <3>2. Holds(b, t)
      BY <1>1, <2>1, <3>1
    <3> QED BY <3>1, <3>2 DEF SessionsInv, HeldWereStored
  <2> QED BY <2>1 DEF HeldWereStored
<1> QED BY <1>4, <1>5

\* A step of a request between its lookup and its answer keeps the invariant, if
\* it does so for the request itself.
LEMMA RequestStep ==
  ASSUME SessionsInv, SessionsTypes', NEW r \in Requests, InFlight(r),
         pc'[r] \notin {"idle", "lookup"},
         NEW s, MayStore(r, s), Elsewhere(r, s),
         jar' = jar, known' = known, clean' = clean,
         sess'[r].id \in {NoSID, sess[r].id, cookie[r], s},
         cookie'[r] \in {NoSID, cookie[r], s},
         s \in SIDs => Version(s)' # 0,
         Formed(r)',
         clean[r] /\ InItsSession(r) => InItsSession(r)'
  PROVE  SessionsInv'
<1>0. SessionsTypes /\ \A q \in Requests : Formed(q) /\ WorksAlone(q)
  BY DEF SessionsInv
<1>1. \A q \in Requests \ {r} : /\ pc'[q] = pc[q] /\ sess'[q] = sess[q]
                                /\ cookie'[q] = cookie[q]
  BY DEF Elsewhere
<1>2. OneBrowserPerSession' /\ HeldWereStored'
  <2>1. \A t \in SIDs : Version(t)' = 0 => Version(t) = 0
    BY DEF Elsewhere, Version
  <2>2. \A q \in Requests :
          /\ \/ sess'[q].id \in {NoSID, sess[q].id, cookie[q]}
             \/ q = r /\ sess'[q].id = s
          /\ \/ cookie'[q] \in {NoSID, cookie[q], jar[Home[q]]}
             \/ q = r /\ cookie'[q] = s
    BY <1>1
  <2>3. \A b \in Browsers :
          \/ jar'[b] = jar[b]
          \/ \E q \in Requests : Home[q] = b /\ jar'[b] = cookie[q]
    OBVIOUS
  <2> QED BY <2>1, <2>2, <2>3, StillOneBrowser
<1>3. \A q \in Requests \ {r} : Formed(q)' /\ WorksAlone(q)'
  BY OthersWorkAlone
<1>4. WorksAlone(r)'
  <2>1. SUFFICES ASSUME clean[r] PROVE Overlapping(r)' = {} /\ InItsSession(r)'
    BY DEF WorksAlone
  <2>2. Overlapping(r) = {} /\ InItsSession(r)
    BY <1>0, <2>1 DEF WorksAlone
  <2>3. \A q \in Requests \ {r} : InFlight(q)' <=> InFlight(q)
    BY <1>1 DEF InFlight
  <2>4. Overlapping(r)' = {}
    BY <2>2, <2>3 DEF Overlapping
  <2> QED BY <2>1, <2>2, <2>4
<1>5. \A b \in Browsers \ {Home[r]} : Relied(b)'
  BY OthersRely
<1>6. Relied(Home[r])'
  <2>1. Relied(Home[r])
    BY HomeAssumption DEF SessionsInv
  <2>2. \A q \in Requests : InFlight(q)' => InFlight(q)
    BY <1>1 DEF InFlight
  <2> QED BY <2>1, <2>2 DEF Relied
<1> QED BY <1>2, <1>3, <1>4, <1>5, <1>6 DEF SessionsInv

-----------------------------------------------------------------------------
(* The steps of a request.                                                     *)

\* A step that stores nothing.
LEMMA Stores ==
  ASSUME SessionsTypes, NEW r \in Requests, store' = store, jar' = jar,
         known' = known, clean' = clean,
         NEW l, pc' = [pc EXCEPT ![r] = l],
         NEW S, sess' = [sess EXCEPT ![r] = S],
         NEW c, cookie' = [cookie EXCEPT ![r] = c]
  PROVE  /\ pc'[r] = l /\ sess'[r] = S /\ cookie'[r] = c
         /\ Elsewhere(r, NoSID) /\ MayStore(r, NoSID)
  BY SIDAssumption DEF SessionsTypes, Elsewhere, MayStore

LEMMA LookupKeeps ==
  ASSUME SessionsInv, NEW r \in Requests, Lookup(r), UNCHANGED backend
  PROVE  SessionsInv'
<1>0. SessionsTypes /\ pc[r] = "lookup"
  BY DEF SessionsInv, Lookup
<1> DEFINE s == cookie[r]
           S == IF s \in SIDs /\ store[s].present
                THEN [id |-> s, new |-> FALSE, dirty |-> FALSE,
                      val |-> store[s].val]
                ELSE NewSession
<1>1. /\ pc' = [pc EXCEPT ![r] = "handler"] /\ sess' = [sess EXCEPT ![r] = S]
      /\ cookie' = [cookie EXCEPT ![r] = NoSID] /\ store' = store
      /\ jar' = jar /\ base' = base /\ clean' = clean /\ known' = known
  BY DEF Lookup, Goto
<1>2. /\ S \in [id : SIDs \cup {NoSID}, new : BOOLEAN, dirty : BOOLEAN,
                val : Values]
      /\ S.id \in {NoSID, s} /\ (S.new <=> S.id = NoSID)
      /\ S.val = Found(s) /\ ~S.dirty
  BY <1>0, ValuesAssumption, SIDAssumption DEF SessionsTypes, NewSession, Found
<1> HIDE DEF S
<1>3. /\ pc'[r] = "handler" /\ sess'[r] = S /\ cookie'[r] = NoSID
      /\ Elsewhere(r, NoSID) /\ MayStore(r, NoSID)
  BY <1>0, <1>1, Stores
<1>4. SessionsTypes'
  BY <1>0, <1>1, <1>2 DEF SessionsTypes
<1>5. Formed(r)'
  BY <1>2, <1>3 DEF Formed
<1>6. InItsSession(r) => InItsSession(r)'
  <2>1. \A t : Found(t)' = Found(t)
    BY <1>1 DEF Found
  <2>2. SUFFICES ASSUME InItsSession(r) PROVE InItsSession(r)'
    OBVIOUS
  <2>3. PICK j : j = jar[Home[r]]
    OBVIOUS
  <2>4. s = j
    BY <1>0, <2>2, <2>3 DEF InItsSession
  <2>5. Found(jar[Home[r]])' = Found(j)
    BY <1>1, <2>1, <2>3 DEF Found
  <2> QED BY <1>1, <1>2, <1>3, <2>3, <2>4, <2>5 DEF InItsSession
<1> QED BY <1>0, <1>1, <1>2, <1>3, <1>4, <1>5, <1>6, SIDAssumption, RequestStep
        DEF InFlight

\* Fail, wherever it happens.
LEMMA FailKeeps ==
  ASSUME SessionsInv, NEW r \in Requests, InFlight(r), Fail(r), UNCHANGED backend
  PROVE  SessionsInv'
<1>0. SessionsTypes
  BY DEF SessionsInv
<1>1. /\ pc' = [pc EXCEPT ![r] = "error"]
      /\ sess' = [sess EXCEPT ![r] = NewSession]
      /\ cookie' = [cookie EXCEPT ![r] = NoSID]
      /\ base' = [base EXCEPT ![r] = 0]
      /\ store' = store /\ jar' = jar /\ clean' = clean /\ known' = known
  BY DEF Fail, Goto
<1>2. /\ pc'[r] = "error" /\ sess'[r] = NewSession /\ cookie'[r] = NoSID
      /\ Elsewhere(r, NoSID) /\ MayStore(r, NoSID)
  BY <1>0, <1>1, Stores
<1>3. SessionsTypes'
  BY <1>0, <1>1, ValuesAssumption DEF SessionsTypes, NewSession
<1>4. Formed(r)' /\ InItsSession(r)'
  BY <1>2 DEF Formed, InItsSession
<1>5. sess'[r].id = NoSID
  BY <1>2 DEF NewSession
<1> QED BY <1>1, <1>2, <1>3, <1>4, <1>5, SIDAssumption, RequestStep

\* The handler returns: a change makes the session dirty.
LEMMA ReturnsKeeps ==
  ASSUME SessionsInv, NEW r \in Requests, pc[r] = "handler", UNCHANGED backend,
         NEW val \in Values, NEW touched \in BOOLEAN, Returns(r, val, touched)
  PROVE  SessionsInv'
<1>0. SessionsTypes /\ Formed(r)
  BY DEF SessionsInv
<1>d. PICK dirty \in BOOLEAN, l \in {"write", "ok"} :
        /\ val # sess[r].val => dirty
        /\ sess' = [sess EXCEPT ![r].val = val, ![r].dirty = dirty]
        /\ l = "ok" => ~dirty
        /\ pc' = [pc EXCEPT ![r] = l]
        /\ UNCHANGED <<backend, store, jar, cookie, base, clean, known>>
  <2> DEFINE dirty == touched \/ val # sess[r].val
             l == IF dirty THEN "write" ELSE "ok"
  <2>1. /\ sess' = [sess EXCEPT ![r].val = val, ![r].dirty = dirty]
        /\ pc' = [pc EXCEPT ![r] = l]
        /\ UNCHANGED <<store, jar, cookie, base, clean, known>>
    BY DEF Returns, Goto
  <2>2. /\ dirty \in BOOLEAN /\ l \in {"write", "ok"}
        /\ val # sess[r].val => dirty
        /\ l = "ok" => ~dirty
    OBVIOUS
  <2> HIDE DEF dirty, l
  <2> QED BY <2>1, <2>2
<1> DEFINE S == [sess[r] EXCEPT !.val = val, !.dirty = dirty]
<1>1. /\ S \in [id : SIDs \cup {NoSID}, new : BOOLEAN, dirty : BOOLEAN,
                val : Values]
      /\ S.id = sess[r].id /\ S.new = sess[r].new
      /\ S.val = val /\ S.dirty = dirty
  BY <1>0, <1>d DEF SessionsTypes
<1>2. sess' = [sess EXCEPT ![r] = S]
  BY <1>0, <1>d DEF SessionsTypes
<1> HIDE DEF S
<1>3. cookie[r] = NoSID /\ (sess[r].new <=> sess[r].id = NoSID)
  BY <1>0 DEF Formed
<1>4. cookie' = [cookie EXCEPT ![r] = NoSID]
  BY <1>0, <1>3, <1>d DEF SessionsTypes
<1>5. /\ pc'[r] = l /\ sess'[r] = S /\ cookie'[r] = NoSID
      /\ Elsewhere(r, NoSID) /\ MayStore(r, NoSID)
  BY <1>0, <1>2, <1>4, <1>d, Stores
<1>6. SessionsTypes'
  BY <1>0, <1>1, <1>2, <1>d DEF SessionsTypes
<1>7. Formed(r)'
  BY <1>1, <1>3, <1>5, <1>d DEF Formed
<1>8. InItsSession(r) => InItsSession(r)'
  <2>1. SUFFICES ASSUME InItsSession(r) PROVE InItsSession(r)'
    OBVIOUS
  <2>2. PICK j : j = jar[Home[r]]
    OBVIOUS
  <2>3. Found(jar[Home[r]])' = Found(j)
    BY <1>d, <2>2 DEF Found
  <2>4. sess[r].id \in {NoSID, j}
    BY <2>1, <2>2 DEF InItsSession
  <2>5. ~dirty => Found(j) = val
    BY <1>d, <2>1, <2>2 DEF InItsSession
  <2>6. l = "ok" => Found(IF cookie[r] = NoSID THEN jar[Home[r]] ELSE cookie[r])'
                      = Found(j)
    BY <1>5, <1>d, <2>2 DEF Found
  <2> QED BY <1>1, <1>5, <1>d, <2>2, <2>3, <2>4, <2>5, <2>6 DEF InItsSession
<1> QED BY <1>1, <1>5, <1>d, <1>6, <1>7, <1>8, SIDAssumption, RequestStep DEF InFlight

\* A session is stored: a new one under a fresh id, one the storage knows under
\* its own.
LEMMA WrittenKeeps ==
  ASSUME SessionsInv, NEW r \in Requests, pc[r] \in {"write", "update"},
         NEW s \in SIDs, Put(s, sess[r].val), Written(r, s), UNCHANGED backend,
         \/ sess[r].id = NoSID /\ Version(s) = 0
         \/ sess[r].id = s
  PROVE  SessionsInv'
<1>0. SessionsTypes /\ Formed(r)
  BY DEF SessionsInv
<1> DEFINE S == [sess[r] EXCEPT !.id = s]
<1>1. /\ S \in [id : SIDs \cup {NoSID}, new : BOOLEAN, dirty : BOOLEAN,
                val : Values]
      /\ NewSession \in [id : SIDs \cup {NoSID}, new : BOOLEAN,
                         dirty : BOOLEAN, val : Values]
      /\ S.id = s /\ S.val = sess[r].val /\ NewSession.id = NoSID
  BY <1>0, ValuesAssumption DEF SessionsTypes, NewSession
<1>2. /\ jar' = jar /\ clean' = clean /\ known' = known
      /\ base' = [base EXCEPT ![r] = 0]
      /\ store' = [store EXCEPT ![s] = [present |-> TRUE, version |-> @.version + 1,
                                        val |-> sess[r].val]]
  BY DEF Written, Put
<1>3. \/ /\ pc' = [pc EXCEPT ![r] = "ok"] /\ sess' = [sess EXCEPT ![r] = S]
         /\ cookie' = [cookie EXCEPT ![r] = IF sess[r].new THEN s ELSE NoSID]
      \/ /\ pc' = [pc EXCEPT ![r] = "error"]
         /\ sess' = [sess EXCEPT ![r] = NewSession]
         /\ cookie' = [cookie EXCEPT ![r] = NoSID]
  BY <1>0 DEF Written, Goto, SessionsTypes
<1> HIDE DEF S
<1>4. \/ /\ pc'[r] = "ok" /\ sess'[r] = S
         /\ cookie'[r] = IF sess[r].new THEN s ELSE NoSID
      \/ pc'[r] = "error" /\ sess'[r] = NewSession /\ cookie'[r] = NoSID
  BY <1>0, <1>3 DEF SessionsTypes
<1>5. Elsewhere(r, s)
  BY <1>0, <1>2, <1>3 DEF SessionsTypes, Elsewhere
<1>6. MayStore(r, s)
  BY DEF MayStore, Holds
<1>7. /\ store'[s].present /\ store'[s].val = sess[r].val
      /\ store'[s].version = Version(s) + 1 /\ Version(s) \in Nat
  BY <1>0, <1>2 DEF SessionsTypes, Version
<1>8. SessionsTypes'
  <2>1. store' \in [SIDs -> [present : BOOLEAN, version : Nat, val : Values]]
    BY <1>0, <1>2 DEF SessionsTypes
  <2>2. sess' \in [Requests -> [id : SIDs \cup {NoSID}, new : BOOLEAN,
                                dirty : BOOLEAN, val : Values]]
    BY <1>0, <1>1, <1>3 DEF SessionsTypes
  <2>3. /\ cookie' \in [Requests -> SIDs \cup {NoSID}]
        /\ pc' \in [Requests -> {"idle", "lookup", "handler", "write", "update",
                                 "ok", "error"}]
    BY <1>0, <1>3 DEF SessionsTypes
  <2> QED BY <1>0, <1>2, <2>1, <2>2, <2>3 DEF SessionsTypes
<1>9. Formed(r)'
  BY <1>4 DEF Formed
<1>10. clean[r] /\ InItsSession(r) => InItsSession(r)'
  <2>1. SUFFICES ASSUME InItsSession(r), pc'[r] = "ok" PROVE InItsSession(r)'
    BY <1>4 DEF InItsSession
  <2>2. sess[r].id \in {NoSID, jar[Home[r]]}
    BY <2>1 DEF InItsSession
  <2>3. (IF cookie'[r] = NoSID THEN jar[Home[r]] ELSE cookie'[r]) = s
    BY <1>0, <1>4, <2>1, <2>2, SIDAssumption DEF Formed
  <2>4. Found(IF cookie[r] = NoSID THEN jar[Home[r]] ELSE cookie[r])' = sess[r].val
    BY <1>2, <1>7, <2>3 DEF Found
  <2> QED BY <1>1, <1>4, <2>1, <2>4 DEF InItsSession
<1>11. Version(s)' # 0
  BY <1>7 DEF Version
<1>12. /\ sess'[r].id \in {NoSID, sess[r].id, cookie[r], s}
       /\ cookie'[r] \in {NoSID, cookie[r], s}
       /\ pc'[r] \notin {"idle", "lookup"}
  BY <1>1, <1>4
<1> QED BY <1>2, <1>5, <1>6, <1>8, <1>9, <1>10, <1>11, <1>12, RequestStep
        DEF InFlight

LEMMA StorageKeeps ==
  ASSUME SessionsInv, NEW r \in Requests, StorageStep(r), UNCHANGED backend
  PROVE  SessionsInv'
<1>0. SessionsTypes /\ Formed(r)
  BY DEF SessionsInv
<1>1. CASE CreateSession(r)
  BY <1>1, WrittenKeeps DEF CreateSession
<1>2. CASE PutSession(r)
  <2>1. sess[r].id \in SIDs
    BY <1>0, <1>2 DEF PutSession, SessionsTypes
  <2> QED BY <1>2, <2>1, WrittenKeeps DEF PutSession
<1>3. CASE UpdateSession(r)
  <2>1. sess[r].id \in SIDs
    BY <1>0, <1>3 DEF UpdateSession, SessionsTypes, Formed
  <2> QED BY <1>3, <2>1, WrittenKeeps DEF UpdateSession
<1>4. CASE WriteFails(r)
  <2>1. InFlight(r)
    BY <1>4 DEF WriteFails, InFlight
  <2> QED BY <1>4, <2>1, FailKeeps DEF WriteFails
<1>5. CASE ReadForUpdate(r)
  <2>1. /\ pc' = [pc EXCEPT ![r] = "update"] /\ pc[r] = "write"
        /\ sess' = sess /\ cookie' = cookie /\ store' = store /\ jar' = jar
        /\ clean' = clean /\ known' = known /\ sess[r].id # NoSID
        /\ base' = [base EXCEPT ![r] = Version(sess[r].id)]
    BY <1>5 DEF ReadForUpdate, Goto
  <2>3. /\ pc'[r] = "update" /\ Elsewhere(r, NoSID) /\ MayStore(r, NoSID)
    BY <1>0, <2>1, SIDAssumption DEF SessionsTypes, Elsewhere, MayStore
  <2>4. SessionsTypes'
    BY <1>0, <2>1 DEF SessionsTypes, Version
  <2>5. Formed(r)'
    BY <1>0, <2>1, <2>3 DEF Formed
  <2>6. InItsSession(r) => InItsSession(r)'
    BY <2>1, <2>3 DEF InItsSession
  <2> QED BY <2>1, <2>3, <2>4, <2>5, <2>6, SIDAssumption, RequestStep DEF InFlight
<1> QED BY <1>1, <1>2, <1>3, <1>4, <1>5 DEF StorageStep

LEMMA SendKeeps ==
  ASSUME SessionsInv, NEW r \in Requests, Send(r), UNCHANGED backend
  PROVE  SessionsInv'
<1>0. SessionsTypes /\ ~InFlight(r) /\ pc[r] = "idle"
  BY DEF SessionsInv, Send, InFlight
<1>1. /\ pc' = [pc EXCEPT ![r] = "lookup"]
      /\ cookie' = [cookie EXCEPT ![r] = jar[Home[r]]]
      /\ clean' = [q \in Requests |-> IF q = r THEN Overlapping(r) = {}
                                      ELSE clean[q] /\ q \notin Overlapping(r)]
      /\ known' = [known EXCEPT ![Home[r]] =
                     IF Overlapping(r) = {} THEN @ ELSE Unknown]
      /\ store' = store /\ jar' = jar /\ sess' = sess /\ base' = base
  BY DEF Send, Goto
<1>2. /\ pc'[r] = "lookup" /\ cookie'[r] = jar[Home[r]]
      /\ clean'[r] <=> Overlapping(r) = {}
      /\ \A q \in Requests \ {r} :
           /\ pc'[q] = pc[q] /\ cookie'[q] = cookie[q]
           /\ clean'[q] <=> clean[q] /\ q \notin Overlapping(r)
  BY <1>0, <1>1 DEF SessionsTypes
<1>3. /\ InFlight(r)'
      /\ \A q \in Requests \ {r} : InFlight(q)' <=> InFlight(q)
  BY <1>2 DEF InFlight
<1>4. SessionsTypes'
  <2>1. jar[Home[r]] \in SIDs \cup {NoSID}
    BY <1>0, HomeAssumption DEF SessionsTypes
  <2>2. clean' \in [Requests -> BOOLEAN]
    BY <1>0, <1>1 DEF SessionsTypes
  <2>3. known' \in [Browsers -> Values \cup {Unknown}]
    BY <1>0, <1>1 DEF SessionsTypes
  <2> QED BY <1>0, <1>1, <2>1, <2>2, <2>3 DEF SessionsTypes
<1>5. OneBrowserPerSession' /\ HeldWereStored'
  <2>1. MayStore(r, NoSID)
    BY SIDAssumption DEF MayStore
  <2>2. \A q \in Requests :
          /\ sess'[q].id \in {NoSID, sess[q].id, cookie[q]}
          /\ cookie'[q] \in {NoSID, cookie[q], jar[Home[q]]}
    BY <1>1, <1>2
  <2>3. \A t \in SIDs : Version(t)' = 0 => Version(t) = 0
    BY <1>1 DEF Version
  <2> QED BY <1>1, <2>1, <2>2, <2>3, SIDAssumption, StillOneBrowser
<1>6. \A t : Found(t)' = Found(t)
  BY <1>1 DEF Found
<1>7. ASSUME NEW q \in Requests PROVE Formed(q)' /\ WorksAlone(q)'
  <2>1. CASE q = r
    <3>1. ASSUME clean'[r] PROVE Overlapping(r)' = {}
      BY <1>2, <1>3, <3>1 DEF Overlapping
    <3> QED BY <1>1, <1>2, <2>1, <3>1 DEF Formed, WorksAlone, InItsSession
  <2>2. CASE q # r
    <3>1. Formed(q) /\ WorksAlone(q)
      BY DEF SessionsInv
    <3>2. Formed(q)'
      BY <1>1, <1>2, <2>2, <3>1 DEF Formed
    <3>3. ASSUME InFlight(q)', clean'[q] PROVE Overlapping(q)' = {}
      <4>1. Overlapping(q) = {} /\ q \notin Overlapping(r)
        BY <1>2, <1>3, <2>2, <3>1, <3>3 DEF WorksAlone
      <4>2. Home[q] # Home[r]
        BY <1>3, <2>2, <3>3, <4>1 DEF Overlapping
      <4> QED BY <1>3, <4>1, <4>2 DEF Overlapping
    <3>4. InItsSession(q) => InItsSession(q)'
      BY <1>1, <1>2, <2>2 DEF InItsSession, Found
    <3> QED BY <1>2, <1>3, <2>2, <3>1, <3>2, <3>3, <3>4 DEF WorksAlone
  <2> QED BY <2>1, <2>2
<1>8. ASSUME NEW b \in Browsers PROVE Relied(b)'
  <2>1. Relied(b)
    BY DEF SessionsInv
  <2>2. CASE b # Home[r]
    <3>1. \A q \in Requests : Home[q] = b =>
            pc'[q] = pc[q] /\ (InFlight(q)' <=> InFlight(q)) /\ (clean'[q] <=> clean[q])
      BY <1>2, <1>3, <2>2 DEF Overlapping
    <3>2. known'[b] = known[b] /\ Found(jar[b])' = Found(jar[b])
      BY <1>0, <1>1, <2>2 DEF SessionsTypes, Found
    <3> QED BY <2>1, <3>1, <3>2 DEF Relied
  <2>3. CASE b = Home[r]
    <3>1. SUFFICES ASSUME known'[b] # Unknown PROVE Relied(b)'
      BY DEF Relied
    <3>2. Overlapping(r) = {} /\ known'[b] = known[b]
      BY <1>0, <1>1, <2>3, <3>1 DEF SessionsTypes
    <3>3. \A q \in Requests \ {r} : Home[q] = b => pc[q] = "idle"
      BY <2>3, <3>2 DEF Overlapping, InFlight
    <3>4. Found(jar[b]) = known[b]
      BY <1>0, <2>1, <3>1, <3>2, <3>3 DEF Relied
    <3>5. \A q \in Requests : Home[q] = b /\ InFlight(q)' => clean'[q]
      BY <1>2, <1>3, <3>2, <3>3 DEF InFlight
    <3>6. Found(jar[b])' = known'[b]
      BY <1>1, <3>2, <3>4 DEF Found
    <3> QED BY <3>5, <3>6 DEF Relied
  <2> QED BY <2>2, <2>3
<1> QED BY <1>4, <1>5, <1>7, <1>8 DEF SessionsInv

\* A request that is over, whether its answer arrived or not.
LEMMA OverKeeps ==
  ASSUME SessionsInv, NEW r \in Requests, pc[r] \in {"ok", "error"},
         Finish({r}), clean' = [clean EXCEPT ![r] = TRUE],
         UNCHANGED <<backend, store>>,
         \/ /\ jar' = jar
            /\ known' = [known EXCEPT ![Home[r]] = Unknown]
         \/ /\ jar' = [jar EXCEPT ![Home[r]] =
                         IF cookie[r] = NoSID THEN @ ELSE cookie[r]]
            /\ known' = [known EXCEPT ![Home[r]] =
                           IF pc[r] = "ok" /\ clean[r] THEN sess[r].val
                                                       ELSE Unknown]
  PROVE  SessionsInv'
<1>0. SessionsTypes /\ InFlight(r) /\ Home[r] \in Browsers
  BY HomeAssumption DEF SessionsInv, InFlight
<1>1. /\ pc'[r] = "idle" /\ sess'[r] = NewSession /\ cookie'[r] = NoSID
      /\ \A q \in Requests \ {r} : /\ pc'[q] = pc[q] /\ sess'[q] = sess[q]
                                   /\ cookie'[q] = cookie[q]
                                   /\ clean'[q] = clean[q]
  BY <1>0 DEF Finish, SessionsTypes
<1>2. /\ jar'[Home[r]] = jar[Home[r]]
         \/ (cookie[r] # NoSID /\ jar'[Home[r]] = cookie[r])
      /\ \A b \in Browsers \ {Home[r]} : jar'[b] = jar[b] /\ known'[b] = known[b]
  BY <1>0 DEF SessionsTypes
<1>3. SessionsTypes'
  <2>1. sess' \in [Requests -> [id : SIDs \cup {NoSID}, new : BOOLEAN,
                                dirty : BOOLEAN, val : Values]]
    BY <1>0, ValuesAssumption DEF SessionsTypes, Finish, NewSession
  <2>2. /\ jar' \in [Browsers -> SIDs \cup {NoSID}]
        /\ known' \in [Browsers -> Values \cup {Unknown}]
    BY <1>0 DEF SessionsTypes
  <2>3. /\ pc' \in [Requests -> {"idle", "lookup", "handler", "write", "update",
                                 "ok", "error"}]
        /\ cookie' \in [Requests -> SIDs \cup {NoSID}]
        /\ base' \in [Requests -> Nat]
        /\ clean' \in [Requests -> BOOLEAN]
    BY <1>0 DEF SessionsTypes, Finish
  <2> QED BY <1>0, <2>1, <2>2, <2>3 DEF SessionsTypes
<1>4. Elsewhere(r, NoSID) /\ MayStore(r, NoSID)
  BY <1>1, <1>2, SIDAssumption DEF Elsewhere, MayStore
<1>5. OneBrowserPerSession' /\ HeldWereStored'
  <2>1. \A q \in Requests :
          /\ sess'[q].id \in {NoSID, sess[q].id, cookie[q]}
          /\ cookie'[q] \in {NoSID, cookie[q], jar[Home[q]]}
    BY <1>1 DEF NewSession
  <2>2. \A b \in Browsers :
          \/ jar'[b] = jar[b]
          \/ \E q \in Requests : Home[q] = b /\ jar'[b] = cookie[q]
    BY <1>2
  <2>3. \A t \in SIDs : Version(t)' = 0 => Version(t) = 0
    BY DEF Version
  <2> QED BY <1>4, <2>1, <2>2, <2>3, SIDAssumption, StillOneBrowser
<1>6. ASSUME NEW q \in Requests PROVE Formed(q)' /\ WorksAlone(q)'
  <2>1. CASE q = r
    BY <1>1, <2>1 DEF Formed, WorksAlone, InFlight
  <2>2. CASE q # r
    BY <1>0, <1>4, <2>2, OthersWorkAlone
  <2> QED BY <2>1, <2>2
<1>7. ASSUME NEW b \in Browsers PROVE Relied(b)'
  <2>1. CASE b # Home[r]
    BY <1>4, <2>1, OthersRely
  <2>2. CASE b = Home[r]
    <3>1. SUFFICES ASSUME known'[b] # Unknown PROVE Relied(b)'
      BY DEF Relied
    <3>2. /\ pc[r] = "ok" /\ clean[r] /\ known'[b] = sess[r].val
          /\ jar'[b] = IF cookie[r] = NoSID THEN jar[Home[r]] ELSE cookie[r]
      BY <1>0, <2>2, <3>1 DEF SessionsTypes
    <3>3. Overlapping(r) = {} /\ InItsSession(r)
      BY <1>0, <3>2 DEF SessionsInv, WorksAlone
    <3>4. \A q \in Requests : Home[q] = b => ~InFlight(q)'
      BY <1>1, <2>2, <3>3 DEF Overlapping, InFlight
    <3>5. Found(IF cookie[r] = NoSID THEN jar[Home[r]] ELSE cookie[r]) = sess[r].val
      BY <3>2, <3>3 DEF InItsSession
    <3>6. Found(jar[b])' = known'[b]
      BY <3>2, <3>5 DEF Found
    <3> QED BY <3>4, <3>6 DEF Relied
  <2> QED BY <2>1, <2>2
<1> QED BY <1>3, <1>5, <1>6, <1>7 DEF SessionsInv

LEMMA DeliverKeeps ==
  ASSUME SessionsInv, NEW r \in Requests, Deliver(r), UNCHANGED backend
  PROVE  SessionsInv'
  BY OverKeeps DEF Deliver

LEMMA ResponseLostKeeps ==
  ASSUME SessionsInv, NEW r \in Requests, ResponseLost(r), UNCHANGED backend
  PROVE  SessionsInv'
  BY OverKeeps DEF ResponseLost

LEMMA PurgeKeeps ==
  ASSUME SessionsInv, NEW s \in SIDs, Purge(s), UNCHANGED backend
  PROVE  SessionsInv'
<1>0. SessionsTypes
  BY DEF SessionsInv
<1>1. /\ store' = [store EXCEPT ![s].present = FALSE]
      /\ clean' = [r \in Requests |-> clean[r] /\ ~InFlight(r)]
      /\ jar' = jar /\ pc' = pc /\ sess' = sess /\ cookie' = cookie
      /\ base' = base
      /\ known' = [b \in Browsers |->
                     IF jar[b] \in {s}
                        \/ \E r \in Requests : Home[r] = b /\ InFlight(r)
                     THEN Unknown ELSE known[b]]
  BY DEF Purge, Vanish
<1>2. SessionsTypes'
  <2>1. clean' \in [Requests -> BOOLEAN]
    BY <1>1
  <2>2. store' \in [SIDs -> [present : BOOLEAN, version : Nat, val : Values]]
    BY <1>0, <1>1 DEF SessionsTypes
  <2> QED BY <1>0, <1>1, <2>1, <2>2 DEF SessionsTypes
<1>3. OneBrowserPerSession' /\ HeldWereStored'
  <2>1. \A b, t : Holds(b, t)' <=> Holds(b, t)
    BY <1>1 DEF Holds
  <2>2. \A t \in SIDs : Version(t)' = Version(t)
    BY <1>0, <1>1 DEF SessionsTypes, Version
  <2> QED BY <2>1, <2>2 DEF SessionsInv, OneBrowserPerSession, HeldWereStored
<1>4. ASSUME NEW r \in Requests PROVE Formed(r)' /\ WorksAlone(r)'
  <2>1. Formed(r)
    BY DEF SessionsInv
  <2> QED BY <1>1, <2>1 DEF Formed, WorksAlone, InFlight
<1>5. ASSUME NEW b \in Browsers PROVE Relied(b)'
  <2>1. SUFFICES ASSUME known'[b] # Unknown PROVE Relied(b)'
    BY DEF Relied
  <2>2. /\ jar[b] # s /\ known'[b] = known[b]
        /\ \A r \in Requests : Home[r] = b => ~InFlight(r)
    BY <1>1, <2>1
  <2>3. Found(jar[b]) = known[b]
    BY <2>1, <2>2 DEF SessionsInv, Relied, InFlight
  <2>4. Found(jar[b])' = Found(jar[b])
    BY <1>0, <1>1, <2>2 DEF Found, SessionsTypes
  <2>5. \A r \in Requests : Home[r] = b => ~InFlight(r)'
    BY <1>1, <2>2 DEF InFlight
  <2> QED BY <2>2, <2>3, <2>4, <2>5 DEF Relied
<1> QED BY <1>2, <1>3, <1>4, <1>5 DEF SessionsInv

LEMMA RestartKeeps ==
  ASSUME SessionsInv, Restart, UNCHANGED backend
  PROVE  SessionsInv'
<1>0. SessionsTypes
  BY DEF SessionsInv
<1> DEFINE S == IF backend = "memory" THEN SIDs ELSE {}
<1>1. /\ store' = IF backend = "memory"
                  THEN [s \in SIDs |-> [store[s] EXCEPT !.present = FALSE]]
                  ELSE store
      /\ clean' = [r \in Requests |-> TRUE] /\ jar' = jar
      /\ Finish(Requests)
      /\ known' = [b \in Browsers |->
                     IF jar[b] \in S
                        \/ \E r \in Requests : Home[r] = b /\ InFlight(r)
                     THEN Unknown ELSE known[b]]
  BY DEF Restart, Vanish
<1>2. \A r \in Requests : /\ pc'[r] = "idle" /\ sess'[r] = NewSession
                          /\ cookie'[r] = NoSID /\ ~InFlight(r)'
  BY <1>1 DEF Finish, InFlight
<1>3. SessionsTypes'
  <2>1. store' \in [SIDs -> [present : BOOLEAN, version : Nat, val : Values]]
    BY <1>0, <1>1 DEF SessionsTypes
  <2>2. sess' \in [Requests -> [id : SIDs \cup {NoSID}, new : BOOLEAN,
                                dirty : BOOLEAN, val : Values]]
    BY <1>0, <1>1, ValuesAssumption DEF SessionsTypes, Finish, NewSession
  <2>3. /\ pc' \in [Requests -> {"idle", "lookup", "handler", "write", "update",
                                 "ok", "error"}]
        /\ cookie' \in [Requests -> SIDs \cup {NoSID}]
        /\ base' \in [Requests -> Nat]
    BY <1>0, <1>1 DEF SessionsTypes, Finish
  <2>4. known' \in [Browsers -> Values \cup {Unknown}]
    BY <1>0, <1>1 DEF SessionsTypes
  <2> QED BY <1>0, <1>1, <2>1, <2>2, <2>3, <2>4 DEF SessionsTypes
<1>4. OneBrowserPerSession' /\ HeldWereStored'
  <2>1. \A b \in Browsers, t \in SIDs : Holds(b, t)' => Holds(b, t)
    BY <1>1, <1>2, SIDAssumption DEF Holds, NewSession
  <2>2. \A t \in SIDs : Version(t)' = Version(t)
    BY <1>0, <1>1 DEF SessionsTypes, Version
  <2> QED BY <2>1, <2>2 DEF SessionsInv, OneBrowserPerSession, HeldWereStored
<1>5. \A r \in Requests : Formed(r)' /\ WorksAlone(r)'
  BY <1>2 DEF Formed, WorksAlone, InFlight
<1>6. ASSUME NEW b \in Browsers PROVE Relied(b)'
  <2>1. SUFFICES ASSUME known'[b] # Unknown PROVE Relied(b)'
    BY DEF Relied
  <2>2. /\ jar[b] \notin S /\ known'[b] = known[b]
        /\ \A r \in Requests : Home[r] = b => ~InFlight(r)
    BY <1>1, <2>1
  <2>3. Found(jar[b]) = known[b]
    BY <2>1, <2>2 DEF SessionsInv, Relied, InFlight
  <2>4. Found(jar[b])' = Found(jar[b])
    BY <1>1, <2>2 DEF Found
  <2> QED BY <1>2, <2>2, <2>3, <2>4 DEF Relied
<1> QED BY <1>3, <1>4, <1>5, <1>6 DEF SessionsInv

LEMMA StutterKeeps == SessionsInv /\ UNCHANGED sessionVars => SessionsInv'
  BY DEF sessionVars, SessionsInv, SessionsTypes, OneBrowserPerSession,
         HeldWereStored, Holds, Version, Formed, WorksAlone, InItsSession,
         InFlight, Overlapping, Found, Relied

LEMMA SessionsStep == SessionsInv /\ [SessionsNext]_sessionVars => SessionsInv'
<1> SUFFICES ASSUME SessionsInv, SessionsNext, UNCHANGED backend
             PROVE  SessionsInv'
  BY StutterKeeps DEF SessionsNext
<1>1. ASSUME NEW r \in Requests, Send(r) \/ Lookup(r) PROVE SessionsInv'
  BY <1>1, SendKeeps, LookupKeeps
<1>2. ASSUME NEW r \in Requests, LookupFails(r) \/ HandlerFails(r)
      PROVE  SessionsInv'
  BY <1>2, FailKeeps DEF LookupFails, HandlerFails, InFlight
<1>3. ASSUME NEW r \in Requests, HandlerReturns(r) PROVE SessionsInv'
  BY <1>3, ReturnsKeeps DEF HandlerReturns
<1>4. ASSUME NEW r \in Requests, StorageStep(r) PROVE SessionsInv'
  BY <1>4, StorageKeeps
<1>5. ASSUME NEW r \in Requests, Deliver(r) \/ ResponseLost(r)
      PROVE  SessionsInv'
  BY <1>5, DeliverKeeps, ResponseLostKeeps
<1>6. ASSUME NEW s \in SIDs, Purge(s) PROVE SessionsInv'
  BY <1>6, PurgeKeeps
<1>7. CASE Restart
  BY <1>7, RestartKeeps
<1> QED BY <1>1, <1>2, <1>3, <1>4, <1>5, <1>6, <1>7 DEF SessionsNext

-----------------------------------------------------------------------------
(* The theorems.                                                               *)

\* Every behaviour of the filter, the two storages and the browsers keeps the
\* invariant.
THEOREM SessionsInductive == SessionsSpec => []SessionsInv
<1> QED BY SessionsInitially, SessionsStep, PTL DEF SessionsSpec

\* No two browsers are ever in one session, whatever fails and whoever overlaps.
THEOREM OneBrowser == SessionsSpec => []OneBrowserPerSession
<1>1. SessionsInv => OneBrowserPerSession
  BY DEF SessionsInv
<1> QED BY <1>1, SessionsInductive, PTL

\* Browsers are only given ids of sessions that were stored.
THEOREM OnlyStored == SessionsSpec => []OnlyStoredSessions
<1>1. SessionsInv => OnlyStoredSessions
  <2> SUFFICES ASSUME SessionsInv PROVE OnlyStoredSessions
    OBVIOUS
  <2>1. SessionsTypes /\ HeldWereStored
    BY DEF SessionsInv
  <2>2. \A s \in SIDs, b \in Browsers : Holds(b, s) => Version(s) > 0
    BY <2>1 DEF HeldWereStored, SessionsTypes, Version
  <2>3. \A b \in Browsers : Holds(b, jar[b])
    BY DEF Holds
  <2>4. \A r \in Requests : Holds(Home[r], cookie[r]) /\ Home[r] \in Browsers
    BY HomeAssumption DEF Holds
  <2> QED BY <2>1, <2>2, <2>3, <2>4 DEF OnlyStoredSessions, SessionsTypes
<1> QED BY <1>1, SessionsInductive, PTL

\* What a request finds is what its browser may rely on.
LEMMA Finds ==
  ASSUME SessionsInv, NEW r \in Requests, Lookup(r), known[Home[r]] # Unknown
  PROVE  sess'[r].val = known[Home[r]]
<1>0. SessionsTypes /\ Relied(Home[r]) /\ WorksAlone(r) /\ pc[r] = "lookup"
  BY HomeAssumption DEF SessionsInv, Lookup
<1>1. Overlapping(r) = {} /\ cookie[r] = jar[Home[r]]
  BY <1>0 DEF Relied, WorksAlone, InItsSession, InFlight
<1>2. \A q \in Requests : Home[q] = Home[r] => pc[q] \in {"idle", "lookup"}
  BY <1>0, <1>1 DEF Overlapping, InFlight
<1>3. Found(cookie[r]) = known[Home[r]]
  BY <1>0, <1>1, <1>2 DEF Relied
<1>4. sess'[r].val = Found(cookie[r])
  BY <1>0 DEF Lookup, SessionsTypes, Found, NewSession
<1> QED BY <1>3, <1>4

\* Only its lookup takes a request from there to its handler.
LEMMA OnlyLookup ==
  ASSUME SessionsInv, [SessionsNext]_sessionVars, NEW r \in Requests,
         pc[r] = "lookup", pc'[r] = "handler"
  PROVE  Lookup(r)
<1>0. pc \in [Requests -> {"idle", "lookup", "handler", "write", "update", "ok",
                           "error"}]
  BY DEF SessionsInv, SessionsTypes
<1>1. ~UNCHANGED sessionVars
  BY DEF sessionVars
<1>2. ~Restart /\ \A s \in SIDs : ~Purge(s)
  BY DEF Restart, Finish, Purge
<1>3. ASSUME NEW q \in Requests, Send(q) \/ LookupFails(q) \/ HandlerFails(q)
      PROVE  FALSE
  BY <1>0, <1>3 DEF Send, LookupFails, HandlerFails, Fail, Goto
<1>4. ASSUME NEW q \in Requests, HandlerReturns(q) PROVE FALSE
  BY <1>0, <1>4 DEF HandlerReturns, Returns, Goto
<1>5. ASSUME NEW q \in Requests, StorageStep(q) PROVE FALSE
  BY <1>0, <1>5 DEF StorageStep, CreateSession, PutSession, ReadForUpdate,
                    UpdateSession, WriteFails, Written, Fail, Goto
<1>6. ASSUME NEW q \in Requests, Deliver(q) \/ ResponseLost(q) PROVE FALSE
  BY <1>0, <1>6 DEF Deliver, ResponseLost, Finish
<1>7. ASSUME NEW q \in Requests, Lookup(q) PROVE q = r
  BY <1>0, <1>7 DEF Lookup, Goto
<1> QED BY <1>1, <1>2, <1>3, <1>4, <1>5, <1>6, <1>7 DEF SessionsNext

\* A browser that waits for its answers reads what it wrote: over either
\* storage, with other browsers about, failures, purges and restarts.
THEOREM OwnWrites == SessionsSpec => ReadsOwnWrites
<1>1. SessionsInv /\ [SessionsNext]_sessionVars => [ReadsItsWrites]_sessionVars
  BY OnlyLookup, Finds DEF ReadsItsWrites
<1> QED BY <1>1, SessionsInductive, PTL DEF SessionsSpec, ReadsOwnWrites

-----------------------------------------------------------------------------
(* The SSO application.                                                        *)

LEMMA NoData ==
  /\ Values = SessionData /\ Empty = EmptyData /\ Empty \in SessionData
  /\ Empty.user = NoUser /\ Empty.nonce = NoNonce /\ NewSession.val = Empty
  BY SessionDataAssumption, ValuesAssumption DEF EmptyData, NewSession

LEMMA FoundIsData ==
  ASSUME SessionsTypes, NEW s PROVE Found(s) \in SessionData
  BY NoData DEF SessionsTypes, Found

-----------------------------------------------------------------------------
(* What the sessions' own steps bring to whom: nothing new.                     *)

NothingNew ==
  \A b \in Browsers : \A data : Has(b, data)' => Has(b, data) \/ data = Empty

\* Browsers get into no session but s, whose data they had, and requests work on
\* data their browser had.
LEMMA OnlyWhatTheyHad ==
  ASSUME NEW s, NEW x,
         \A b \in Browsers, t \in SIDs : Holds(b, t)' => Holds(b, t) \/ t = s,
         \A t \in SIDs \ {s} : Found(t)' \in {Found(t), Empty},
         s \in SIDs => Found(s)' = x /\ \A b \in Browsers : Holds(b, s)' => Has(b, x),
         \A q \in Requests : sess'[q].val = Empty \/ Has(Home[q], sess'[q].val)
  PROVE  NothingNew
<1> SUFFICES ASSUME NEW b \in Browsers, NEW data, Has(b, data)', data # Empty
             PROVE  Has(b, data)
  BY DEF NothingNew
<1>1. CASE \E t \in SIDs : Holds(b, t)' /\ data = Found(t)'
  <2>1. PICK t \in SIDs : Holds(b, t)' /\ data = Found(t)'
    BY <1>1
  <2>2. CASE t = s
    BY <2>1, <2>2
  <2>3. CASE t # s
    <3>1. Holds(b, t) /\ data = Found(t)
      BY <2>1, <2>3
    <3> QED BY <3>1 DEF Has
  <2> QED BY <2>2, <2>3
<1>2. CASE \E q \in Requests : Home[q] = b /\ data = sess'[q].val
  BY <1>2
<1> QED BY <1>1, <1>2 DEF Has

LEMMA OwnData ==
  /\ \A r \in Requests : Has(Home[r], sess[r].val)
  /\ \A b \in Browsers, s \in SIDs : Holds(b, s) => Has(b, Found(s))
  BY DEF Has

LEMMA SendNothingNew ==
  ASSUME SessionsInv, NEW r \in Requests, Send(r)
  PROVE  NothingNew
<1>1. /\ sess' = sess /\ jar' = jar /\ store' = store
      /\ cookie' = [cookie EXCEPT ![r] = jar[Home[r]]]
  BY DEF Send
<1>2. \A q \in Requests : cookie'[q] \in {cookie[q], jar[Home[q]]}
  BY <1>1 DEF SessionsInv, SessionsTypes
<1>3. \A b \in Browsers, t \in SIDs : Holds(b, t)' => Holds(b, t)
  BY <1>1, <1>2 DEF Holds
<1>4. \A t \in SIDs : Found(t)' = Found(t)
  BY <1>1 DEF Found
<1> QED BY <1>1, <1>3, <1>4, OwnData, SIDAssumption, OnlyWhatTheyHad

LEMMA LookupNothingNew ==
  ASSUME SessionsInv, NEW r \in Requests, Lookup(r)
  PROVE  NothingNew
<1>0. SessionsTypes
  BY DEF SessionsInv
<1>1. /\ jar' = jar /\ store' = store
      /\ cookie' = [cookie EXCEPT ![r] = NoSID]
      /\ sess' = [sess EXCEPT ![r] =
                    IF cookie[r] \in SIDs /\ store[cookie[r]].present
                    THEN [id |-> cookie[r], new |-> FALSE, dirty |-> FALSE,
                          val |-> store[cookie[r]].val]
                    ELSE NewSession]
  BY DEF Lookup
<1>2. \A q \in Requests : /\ cookie'[q] \in {cookie[q], NoSID}
                          /\ sess'[q].id \in {sess[q].id, cookie[q], NoSID}
                          /\ \/ sess'[q].val = sess[q].val
                             \/ sess'[q].val = Empty
                             \/ q = r /\ cookie[r] \in SIDs
                                /\ sess'[q].val = Found(cookie[r])
  BY <1>0, <1>1 DEF SessionsTypes, NewSession, Found
<1>3. \A b \in Browsers, t \in SIDs : Holds(b, t)' => Holds(b, t)
  BY <1>1, <1>2, SIDAssumption DEF Holds
<1>4. \A t \in SIDs : Found(t)' = Found(t)
  BY <1>1 DEF Found
<1>5. cookie[r] \in SIDs => Has(Home[r], Found(cookie[r]))
  BY DEF Has, Holds
<1>6. \A q \in Requests : sess'[q].val = Empty \/ Has(Home[q], sess'[q].val)
  BY <1>2, <1>5, OwnData
<1> QED BY <1>3, <1>4, <1>6, SIDAssumption, OnlyWhatTheyHad

\* Requests end, in order or not.
LEMMA EndsNothingNew ==
  ASSUME SessionsInv, UNCHANGED store,
         \A q \in Requests : /\ cookie'[q] \in {cookie[q], NoSID}
                             /\ sess'[q] \in {sess[q], NewSession},
         \A b \in Browsers : \/ jar'[b] = jar[b]
                             \/ \E q \in Requests : Home[q] = b /\ jar'[b] = cookie[q]
  PROVE  NothingNew
<1>1. \A b \in Browsers, t \in SIDs : Holds(b, t)' => Holds(b, t)
  BY SIDAssumption DEF Holds, NewSession
<1>2. \A t \in SIDs : Found(t)' = Found(t)
  BY DEF Found
<1>3. \A q \in Requests : sess'[q].val = Empty \/ Has(Home[q], sess'[q].val)
  BY NoData, OwnData
<1> QED BY <1>1, <1>2, <1>3, SIDAssumption, OnlyWhatTheyHad

LEMMA FailNothingNew ==
  ASSUME SessionsInv, NEW r \in Requests, Fail(r)
  PROVE  NothingNew
<1>1. \A q \in Requests : /\ cookie'[q] \in {cookie[q], NoSID}
                          /\ sess'[q] \in {sess[q], NewSession}
  BY DEF Fail, SessionsInv, SessionsTypes
<1> QED BY <1>1, EndsNothingNew DEF Fail

LEMMA WrittenNothingNew ==
  ASSUME SessionsInv, NEW r \in Requests, pc[r] \in {"write", "update"},
         NEW s \in SIDs, Put(s, sess[r].val), Written(r, s),
         \/ sess[r].id = NoSID /\ Version(s) = 0
         \/ sess[r].id = s
  PROVE  NothingNew
<1>0. SessionsTypes
  BY DEF SessionsInv
<1>1. /\ jar' = jar
      /\ store' = [store EXCEPT ![s] = [present |-> TRUE, version |-> @.version + 1,
                                        val |-> sess[r].val]]
  BY DEF Written, Put
<1>2. \A q \in Requests :
        /\ q # r => cookie'[q] = cookie[q] /\ sess'[q] = sess[q]
        /\ cookie'[q] \in {cookie[q], s, NoSID}
        /\ sess'[q].id \in {sess[q].id, s, NoSID}
        /\ sess'[q].val \in {sess[q].val, Empty}
  BY <1>0 DEF SessionsTypes, Written, NewSession
<1>3. \A b \in Browsers, t \in SIDs : Holds(b, t)' => Holds(b, t) \/ (t = s /\ b = Home[r])
  BY <1>1, <1>2, SIDAssumption DEF Holds
<1>4. MayStore(r, s)
  BY DEF MayStore, Holds
<1>5. \A b \in Browsers : Holds(b, s) => b = Home[r]
  BY <1>4, NobodyElses
<1>6. /\ Found(s)' = sess[r].val
      /\ \A t \in SIDs \ {s} : Found(t)' = Found(t)
  BY <1>0, <1>1 DEF SessionsTypes, Found
<1>7. \A b \in Browsers : Holds(b, s)' => Has(b, sess[r].val)
  BY <1>3, <1>5, OwnData
<1>8. \A q \in Requests : sess'[q].val = Empty \/ Has(Home[q], sess'[q].val)
  BY <1>2, OwnData
<1>9. PICK x : x = sess[r].val
  OBVIOUS
<1> QED BY <1>3, <1>6, <1>7, <1>8, <1>9, OnlyWhatTheyHad

LEMMA StorageNothingNew ==
  ASSUME SessionsInv, NEW r \in Requests, StorageStep(r)
  PROVE  NothingNew
<1>0. SessionsTypes /\ Formed(r)
  BY DEF SessionsInv
<1>1. CASE CreateSession(r)
  BY <1>1, WrittenNothingNew DEF CreateSession
<1>2. CASE PutSession(r)
  <2>1. sess[r].id \in SIDs
    BY <1>0, <1>2 DEF PutSession, SessionsTypes
  <2> QED BY <1>2, <2>1, WrittenNothingNew DEF PutSession
<1>3. CASE UpdateSession(r)
  <2>1. sess[r].id \in SIDs
    BY <1>0, <1>3 DEF UpdateSession, SessionsTypes, Formed
  <2> QED BY <1>3, <2>1, WrittenNothingNew DEF UpdateSession
<1>4. CASE WriteFails(r)
  BY <1>4, FailNothingNew DEF WriteFails
<1>5. CASE ReadForUpdate(r)
  BY <1>5, EndsNothingNew DEF ReadForUpdate
<1> QED BY <1>1, <1>2, <1>3, <1>4, <1>5 DEF StorageStep

LEMMA OverNothingNew ==
  ASSUME SessionsInv, NEW r \in Requests, Deliver(r) \/ ResponseLost(r)
  PROVE  NothingNew
<1>0. SessionsTypes /\ Home[r] \in Browsers
  BY HomeAssumption DEF SessionsInv
<1>1. \A q \in Requests : /\ cookie'[q] \in {cookie[q], NoSID}
                          /\ sess'[q] \in {sess[q], NewSession}
  BY <1>0 DEF Deliver, ResponseLost, Finish, SessionsTypes
<1>2. \A b \in Browsers : \/ jar'[b] = jar[b]
                          \/ \E q \in Requests : Home[q] = b /\ jar'[b] = cookie[q]
  BY <1>0 DEF Deliver, ResponseLost, SessionsTypes
<1> QED BY <1>1, <1>2, EndsNothingNew DEF Deliver, ResponseLost

LEMMA PurgeNothingNew ==
  ASSUME SessionsInv, NEW s \in SIDs, Purge(s)
  PROVE  NothingNew
<1>1. /\ sess' = sess /\ jar' = jar /\ cookie' = cookie
      /\ store' = [store EXCEPT ![s].present = FALSE]
  BY DEF Purge
<1>2. \A b \in Browsers, t \in SIDs : Holds(b, t)' => Holds(b, t)
  BY <1>1 DEF Holds
<1>3. \A t \in SIDs : Found(t)' \in {Found(t), Empty}
  BY <1>1 DEF Found, SessionsInv, SessionsTypes
<1> QED BY <1>1, <1>2, <1>3, OwnData, SIDAssumption, OnlyWhatTheyHad

LEMMA RestartNothingNew ==
  ASSUME SessionsInv, Restart, backend = "kube"
  PROVE  NothingNew
<1>1. \A q \in Requests : /\ cookie'[q] \in {cookie[q], NoSID}
                          /\ sess'[q] \in {sess[q], NewSession}
  BY DEF Restart, Finish
<1> QED BY <1>1, EndsNothingNew DEF Restart

-----------------------------------------------------------------------------
(* The steps that neither serve a request nor answer one.                       *)

\* The nonces of requests come from the logins their browser started.
LEMMA DataKept ==
  ASSUME SSOInv, NothingNew, UNCHANGED <<flows, drawn, granted, spent>>,
         \A r \in Requests :
           job'[r].nonce \in {NoNonce, job[r].nonce} \cup flows[Home[r]]
  PROVE  SessionsEarned' /\ NoncesApart' /\ SpentAreGone'
<1>1. /\ SessionsEarned /\ NoncesApart /\ SpentAreGone /\ SSOTypes
      /\ \A b \in Browsers : \A data : Has(b, data)' => Has(b, data) \/ data = Empty
  BY DEF SSOInv, NothingNew
<1>2. SessionsEarned'
  BY <1>1, NoData, SSOAssumption DEF SessionsEarned, Earned
<1>3. ASSUME NEW b \in Browsers, NEW n \in Nonces, Started(b, n)'
      PROVE  Started(b, n)
  <2>1. CASE n \in flows'[b]
    BY <2>1 DEF Started
  <2>2. ASSUME NEW r \in Requests, Home[r] = b, job'[r].nonce = n
        PROVE  Started(b, n)
    BY <2>2, SSOAssumption DEF Started
  <2>3. ASSUME NEW data \in SessionData, Has(b, data)', data.nonce = n
        PROVE  Started(b, n)
    <3>1. data # Empty
      BY <2>3, NoData, SSOAssumption
    <3>2. Has(b, data)
      BY <1>1, <2>3, <3>1
    <3> QED BY <2>3, <3>2 DEF Started
  <2> QED BY <1>3, <2>1, <2>2, <2>3 DEF Started
<1>4. NoncesApart'
  BY <1>1, <1>3 DEF NoncesApart
<1>5. SpentAreGone'
  <2>1. ASSUME NEW n \in spent, NEW b \in Browsers, NEW data \in SessionData,
               Has(b, data)'
        PROVE  data.nonce # n
    <3>1. n # NoNonce
      BY <1>1, SSOAssumption DEF SSOTypes
    <3> QED BY <1>1, <2>1, <3>1, NoData DEF SpentAreGone
  <2> QED BY <2>1 DEF SpentAreGone
<1> QED BY <1>2, <1>4, <1>5

\* A request that a step leaves alone.
LEMMA OthersStay ==
  ASSUME SSOInv, NEW q \in Requests,
         pc'[q] = pc[q], sess'[q] = sess[q], cookie'[q] = cookie[q],
         job'[q] = job[q], clean'[q] => clean[q],
         InFlight(q) /\ clean'[q] => token'[Home[q]] \in {token[Home[q]], NoUser}
  PROVE  Unserved(q)' /\ Served(q)' /\ CameWithToken(q)'
<1>1. Unserved(q) /\ Served(q) /\ CameWithToken(q)
  BY DEF SSOInv
<1>2. InFlight(q)' <=> InFlight(q)
  BY DEF InFlight
<1>3. Unserved(q)'
  BY <1>1 DEF Unserved
<1>4. Served(q)'
  BY <1>1 DEF Served
<1>5. CameWithToken(q)'
  BY <1>1, <1>2 DEF CameWithToken
<1> QED BY <1>3, <1>4, <1>5

LEMMA QuietStep ==
  ASSUME SSOInv, SessionsInv', SSOTypes', NothingNew,
         UNCHANGED <<flows, drawn, granted, spent>>,
         \A r \in Requests :
           /\ job'[r].nonce \in {NoNonce, job[r].nonce} \cup flows[Home[r]]
           /\ job'[r].token \in {NoUser, job[r].token, token[Home[r]]}
           /\ job'[r].out \in {Keep, job[r].out},
         \A b \in Browsers : token'[b] \in {token[b], NoUser},
         \A r \in Requests : Unserved(r)' /\ Served(r)' /\ CameWithToken(r)'
  PROVE  SSOInv'
<1>1. SessionsEarned' /\ NoncesApart' /\ SpentAreGone'
  BY DataKept
<1>2. TokensEarned'
  <2>1. TokensEarned
    BY DEF SSOInv
  <2>2. \A b \in Browsers : Earned(b, token[b])' 
    BY <2>1, SSOAssumption DEF TokensEarned, Earned
  <2>3. ASSUME NEW r \in Requests
        PROVE  Earned(Home[r], job[r].token)' /\ Earned(Home[r], job[r].out)'
    BY <2>1, HomeAssumption, SSOAssumption DEF TokensEarned, Earned
  <2> QED BY <2>2, <2>3 DEF TokensEarned
<1> QED BY <1>1, <1>2 DEF SSOInv

\* What a request can be when it is sent.
LEMMA AsksFormed ==
  ASSUME SSOTypes, NEW r \in Requests, SendRequest(r)
  PROVE  \E j \in Jobs :
           /\ job' = [job EXCEPT ![r] = j]
           /\ j.kind # "none" /\ j.served = "not" /\ j.out = Keep
           /\ j.token = token[Home[r]] /\ j.nonce \in {NoNonce} \cup flows[Home[r]]
           /\ j.kind = "callback" => j.nonce # NoNonce
<1>1. token[Home[r]] \in Users \cup {NoUser} /\ flows[Home[r]] \subseteq Nonces
  BY HomeAssumption DEF SSOTypes
<1>2. PICK k \in {"page", "start", "callback", "logout"},
           n \in {NoNonce} \cup flows[Home[r]], u \in Users \cup {NoUser},
           d \in BOOLEAN :
        Asks(r, k, n, u, d) /\ (k = "callback" => n # NoNonce)
  BY <1>1, SSOAssumption DEF SendRequest
<1> DEFINE j == Job(k, n, u, d, token[Home[r]])
<1>3. j \in Jobs
  BY <1>1 DEF Jobs, Job
<1>4. /\ j.kind = k /\ j.served = "not" /\ j.out = Keep
      /\ j.token = token[Home[r]] /\ j.nonce = n
  BY DEF Job
<1>5. job' = [job EXCEPT ![r] = j]
  BY <1>2 DEF Asks
<1> HIDE DEF j
<1> QED BY <1>2, <1>3, <1>4, <1>5

LEMMA SendRequestKeeps ==
  ASSUME SSOInv, NEW r \in Requests, SendRequest(r), UNCHANGED backend
  PROVE  SSOInv'
<1>0. SessionsInv /\ SessionsTypes /\ SSOTypes /\ Send(r) /\ Home[r] \in Browsers
  BY HomeAssumption DEF SSOInv, SessionsInv, SendRequest
<1>1. SessionsInv' /\ NothingNew
  BY <1>0, SendKeeps, SendNothingNew
<1>3. UNCHANGED <<token, flows, drawn, granted, spent>>
  BY DEF SendRequest
<1>5. PICK j \in Jobs :
        /\ job' = [job EXCEPT ![r] = j]
        /\ j.kind # "none" /\ j.served = "not" /\ j.out = Keep
        /\ j.token = token[Home[r]] /\ j.nonce \in {NoNonce} \cup flows[Home[r]]
        /\ j.kind = "callback" => j.nonce # NoNonce
  BY <1>0, AsksFormed
<1>7. job'[r] = j /\ \A q \in Requests \ {r} : job'[q] = job[q]
  BY <1>0, <1>5 DEF SSOTypes
<1>8. SSOTypes'
  <2>1. logouts' \in Nat
    BY <1>0 DEF SSOTypes, SendRequest
  <2> QED BY <1>0, <1>3, <1>5, <2>1 DEF SSOTypes
<1>9. /\ pc'[r] = "lookup"
      /\ \A q \in Requests \ {r} : /\ pc'[q] = pc[q] /\ sess'[q] = sess[q]
                                   /\ cookie'[q] = cookie[q]
                                   /\ clean'[q] => clean[q]
  BY <1>0 DEF Send, Goto, SessionsTypes
<1>10. Unserved(r)' /\ Served(r)' /\ CameWithToken(r)'
  BY <1>3, <1>5, <1>7, <1>9 DEF Unserved, Served, CameWithToken
<1>11. \A q \in Requests \ {r} : Unserved(q)' /\ Served(q)' /\ CameWithToken(q)'
  BY <1>3, <1>7, <1>9, OthersStay
<1>12. \A q \in Requests :
         /\ job'[q].nonce \in {NoNonce, job[q].nonce} \cup flows[Home[q]]
         /\ job'[q].token \in {NoUser, job[q].token, token[Home[q]]}
         /\ job'[q].out \in {Keep, job[q].out}
  BY <1>5, <1>7
<1> QED BY <1>1, <1>3, <1>8, <1>10, <1>11, <1>12, QuietStep

LEMMA LookupSessionKeeps ==
  ASSUME SSOInv, NEW r \in Requests, LookupSession(r), UNCHANGED backend
  PROVE  SSOInv'
<1>0. /\ SessionsInv /\ SessionsTypes /\ SSOTypes /\ Lookup(r)
      /\ UNCHANGED ssoVars /\ Unserved(r) /\ CameWithToken(r)
  BY DEF SSOInv, SessionsInv, LookupSession
<1>1. SessionsInv' /\ NothingNew
  BY <1>0, LookupKeeps, LookupNothingNew
<1>2. UNCHANGED <<token, flows, drawn, job, granted, spent, logouts>>
  BY <1>0 DEF ssoVars
<1>3. SSOTypes'
  BY <1>0, <1>2 DEF SSOTypes
<1>4. /\ pc[r] = "lookup" /\ pc'[r] = "handler" /\ ~sess'[r].dirty /\ clean' = clean
      /\ \A q \in Requests \ {r} : /\ pc'[q] = pc[q] /\ sess'[q] = sess[q]
                                   /\ cookie'[q] = cookie[q]
  BY <1>0 DEF Lookup, Goto, SessionsTypes, NewSession
<1>5. Unserved(r)' /\ Served(r)' /\ CameWithToken(r)'
  BY <1>0, <1>2, <1>4 DEF Unserved, Served, CameWithToken, InFlight
<1>6. \A q \in Requests \ {r} : Unserved(q)' /\ Served(q)' /\ CameWithToken(q)'
  BY <1>2, <1>4, OthersStay
<1> QED BY <1>1, <1>2, <1>3, <1>5, <1>6, QuietStep

\* Fail, whatever is answered.
LEMMA FailingKeeps ==
  ASSUME SSOInv, NEW r \in Requests, InFlight(r), Fail(r), UNCHANGED backend,
         NEW s \in {"not", "redirect", "handler", "none", "forbidden"},
         job' = [job EXCEPT ![r].out = Keep, ![r].served = s, ![r].answer = "internal"],
         UNCHANGED <<token, flows, drawn, granted, spent, logouts>>
  PROVE  SSOInv'
<1>0. SessionsInv /\ SessionsTypes /\ SSOTypes /\ CameWithToken(r) /\ Unserved(r)
  BY DEF SSOInv, SessionsInv
<1>1. SessionsInv' /\ NothingNew
  BY <1>0, FailKeeps, FailNothingNew
<1>2. SSOTypes'
  <2>1. [job[r] EXCEPT !.out = Keep, !.served = s, !.answer = "internal"] \in Jobs
    BY <1>0 DEF SSOTypes, Jobs
  <2> QED BY <1>0, <2>1 DEF SSOTypes
<1>3. /\ pc'[r] = "error" /\ clean' = clean
      /\ \A q \in Requests \ {r} : /\ pc'[q] = pc[q] /\ sess'[q] = sess[q]
                                   /\ cookie'[q] = cookie[q]
  BY <1>0 DEF Fail, Goto, SessionsTypes
<1>4. /\ job'[r].kind = job[r].kind /\ job'[r].nonce = job[r].nonce
      /\ job'[r].token = job[r].token /\ job'[r].out = Keep
      /\ \A q \in Requests \ {r} : job'[q] = job[q]
  BY <1>0 DEF SSOTypes
<1>5. Unserved(r)' /\ Served(r)' /\ CameWithToken(r)'
  BY <1>0, <1>3, <1>4 DEF Unserved, Served, CameWithToken
<1>6. \A q \in Requests \ {r} : Unserved(q)' /\ Served(q)' /\ CameWithToken(q)'
  BY <1>3, <1>4, OthersStay
<1>7. \A q \in Requests :
        /\ job'[q].nonce \in {NoNonce, job[q].nonce} \cup flows[Home[q]]
        /\ job'[q].token \in {NoUser, job[q].token, token[Home[q]]}
        /\ job'[q].out \in {Keep, job[q].out}
  BY <1>4
<1> QED BY <1>1, <1>2, <1>5, <1>6, <1>7, QuietStep

LEMMA RefusesKeeps ==
  ASSUME SSOInv, NEW r \in Requests, Refuses(r), UNCHANGED backend
  PROVE  SSOInv'
<1>1. PICK response \in {"none", "forbidden"} :
        job' = [job EXCEPT ![r].out = Keep, ![r].served = response,
                           ![r].answer = "internal"]
  BY DEF Refuses, Filtered, Answered
<1> QED BY <1>1, FailingKeeps DEF Refuses, InFlight

\* Where a step of the storage takes a request.
LEMMA StorageMoves ==
  ASSUME SessionsTypes, NEW r \in Requests, StorageStep(r)
  PROVE  /\ pc[r] \in {"write", "update"} /\ clean' = clean
         /\ \/ pc'[r] = "error"
            \/ pc'[r] \in {"update", "ok"} /\ sess'[r].val = sess[r].val
         /\ \A q \in Requests \ {r} : /\ pc'[q] = pc[q] /\ sess'[q] = sess[q]
                                      /\ cookie'[q] = cookie[q]
<1>1. CASE \E s \in SIDs : pc[r] \in {"write", "update"} /\ Written(r, s)
  BY <1>1 DEF Written, Goto, SessionsTypes
<1>2. CASE WriteFails(r)
  BY <1>2 DEF WriteFails, Fail, Goto, SessionsTypes
<1>3. CASE ReadForUpdate(r)
  BY <1>3 DEF ReadForUpdate, Goto, SessionsTypes
<1>4. CASE PutSession(r)
  BY <1>4, <1>1 DEF PutSession, SessionsTypes
<1>5. CASE UpdateSession(r)
  <2>1. pc[r] \in {"write", "update"} /\ Written(r, sess[r].id)
    BY <1>5 DEF UpdateSession
  <2> QED BY <2>1 DEF Written, Goto, SessionsTypes
<1> QED BY <1>1, <1>2, <1>3, <1>4, <1>5 DEF StorageStep, CreateSession

LEMMA StoreSessionKeeps ==
  ASSUME SSOInv, NEW r \in Requests, StoreSession(r), UNCHANGED backend
  PROVE  SSOInv'
<1>0. /\ SessionsInv /\ SessionsTypes /\ SSOTypes
      /\ Unserved(r) /\ Served(r) /\ CameWithToken(r)
  BY DEF SSOInv, SessionsInv
<1>1. UNCHANGED <<token, flows, drawn, granted, spent, logouts>>
  BY DEF StoreSession
<1>2. CASE LookupFails(r)
  <2>1. pc[r] = "lookup" /\ Fail(r) /\ pc'[r] = "error"
    BY <1>0, <1>2 DEF LookupFails, Fail, Goto, SessionsTypes
  <2>2. job' = [job EXCEPT ![r].out = Keep, ![r].answer = "internal"]
    BY <2>1 DEF StoreSession
  <2>3. job[r].served = "not"
    BY <1>0, <2>1 DEF Unserved
  <2>4. job' = [job EXCEPT ![r].out = Keep, ![r].served = "not",
                           ![r].answer = "internal"]
    <3>1. [job[r] EXCEPT !.out = Keep, !.answer = "internal"]
            = [job[r] EXCEPT !.out = Keep, !.served = "not", !.answer = "internal"]
      BY <1>0, <2>3 DEF SSOTypes, Jobs
    <3> QED BY <1>0, <2>2, <3>1 DEF SSOTypes
  <2> QED BY <1>1, <2>1, <2>4, FailingKeeps DEF InFlight
<1>3. CASE StorageStep(r)
  <2>1. SessionsInv' /\ NothingNew
    BY <1>0, <1>3, StorageKeeps, StorageNothingNew
  <2>2. /\ pc[r] \in {"write", "update"} /\ clean' = clean
        /\ \/ pc'[r] = "error"
           \/ pc'[r] \in {"update", "ok"} /\ sess'[r].val = sess[r].val
        /\ \A q \in Requests \ {r} : /\ pc'[q] = pc[q] /\ sess'[q] = sess[q]
                                     /\ cookie'[q] = cookie[q]
    BY <1>0, <1>3, StorageMoves
  <2>3. \/ pc'[r] # "error" /\ job' = job
        \/ /\ pc'[r] = "error"
           /\ job' = [job EXCEPT ![r].out = Keep, ![r].answer = "internal"]
    BY DEF StoreSession
  <2>4. SSOTypes' /\ job'[r].kind = job[r].kind /\ job'[r].nonce = job[r].nonce
        /\ job'[r].token = job[r].token /\ job'[r].out \in {Keep, job[r].out}
        /\ \A q \in Requests \ {r} : job'[q] = job[q]
    <3>1. [job[r] EXCEPT !.out = Keep, !.answer = "internal"] \in Jobs
      BY <1>0 DEF SSOTypes, Jobs
    <3>2. job' \in [Requests -> Jobs]
      BY <1>0, <2>3, <3>1 DEF SSOTypes
    <3>3. SSOTypes'
      BY <1>0, <1>1, <3>2 DEF SSOTypes
    <3> QED BY <1>0, <2>3, <3>3 DEF SSOTypes, Jobs
  <2>5. Unserved(r)'
    BY <1>0, <2>2, <2>4 DEF Unserved
  <2>6. Served(r)'
    <3>1. CASE pc'[r] = "error"
      BY <3>1 DEF Served
    <3>2. CASE pc'[r] # "error"
      BY <1>0, <2>2, <2>3, <3>2 DEF Served
    <3> QED BY <3>1, <3>2
  <2>7. CameWithToken(r)'
    BY <1>0, <1>1, <2>2, <2>4 DEF CameWithToken, InFlight
  <2>8. \A q \in Requests \ {r} : Unserved(q)' /\ Served(q)' /\ CameWithToken(q)'
    BY <1>1, <2>2, <2>4, OthersStay
  <2>9. \A q \in Requests :
          /\ job'[q].nonce \in {NoNonce, job[q].nonce} \cup flows[Home[q]]
          /\ job'[q].token \in {NoUser, job[q].token, token[Home[q]]}
          /\ job'[q].out \in {Keep, job[q].out}
    BY <2>4
  <2> QED BY <1>1, <2>1, <2>4, <2>5, <2>6, <2>7, <2>8, <2>9, QuietStep
<1> QED BY <1>2, <1>3 DEF StoreSession

\* What is left of a request that is over.
LEMMA OverLeaves ==
  ASSUME SSOInv, NEW r \in Requests, Deliver(r) \/ ResponseLost(r),
         job' = [job EXCEPT ![r] = NoJob]
  PROVE  /\ pc'[r] = "idle" /\ sess'[r] = NewSession /\ cookie'[r] = NoSID
         /\ job'[r] = NoJob
         /\ \A q \in Requests \ {r} : /\ pc'[q] = pc[q] /\ sess'[q] = sess[q]
                                      /\ cookie'[q] = cookie[q]
                                      /\ job'[q] = job[q] /\ clean'[q] = clean[q]
         /\ Unserved(r)' /\ Served(r)' /\ CameWithToken(r)'
         /\ job' \in [Requests -> Jobs]
<1>0. SessionsTypes /\ SSOTypes
  BY DEF SSOInv, SessionsInv
<1>1. Finish({r}) /\ clean' = [clean EXCEPT ![r] = TRUE]
  BY DEF Deliver, ResponseLost
<1>2. /\ pc'[r] = "idle" /\ sess'[r] = NewSession /\ cookie'[r] = NoSID
      /\ job'[r] = NoJob
      /\ \A q \in Requests \ {r} : /\ pc'[q] = pc[q] /\ sess'[q] = sess[q]
                                   /\ cookie'[q] = cookie[q]
                                   /\ job'[q] = job[q] /\ clean'[q] = clean[q]
  BY <1>0, <1>1 DEF Finish, SessionsTypes, SSOTypes
<1>3. NoJob \in Jobs /\ NoJob.kind = "none"
  BY DEF NoJob, Job, Jobs
<1>4. Unserved(r)' /\ Served(r)' /\ CameWithToken(r)'
  BY <1>2, <1>3 DEF Unserved, Served, CameWithToken, InFlight
<1> QED BY <1>0, <1>2, <1>3, <1>4 DEF SSOTypes

LEMMA LoseResponseKeeps ==
  ASSUME SSOInv, NEW r \in Requests, LoseResponse(r), UNCHANGED backend
  PROVE  SSOInv'
<1>0. SessionsInv /\ SSOTypes /\ ResponseLost(r) /\ job' = [job EXCEPT ![r] = NoJob]
  BY DEF SSOInv, LoseResponse
<1>1. UNCHANGED <<token, flows, drawn, granted, spent, logouts>>
  BY DEF LoseResponse
<1>2. SessionsInv' /\ NothingNew
  BY <1>0, ResponseLostKeeps, OverNothingNew
<1>3. /\ job'[r] = NoJob
      /\ \A q \in Requests \ {r} : /\ pc'[q] = pc[q] /\ sess'[q] = sess[q]
                                   /\ cookie'[q] = cookie[q]
                                   /\ job'[q] = job[q] /\ clean'[q] = clean[q]
      /\ Unserved(r)' /\ Served(r)' /\ CameWithToken(r)'
      /\ job' \in [Requests -> Jobs]
  BY <1>0, OverLeaves
<1>4. SSOTypes'
  BY <1>0, <1>1, <1>3 DEF SSOTypes
<1>5. \A q \in Requests \ {r} : Unserved(q)' /\ Served(q)' /\ CameWithToken(q)'
  BY <1>1, <1>3, OthersStay
<1>6. \A q \in Requests :
        /\ job'[q].nonce \in {NoNonce, job[q].nonce} \cup flows[Home[q]]
        /\ job'[q].token \in {NoUser, job[q].token, token[Home[q]]}
        /\ job'[q].out \in {Keep, job[q].out}
  BY <1>3 DEF NoJob, Job
<1> QED BY <1>1, <1>2, <1>3, <1>4, <1>5, <1>6, QuietStep

LEMMA TokenExpiresKeeps ==
  ASSUME SSOInv, NEW b \in Browsers, TokenExpires(b), UNCHANGED backend
  PROVE  SSOInv'
<1>0. SessionsInv /\ SSOTypes
  BY DEF SSOInv
<1>1. /\ token' = [token EXCEPT ![b] = NoUser]
      /\ UNCHANGED <<store, jar, pc, sess, cookie, base, clean, known>>
      /\ UNCHANGED <<flows, drawn, job, granted, spent, logouts>>
  BY DEF TokenExpires
<1>2. SessionsInv'
  BY <1>0, <1>1, StutterKeeps DEF sessionVars
<1>3. NothingNew
  BY <1>0, <1>1, EndsNothingNew
<1>4. \A c \in Browsers : token'[c] \in {token[c], NoUser}
  BY <1>0, <1>1 DEF SSOTypes
<1>5. SSOTypes'
  BY <1>0, <1>1 DEF SSOTypes
<1>6. \A q \in Requests : Unserved(q)' /\ Served(q)' /\ CameWithToken(q)'
  BY <1>1, <1>4, OthersStay, HomeAssumption
<1> QED BY <1>1, <1>2, <1>3, <1>4, <1>5, <1>6, QuietStep

LEMMA PurgeSessionKeeps ==
  ASSUME SSOInv, NEW s \in SIDs, PurgeSession(s), UNCHANGED backend
  PROVE  SSOInv'
<1>0. SessionsInv /\ SSOTypes /\ Purge(s)
  BY DEF SSOInv, PurgeSession
<1>1. UNCHANGED <<token, flows, drawn, job, granted, spent, logouts>>
  BY DEF PurgeSession, ssoVars
<1>2. SessionsInv' /\ NothingNew
  BY <1>0, PurgeKeeps, PurgeNothingNew
<1>3. SSOTypes'
  BY <1>0, <1>1 DEF SSOTypes
<1>4. \A q \in Requests : Unserved(q)' /\ Served(q)' /\ CameWithToken(q)'
  BY <1>0, <1>1, OthersStay DEF Purge
<1> QED BY <1>1, <1>2, <1>3, <1>4, QuietStep

LEMMA RestartServerKeeps ==
  ASSUME SSOInv, RestartServer, UNCHANGED backend
  PROVE  SSOInv'
<1>0. SessionsInv /\ SSOTypes /\ Restart /\ backend = "kube"
  BY DEF SSOInv, SSOTypes, RestartServer
<1>1. /\ job' = [r \in Requests |-> NoJob]
      /\ UNCHANGED <<token, flows, drawn, granted, spent, logouts>>
  BY DEF RestartServer
<1>2. SessionsInv' /\ NothingNew
  BY <1>0, RestartKeeps, RestartNothingNew
<1>3. NoJob \in Jobs /\ NoJob.kind = "none"
  BY DEF NoJob, Job, Jobs
<1>4. SSOTypes'
  BY <1>0, <1>1, <1>3 DEF SSOTypes
<1>5. \A r \in Requests : pc'[r] = "idle" /\ sess'[r] = NewSession /\ cookie'[r] = NoSID
  BY <1>0 DEF Restart, Finish
<1>6. \A r \in Requests : Unserved(r)' /\ Served(r)' /\ CameWithToken(r)'
  BY <1>1, <1>3, <1>5 DEF Unserved, Served, CameWithToken, InFlight
<1>7. \A q \in Requests :
        /\ job'[q].nonce \in {NoNonce, job[q].nonce} \cup flows[Home[q]]
        /\ job'[q].token \in {NoUser, job[q].token, token[Home[q]]}
        /\ job'[q].out \in {Keep, job[q].out}
  BY <1>1 DEF NoJob, Job
<1> QED BY <1>1, <1>2, <1>4, <1>6, <1>7, QuietStep

-----------------------------------------------------------------------------
(* A request is served.                                                         *)

LEMMA ReturnsMoves ==
  ASSUME SSOInv, NEW r \in Requests, pc[r] = "handler", UNCHANGED backend,
         NEW data \in SessionData, NEW touched \in BOOLEAN, Serves(r, data, touched)
  PROVE  /\ SessionsInv' /\ pc'[r] \in {"write", "ok"} /\ sess'[r].val = data
         /\ clean' = clean
         /\ \A q \in Requests \ {r} : /\ pc'[q] = pc[q] /\ sess'[q] = sess[q]
                                      /\ cookie'[q] = cookie[q]
         /\ \A b \in Browsers : \A d : Has(b, d)' =>
              Has(b, d) \/ (b = Home[r] /\ d = data)
<1>0. SessionsInv /\ SessionsTypes /\ data \in Values
  BY NoData DEF SSOInv, SessionsInv
<1> DEFINE dirty == touched \/ data # sess[r].val
           l == IF dirty THEN "write" ELSE "ok"
<1>1. /\ sess' = [sess EXCEPT ![r].val = data, ![r].dirty = dirty]
      /\ pc' = [pc EXCEPT ![r] = l]
      /\ UNCHANGED <<store, jar, cookie, base, clean, known>>
  BY DEF Serves, Returns, Goto
<1>2. l \in {"write", "ok"}
  OBVIOUS
<1> HIDE DEF dirty, l
<1>3. SessionsInv'
  BY <1>0, ReturnsKeeps DEF Serves
<1>4. /\ pc'[r] = l /\ sess'[r].val = data
      /\ \A q \in Requests : sess'[q].id = sess[q].id
      /\ \A q \in Requests \ {r} : pc'[q] = pc[q] /\ sess'[q] = sess[q]
  BY <1>0, <1>1 DEF SessionsTypes
<1>5. \A b, s : (Holds(b, s)' <=> Holds(b, s)) /\ Found(s)' = Found(s)
  BY <1>1, <1>4 DEF Holds, Found
<1>6. ASSUME NEW b \in Browsers, NEW d, Has(b, d)'
      PROVE  Has(b, d) \/ (b = Home[r] /\ d = data)
  <2>1. CASE \E s \in SIDs : Holds(b, s)' /\ d = Found(s)'
    BY <2>1, <1>5 DEF Has
  <2>2. ASSUME NEW q \in Requests, Home[q] = b, d = sess'[q].val
        PROVE  Has(b, d) \/ (b = Home[r] /\ d = data)
    BY <2>2, <1>4 DEF Has
  <2> QED BY <1>6, <2>1, <2>2 DEF Has
<1> QED BY <1>1, <1>2, <1>3, <1>4, <1>6

LEMMA ServeStep ==
  ASSUME SSOInv, NEW r \in Requests, pc[r] = "handler", UNCHANGED backend,
         NEW data \in SessionData, NEW touched \in BOOLEAN, Serves(r, data, touched),
         NEW j \in Jobs, job' = [job EXCEPT ![r] = j],
         j.token = job[r].token, j.kind = job[r].kind,
         drawn' \in SUBSET Nonces, drawn \subseteq drawn',
         granted' \in [Browsers -> SUBSET Users],
         \A b \in Browsers : granted[b] \subseteq granted'[b],
         Earned(Home[r], data.user)', Earned(Home[r], j.out)',
         \A n \in Nonces : n \in {data.nonce, j.nonce} =>
           Started(Home[r], n) \/ n \in drawn' \ drawn,
         data.nonce \notin spent,
         j.kind = "callback" => j.nonce # NoNonce,
         Served(r)'
  PROVE  SSOInv'
<1>0. /\ SSOTypes /\ TokensEarned /\ SessionsEarned /\ NoncesApart /\ SpentAreGone
      /\ CameWithToken(r) /\ Home[r] \in Browsers
  BY HomeAssumption DEF SSOInv
<1>1. /\ SessionsInv' /\ pc'[r] \in {"write", "ok"} /\ sess'[r].val = data
      /\ clean' = clean
      /\ \A q \in Requests \ {r} : /\ pc'[q] = pc[q] /\ sess'[q] = sess[q]
                                   /\ cookie'[q] = cookie[q]
  BY ReturnsMoves
<1>2. \A b \in Browsers : \A d : Has(b, d)' => Has(b, d) \/ (b = Home[r] /\ d = data)
  BY ReturnsMoves
<1>3. UNCHANGED <<token, flows, spent, logouts>>
  BY DEF Serves
<1>4. job'[r] = j /\ \A q \in Requests \ {r} : job'[q] = job[q]
  BY <1>0 DEF SSOTypes
<1>5. SSOTypes'
  BY <1>0, <1>3 DEF SSOTypes
<1>6. \A b \in Browsers : \A u : Earned(b, u) => Earned(b, u)'
  BY DEF Earned
<1>7. TokensEarned'
  BY <1>0, <1>3, <1>4, <1>6, HomeAssumption DEF TokensEarned, Earned
<1>8. SessionsEarned'
  BY <1>0, <1>2, <1>6 DEF SessionsEarned, Earned
<1>9. ASSUME NEW b \in Browsers, NEW n \in Nonces, Started(b, n)'
      PROVE  Started(b, n) \/ (b = Home[r] /\ n \in drawn' \ drawn)
  <2>1. CASE n \in flows'[b]
    BY <2>1, <1>3 DEF Started
  <2>2. ASSUME NEW q \in Requests, Home[q] = b, job'[q].nonce = n
        PROVE  Started(b, n) \/ (b = Home[r] /\ n \in drawn' \ drawn)
    <3>1. CASE q = r
      BY <2>2, <3>1, <1>4
    <3>2. CASE q # r
      BY <2>2, <3>2, <1>4 DEF Started
    <3> QED BY <3>1, <3>2
  <2>3. ASSUME NEW d \in SessionData, Has(b, d)', d.nonce = n
        PROVE  Started(b, n) \/ (b = Home[r] /\ n \in drawn' \ drawn)
    <3>1. CASE Has(b, d)
      BY <2>3, <3>1 DEF Started
    <3>2. CASE b = Home[r] /\ d = data
      BY <2>3, <3>2
    <3> QED BY <2>3, <3>1, <3>2, <1>2
  <2> QED BY <1>9, <2>1, <2>2, <2>3 DEF Started
<1>10. NoncesApart'
  BY <1>0, <1>9 DEF NoncesApart
<1>11. SpentAreGone'
  BY <1>0, <1>2, <1>3 DEF SpentAreGone
<1>12. Unserved(r)' /\ CameWithToken(r)'
  BY <1>0, <1>1, <1>3, <1>4 DEF Unserved, CameWithToken, InFlight
<1>13. \A q \in Requests \ {r} : Unserved(q)' /\ Served(q)' /\ CameWithToken(q)'
  BY <1>1, <1>3, <1>4, OthersStay
<1> QED BY <1>1, <1>5, <1>7, <1>8, <1>10, <1>11, <1>12, <1>13 DEF SSOInv

\* The session as the handler finds it, and what of it is safe to leave.
LEMMA ArrivedFormed ==
  ASSUME SSOInv, NEW r \in Requests
  PROVE  /\ Arrived(r) \in SessionData /\ Arrived(r).nonce \notin spent
         /\ \A n \in Nonces : n \in {Arrived(r).nonce, job[r].nonce} => Started(Home[r], n)
<1>0. SessionsTypes /\ SSOTypes /\ SpentAreGone /\ Home[r] \in Browsers
  BY HomeAssumption DEF SSOInv, SessionsInv
<1> DEFINE d == sess[r].val
<1>1. d \in SessionData /\ Has(Home[r], d)
  BY <1>0, NoData DEF SessionsTypes, Has
<1>2. Arrived(r) = [d EXCEPT !.redirect = d.redirect \/ job[r].redirect]
  BY DEF Arrived, WithRedirect
<1>3. job[r].redirect \in BOOLEAN
  BY <1>0 DEF SSOTypes, Jobs
<1>4. Arrived(r) \in SessionData /\ Arrived(r).nonce = d.nonce
  BY <1>1, <1>2, <1>3 DEF SessionData
<1>5. d.nonce \notin spent
  BY <1>0, <1>1 DEF SpentAreGone
<1>6. \A n \in Nonces : n \in {d.nonce, job[r].nonce} => Started(Home[r], n)
  BY <1>1 DEF Started
<1> QED BY <1>4, <1>5, <1>6

LEMMA ServeRedirectKeeps ==
  ASSUME SSOInv, NEW r \in Requests, ServeRedirect(r), UNCHANGED backend
  PROVE  SSOInv'
<1>0. /\ SSOTypes /\ TokensEarned /\ Unserved(r) /\ pc[r] = "handler"
      /\ job[r] \in Jobs
  BY DEF SSOInv, SSOTypes, ServeRedirect
<1> DEFINE A == Arrived(r)
           t == job[r].token
<1>1. PICK u \in UsersByToken(t) :
        /\ Redirected(u, A)
        /\ Serves(r, [WithUser(A, u) EXCEPT !.redirect = FALSE], TRUE)
        /\ \E out \in TokenBefore(t, u) :
             job' = [job EXCEPT ![r].out = out, ![r].served = "redirect"]
  BY DEF ServeRedirect
<1>2. PICK out \in TokenBefore(t, u) :
        job' = [job EXCEPT ![r].out = out, ![r].served = "redirect"]
  BY <1>1
<1>3. UNCHANGED <<drawn, granted>>
  BY DEF ServeRedirect
<1>4. u = t /\ u \in Users /\ out \in {Keep, u}
  BY <1>0, <1>1 DEF UsersByToken, Redirected, TokenBefore, Jobs
<1>5. /\ A \in SessionData /\ A.nonce \notin spent
      /\ \A n \in Nonces : n \in {A.nonce, job[r].nonce} => Started(Home[r], n)
  BY ArrivedFormed
<1> DEFINE data == [WithUser(A, u) EXCEPT !.redirect = FALSE]
           j == [job[r] EXCEPT !.out = out, !.served = "redirect"]
<1>6. data \in SessionData /\ data.user = u /\ data.nonce = A.nonce
  BY <1>4, <1>5 DEF WithUser, SessionData
<1>7. /\ j \in Jobs /\ j.token = t /\ j.kind = job[r].kind /\ j.nonce = job[r].nonce
      /\ j.out = out /\ j.served = "redirect"
  BY <1>0, <1>4 DEF Jobs
<1>8. Serves(r, data, TRUE) /\ job' = [job EXCEPT ![r] = j]
  BY <1>0, <1>1, <1>2 DEF SSOTypes
<1> HIDE DEF data, j, A
<1>d. PICK d \in SessionData, k \in Jobs : d = data /\ k = j
  BY <1>6, <1>7
<1>9. job'[r] = k /\ sess'[r].val = d
  BY <1>0, <1>8, <1>d, ReturnsMoves DEF SSOTypes
<1>10. Served(r)'
  BY <1>4, <1>6, <1>7, <1>9, <1>d DEF Served
<1>11. Earned(Home[r], d.user)' /\ Earned(Home[r], k.out)'
  BY <1>0, <1>3, <1>4, <1>6, <1>7, <1>d, SSOAssumption DEF TokensEarned, Earned
<1>12. /\ drawn' \in SUBSET Nonces /\ drawn \subseteq drawn'
       /\ granted' \in [Browsers -> SUBSET Users]
       /\ \A b \in Browsers : granted[b] \subseteq granted'[b]
  BY <1>0, <1>3 DEF SSOTypes
<1>13. \A n \in Nonces : n \in {d.nonce, k.nonce} => Started(Home[r], n)
  BY <1>5, <1>6, <1>7, <1>d
<1>14. d.nonce \notin spent /\ (k.kind = "callback" => k.nonce # NoNonce)
  BY <1>0, <1>5, <1>6, <1>7, <1>d DEF Unserved
<1>15. /\ Serves(r, d, TRUE) /\ job' = [job EXCEPT ![r] = k]
       /\ k.token = job[r].token /\ k.kind = job[r].kind
  BY <1>7, <1>8, <1>d
<1> QED BY <1>0, <1>10, <1>11, <1>12, <1>13, <1>14, <1>15, ServeStep

\* What the handlers make of a session that the filters gave the user u.
LEMMA HandledFormed ==
  ASSUME NEW j \in Jobs, j.kind # "none", NEW d \in SessionData,
         NEW u \in Users \cup {NoUser}, NEW n \in Nonces \cup {NoNonce},
         NEW data, data = Handled(j, WithUser(d, u), n)
  PROVE  /\ data \in SessionData
         /\ j.kind \in {"page", "start"} => data.user = u
         /\ j.kind = "logout" => data.user = NoUser
         /\ j.kind = "callback" => data.user = j.account /\ data.nonce = NoNonce
         /\ j.kind \in {"page", "logout"} => data.nonce = d.nonce
         /\ j.kind = "start" => data.nonce = n
<1>0. j.kind \in {"page", "start", "callback", "logout"} /\ j.account \in Users \cup {NoUser}
  BY DEF Jobs
<1> DEFINE w == WithUser(d, u)
<1>1. w \in SessionData /\ w.user = u /\ w.nonce = d.nonce
  BY DEF WithUser, SessionData
<1> HIDE DEF w
<1>2. CASE j.kind = "page"
  BY <1>1, <1>2 DEF Handled, w
<1>3. CASE j.kind = "start"
  <2>1. Handled(j, w, n) = [w EXCEPT !.nonce = n]
    BY <1>3 DEF Handled
  <2> QED BY <1>1, <1>3, <2>1 DEF SessionData, w
<1>4. CASE j.kind = "logout"
  <2>1. Handled(j, w, n) = [w EXCEPT !.user = NoUser]
    BY <1>4 DEF Handled, WithUser
  <2> QED BY <1>1, <1>4, <2>1 DEF SessionData, w
<1>5. CASE j.kind = "callback"
  <2>1. Handled(j, w, n) = [[w EXCEPT !.user = j.account] EXCEPT !.nonce = NoNonce]
    BY <1>5 DEF Handled, WithUser
  <2>2. [w EXCEPT !.user = j.account] \in SessionData
    BY <1>0, <1>1 DEF SessionData
  <2> QED BY <1>0, <1>1, <1>5, <2>1, <2>2 DEF SessionData, w
<1> QED BY <1>0, <1>2, <1>3, <1>4, <1>5

\* What is done to the token's cookie, when a token t and the user u it is found
\* to name meet a session that ends with user v.
LEMMA TokenFormed ==
  ASSUME NEW t \in Users \cup {NoUser}, NEW u \in UsersByToken(t),
         NEW v \in Users \cup {NoUser}, NEW before \in TokenBefore(t, u)
  PROVE  LET out == TokenAfter(before, u, v)
         IN  /\ out \in Users \cup {Keep, Clear}
             /\ out \in Users => out \in {t, v}
             /\ v \in {u, NoUser} =>
                  \/ out = Clear \/ (out = v /\ v \in Users)
                  \/ out = Keep /\ t \in {v, NoUser}
             /\ t = NoUser /\ v # NoUser => out = v
<1>1. u = NoUser \/ (u = t /\ u \in Users)
  BY DEF UsersByToken
<1>2. CASE t = NoUser
  <2>1. u = NoUser /\ before = Keep
    BY <1>1, <1>2, SSOAssumption DEF TokenBefore
  <2> QED BY <1>2, <2>1, SSOAssumption DEF TokenAfter
<1>3. CASE t # NoUser /\ u = NoUser
  <2>1. before = Clear
    BY <1>3 DEF TokenBefore
  <2> QED BY <1>3, <2>1, SSOAssumption DEF TokenAfter
<1>4. CASE t # NoUser /\ u # NoUser
  <2>1. u = t /\ before \in {Keep, u}
    BY <1>1, <1>4 DEF TokenBefore
  <2> QED BY <1>4, <2>1, SSOAssumption DEF TokenAfter
<1> QED BY <1>2, <1>3, <1>4

LEMMA ServeHandlerKeeps ==
  ASSUME SSOInv, NEW r \in Requests, ServeHandler(r), UNCHANGED backend
  PROVE  SSOInv'
<1>0. /\ SSOTypes /\ TokensEarned /\ Unserved(r) /\ pc[r] = "handler"
      /\ job[r] \in Jobs /\ job[r].kind # "none" /\ Home[r] \in Browsers
  BY HomeAssumption DEF SSOInv, SSOTypes, Unserved, ServeHandler
<1> DEFINE A == Arrived(r)
           t == job[r].token
           kind == job[r].kind
           Touched(u) == job[r].redirect \/ u # NoUser \/ kind \in {"start", "callback"}
           Data(u, n) == Handled(job[r], WithUser(A, u), n)
           Job2(out, n) == [job[r] EXCEPT !.out = out, !.served = "handler",
                                          !.nonce = IF kind = "start" THEN n ELSE @]
<1>1. PICK u \in UsersByToken(t),
           n \in (IF kind = "start" THEN Nonces \ drawn ELSE {NoNonce}) :
        /\ Serves(r, Data(u, n), Touched(u))
        /\ \E before \in TokenBefore(t, u) :
             job' = [job EXCEPT ![r].out = TokenAfter(before, u, Data(u, n).user),
                                ![r].served = "handler",
                                ![r].nonce = IF kind = "start" THEN n ELSE @]
        /\ drawn' = IF kind = "start" THEN drawn \cup {n} ELSE drawn
  BY DEF ServeHandler
<1>2. PICK before \in TokenBefore(t, u) :
        job' = [job EXCEPT ![r].out = TokenAfter(before, u, Data(u, n).user),
                           ![r].served = "handler",
                           ![r].nonce = IF kind = "start" THEN n ELSE @]
  BY <1>1
<1>3. granted' = IF kind = "callback"
                 THEN [granted EXCEPT ![Home[r]] = @ \cup {job[r].account}]
                 ELSE granted
  BY DEF ServeHandler
<1>4. /\ t \in Users \cup {NoUser} /\ u \in {t, NoUser}
      /\ n \in Nonces \cup {NoNonce} /\ (kind = "start" => n \in Nonces \ drawn)
  BY <1>0 DEF UsersByToken, Jobs
<1>5. /\ A \in SessionData /\ A.nonce \notin spent
      /\ \A m \in Nonces : m \in {A.nonce, job[r].nonce} => Started(Home[r], m)
  BY ArrivedFormed
<1>6. kind = "callback" => job[r].account \in Users
  BY <1>0 DEF ServeHandler, MayRedeem, Jobs
<1> HIDE DEF A
<1>7. PICK d :
        /\ d = Data(u, n) /\ d \in SessionData
        /\ kind \in {"page", "start"} => d.user = u
        /\ kind = "logout" => d.user = NoUser
        /\ kind = "callback" => d.user = job[r].account /\ d.nonce = NoNonce
        /\ kind \in {"page", "logout"} => d.nonce = A.nonce
        /\ kind = "start" => d.nonce = n
  <2>1. PICK d : d = Data(u, n)
    OBVIOUS
  <2>2. u \in Users \cup {NoUser}
    BY <1>4
  <2>3. d = Handled(job[r], WithUser(A, u), n)
    BY <2>1
  <2> QED BY <1>0, <1>4, <1>5, <2>2, <2>3, HandledFormed
<1>8. d.user \in Users \cup {NoUser}
  BY <1>7 DEF SessionData
<1>9. PICK out :
        /\ out = TokenAfter(before, u, d.user)
        /\ out \in Users \cup {Keep, Clear}
        /\ out \in Users => out \in {t, d.user}
        /\ d.user \in {u, NoUser} =>
             \/ out = Clear \/ (out = d.user /\ d.user \in Users)
             \/ out = Keep /\ t \in {d.user, NoUser}
        /\ t = NoUser /\ d.user # NoUser => out = d.user
  BY <1>4, <1>8, TokenFormed
<1>10. PICK k \in Jobs :
         /\ k = Job2(out, n)
         /\ k.token = t /\ k.kind = kind /\ k.out = out /\ k.served = "handler"
         /\ k.account = job[r].account
         /\ k.nonce = IF kind = "start" THEN n ELSE job[r].nonce
  <2>1. Job2(out, n) \in Jobs
    BY <1>0, <1>4, <1>9 DEF Jobs
  <2>2. /\ Job2(out, n).token = t /\ Job2(out, n).kind = kind
        /\ Job2(out, n).out = out /\ Job2(out, n).served = "handler"
        /\ Job2(out, n).account = job[r].account
        /\ Job2(out, n).nonce = IF kind = "start" THEN n ELSE job[r].nonce
    BY <1>0 DEF Jobs
  <2> HIDE DEF Job2
  <2> QED BY <2>1, <2>2
<1>11. job' = [job EXCEPT ![r] = k]
  BY <1>0, <1>2, <1>7, <1>9, <1>10 DEF SSOTypes
<1>12. PICK touched \in BOOLEAN : touched = Touched(u)
  BY <1>0 DEF Jobs
<1>13. Serves(r, d, touched)
  BY <1>1, <1>7, <1>12
<1> HIDE DEF A, Data, Job2, Touched
<1>14. job'[r] = k /\ sess'[r].val = d
  BY <1>0, <1>7, <1>11, <1>13, ReturnsMoves DEF SSOTypes
<1>15. Served(r)'
  <2>1. kind \in {"page", "start", "logout", "callback"}
    BY <1>0 DEF Jobs
  <2>2. kind = "start" => k.nonce # NoNonce
    BY <1>4, <1>10, SSOAssumption
  <2>3. kind = "logout" => d.user = NoUser
    BY <1>7
  <2>4. kind = "callback" => d.user = k.account /\ d.nonce = NoNonce /\ d.user # NoUser
    BY <1>6, <1>7, <1>10, SSOAssumption
  <2>5. kind # "callback" => d.user \in {u, NoUser}
    BY <1>7, <2>1
  <2>6. \/ kind = "callback" /\ t # NoUser
        \/ out = Clear \/ (out = d.user /\ d.user \in Users)
        \/ out = Keep /\ t \in {d.user, NoUser}
    BY <1>8, <1>9, <2>4, <2>5
  <2> QED BY <1>9, <1>10, <1>14, <2>2, <2>3, <2>4, <2>6 DEF Served
<1>16. /\ drawn' \in SUBSET Nonces /\ drawn \subseteq drawn'
       /\ granted' \in [Browsers -> SUBSET Users]
       /\ \A b \in Browsers : granted[b] \subseteq granted'[b]
  BY <1>0, <1>1, <1>3, <1>4, <1>6 DEF SSOTypes
<1>17. Earned(Home[r], d.user)' /\ Earned(Home[r], k.out)'
  <2>0. PICK x : x = t
    OBVIOUS
  <2>1. Earned(Home[r], x)'
    BY <1>0, <1>16, <2>0 DEF TokensEarned, Earned
  <2>2. Earned(Home[r], d.user)'
    <3>1. CASE kind = "callback"
      BY <1>0, <1>3, <1>7, <3>1 DEF Earned, SSOTypes
    <3>2. CASE kind # "callback"
      <4>1. d.user \in {x, NoUser}
        BY <1>0, <1>4, <1>7, <2>0, <3>2 DEF Jobs
      <4> QED BY <2>1, <4>1, SSOAssumption DEF Earned
    <3> QED BY <3>1, <3>2
  <2>3. out \in Users => out \in {x, d.user}
    BY <1>9, <2>0
  <2>4. k.out = out
    BY <1>10
  <2> QED BY <2>1, <2>2, <2>3, <2>4 DEF Earned
<1>18. \A m \in Nonces : m \in {d.nonce, k.nonce} =>
         Started(Home[r], m) \/ m \in drawn' \ drawn
  BY <1>0, <1>1, <1>4, <1>5, <1>7, <1>10, SSOAssumption DEF Jobs
<1>19. d.nonce \notin spent
  BY <1>0, <1>4, <1>5, <1>7, SSOAssumption DEF SSOTypes, Jobs
<1>20. k.kind = "callback" => k.nonce # NoNonce
  BY <1>0, <1>10 DEF Unserved
<1> QED BY <1>0, <1>7, <1>10, <1>11, <1>13, <1>15, <1>16, <1>17, <1>18, <1>19, <1>20,
           ServeStep

-----------------------------------------------------------------------------
(* A request is answered.                                                       *)

\* Its browser is left with what it was answered with, if it had no other
\* request in flight.
LEMMA AfterAlone ==
  ASSUME SSOInv, NEW r \in Requests, Deliver(r), pc[r] = "ok", clean[r],
         job' = [job EXCEPT ![r] = NoJob]
  PROVE  /\ \A data : Has(Home[r], data)' => data \in {Empty, sess[r].val}
         /\ \A q \in Requests : Home[q] = Home[r] => job'[q] = NoJob
<1>0. SessionsTypes /\ Home[r] \in Browsers /\ WorksAlone(r)
  BY HomeAssumption DEF SSOInv, SessionsInv
<1>1. Overlapping(r) = {} /\ InItsSession(r)
  BY <1>0 DEF WorksAlone, InFlight
<1>2. /\ jar'[Home[r]] = IF cookie[r] = NoSID THEN jar[Home[r]] ELSE cookie[r]
      /\ store' = store
  BY <1>0 DEF Deliver, SessionsTypes
<1>3. /\ sess'[r] = NewSession /\ cookie'[r] = NoSID /\ job'[r] = NoJob
      /\ \A q \in Requests \ {r} : /\ sess'[q] = sess[q] /\ cookie'[q] = cookie[q]
                                   /\ job'[q] = job[q]
  BY OverLeaves
<1>4. ASSUME NEW q \in Requests, Home[q] = Home[r]
      PROVE  sess'[q] = NewSession /\ cookie'[q] = NoSID /\ job'[q] = NoJob
  <2>1. CASE q = r
    BY <1>3, <2>1
  <2>2. CASE q # r
    <3>1. pc[q] = "idle"
      BY <1>1, <1>4, <2>2 DEF Overlapping, InFlight
    <3>2. Unserved(q)
      BY DEF SSOInv
    <3> QED BY <1>3, <2>2, <3>1, <3>2 DEF Unserved
  <2> QED BY <2>1, <2>2
<1>5. Found(jar[Home[r]])' = sess[r].val
  <2>1. Found(IF cookie[r] = NoSID THEN jar[Home[r]] ELSE cookie[r]) = sess[r].val
    BY <1>1 DEF InItsSession
  <2> QED BY <1>2, <2>1 DEF Found
<1>6. ASSUME NEW data, Has(Home[r], data)' PROVE data \in {Empty, sess[r].val}
  <2>1. ASSUME NEW s \in SIDs, Holds(Home[r], s)', data = Found(s)'
        PROVE  data = sess[r].val
    <3>1. jar'[Home[r]] = s
      BY <1>4, <2>1, SIDAssumption DEF Holds, NewSession
    <3> QED BY <1>5, <2>1, <3>1 DEF Found
  <2>2. ASSUME NEW q \in Requests, Home[q] = Home[r], data = sess'[q].val
        PROVE  data = Empty
    BY <1>4, <2>2, NoData
  <2> QED BY <1>6, <2>1, <2>2 DEF Has
<1> QED BY <1>4, <1>6

\* What a browser has after an answer that reached it.
LEMMA Delivered ==
  ASSUME SSOInv, NEW r \in Requests, DeliverResponse(r)
  PROVE  /\ token'[Home[r]] = TokenJar(token[Home[r]], job[r].out)
         /\ \A b \in Browsers \ {Home[r]} : token'[b] = token[b]
         /\ pc[r] = "ok" /\ clean[r] =>
              /\ known'[Home[r]] = sess[r].val
              /\ token[Home[r]] \in {job[r].token, NoUser}
  BY HomeAssumption
  DEF SSOInv, SSOTypes, SessionsInv, SessionsTypes, DeliverResponse, Deliver,
      CameWithToken, InFlight

\* A logout that had the session to itself leaves the browser without a token.
LEMMA LoggedOut ==
  ASSUME SSOInv, NEW r \in Requests, DeliverResponse(r), AnsweredAlone(r, "logout")
  PROVE  token'[Home[r]] = NoUser /\ sess[r].val.user = NoUser
<1>1. Served(r)
  BY DEF SSOInv
<1>2. sess[r].val.user = NoUser
  BY <1>1 DEF Served, AnsweredAlone
<1>3. job[r].out = Clear \/ (job[r].out = Keep /\ job[r].token = NoUser)
  BY <1>1, <1>2, SSOAssumption DEF Served, AnsweredAlone
<1>4. Clear # Keep
  BY DEF Clear, Keep
<1>5. /\ token'[Home[r]] = TokenJar(token[Home[r]], job[r].out)
      /\ token[Home[r]] \in {job[r].token, NoUser}
  BY Delivered DEF AnsweredAlone
<1> QED BY <1>2, <1>3, <1>4, <1>5 DEF TokenJar

LEMMA DeliverResponseKeeps ==
  ASSUME SSOInv, NEW r \in Requests, DeliverResponse(r), UNCHANGED backend
  PROVE  SSOInv'
<1>0. /\ SessionsInv /\ SSOTypes /\ TokensEarned /\ SessionsEarned /\ NoncesApart
      /\ SpentAreGone /\ Unserved(r) /\ Served(r) /\ Home[r] \in Browsers
      /\ job[r] \in Jobs
  BY HomeAssumption DEF SSOInv, SSOTypes
<1>1. /\ Deliver(r) /\ job' = [job EXCEPT ![r] = NoJob]
      /\ UNCHANGED <<drawn, logouts>>
      /\ token' = [token EXCEPT ![Home[r]] = TokenJar(@, job[r].out)]
      /\ flows' = IF pc[r] = "ok" /\ job[r].kind = "start" /\ job[r].served = "handler"
                  THEN [flows EXCEPT ![Home[r]] = @ \cup {job[r].nonce}] ELSE flows
      /\ granted' = IF AnsweredAlone(r, "logout")
                    THEN [granted EXCEPT ![Home[r]] = {}] ELSE granted
      /\ spent' = IF AnsweredAlone(r, "callback") THEN spent \cup {job[r].nonce}
                  ELSE spent
  BY DEF DeliverResponse
<1>2. SessionsInv' /\ NothingNew
  BY <1>0, <1>1, DeliverKeeps, OverNothingNew
<1>3. /\ job'[r] = NoJob
      /\ \A q \in Requests \ {r} : /\ pc'[q] = pc[q] /\ sess'[q] = sess[q]
                                   /\ cookie'[q] = cookie[q]
                                   /\ job'[q] = job[q] /\ clean'[q] = clean[q]
      /\ Unserved(r)' /\ Served(r)' /\ CameWithToken(r)'
      /\ job' \in [Requests -> Jobs]
  BY <1>1, OverLeaves
<1>4. NoJob.nonce = NoNonce /\ NoJob.token = NoUser /\ NoJob.out = Keep
  BY DEF NoJob, Job
<1>5. AnsweredAlone(r, "callback") =>
        job[r].nonce \in Nonces /\ sess[r].val.nonce = NoNonce
  BY <1>0 DEF AnsweredAlone, Unserved, Served, Jobs
<1>6. pc[r] = "ok" /\ job[r].kind = "start" /\ job[r].served = "handler" =>
        job[r].nonce \in Nonces
  BY <1>0 DEF Served, Jobs
<1>7. \A n \in Nonces : job[r].nonce = n => Started(Home[r], n) /\ n \in drawn
  BY <1>0 DEF Started, NoncesApart
<1>8. SSOTypes'
  <2>1. TokenJar(token[Home[r]], job[r].out) \in Users \cup {NoUser}
    BY <1>0 DEF TokenJar, SSOTypes, Jobs
  <2>2. token' \in [Browsers -> Users \cup {NoUser}]
    BY <1>0, <1>1, <2>1 DEF SSOTypes
  <2>3. flows' \in [Browsers -> SUBSET Nonces]
    BY <1>0, <1>1, <1>6 DEF SSOTypes
  <2>4. granted' \in [Browsers -> SUBSET Users]
    BY <1>0, <1>1 DEF SSOTypes
  <2>5. spent' \in SUBSET drawn
    BY <1>0, <1>1, <1>5, <1>7 DEF SSOTypes
  <2> QED BY <1>0, <1>1, <1>3, <2>2, <2>3, <2>4, <2>5 DEF SSOTypes
<1>9. ASSUME NEW b \in Browsers, NEW n \in Nonces, Started(b, n)'
      PROVE  Started(b, n)
  <2>1. ASSUME n \in flows'[b] PROVE Started(b, n)
    <3>1. n \in flows[b] \/ (b = Home[r] /\ n = job[r].nonce)
      BY <1>0, <1>1, <2>1 DEF SSOTypes
    <3> QED BY <1>7, <3>1 DEF Started
  <2>2. ASSUME NEW q \in Requests, Home[q] = b, job'[q].nonce = n
        PROVE  Started(b, n)
    BY <1>3, <1>4, <2>2, SSOAssumption DEF Started
  <2>3. ASSUME NEW data \in SessionData, Has(b, data)', data.nonce = n
        PROVE  Started(b, n)
    <3>1. data # Empty
      BY <2>3, NoData, SSOAssumption
    <3> QED BY <1>2, <2>3, <3>1 DEF Started, NothingNew
  <2> QED BY <1>9, <2>1, <2>2, <2>3 DEF Started
<1>10. NoncesApart'
  BY <1>0, <1>1, <1>9 DEF NoncesApart
<1>11. AnsweredAlone(r, "callback") \/ AnsweredAlone(r, "logout") =>
         /\ \A data : Has(Home[r], data)' => data \in {Empty, sess[r].val}
         /\ \A q \in Requests : Home[q] = Home[r] => job'[q] = NoJob
  BY <1>1, AfterAlone DEF AnsweredAlone
<1>12. SpentAreGone'
  <2>1. ASSUME NEW n \in spent', NEW b \in Browsers, NEW data \in SessionData,
               Has(b, data)', data.nonce = n
        PROVE  FALSE
    <3>1. n \in Nonces
      BY <1>0, <1>1, <1>5, <2>1 DEF SSOTypes
    <3>2. data # Empty
      BY <2>1, <3>1, NoData, SSOAssumption
    <3>3. Has(b, data)
      BY <1>2, <2>1, <3>2 DEF NothingNew
    <3>4. n = job[r].nonce /\ AnsweredAlone(r, "callback")
      BY <1>0, <1>1, <2>1, <3>3 DEF SpentAreGone
    <3>5. b = Home[r]
      <4>1. Started(b, n) /\ Started(Home[r], n)
        BY <1>7, <2>1, <3>1, <3>3, <3>4 DEF Started
      <4> QED BY <1>0, <3>1, <4>1 DEF NoncesApart
    <3>6. data = sess[r].val
      BY <1>11, <2>1, <3>2, <3>4, <3>5
    <3> QED BY <1>5, <2>1, <3>1, <3>4, <3>6, SSOAssumption
  <2> QED BY <2>1 DEF SpentAreGone
<1>13. AnsweredAlone(r, "logout") => token'[Home[r]] = NoUser /\ sess[r].val.user = NoUser
  BY LoggedOut
<1>14. SessionsEarned'
  <2>1. ASSUME NEW b \in Browsers, NEW data \in SessionData, Has(b, data)',
               data.user \in Users
        PROVE  data.user \in granted'[b]
    <3>1. data # Empty
      BY <2>1, NoData, SSOAssumption
    <3>2. Has(b, data)
      BY <1>2, <2>1, <3>1 DEF NothingNew
    <3>3. data.user \in granted[b]
      BY <1>0, <2>1, <3>2 DEF SessionsEarned, Earned
    <3>4. ~(AnsweredAlone(r, "logout") /\ b = Home[r])
      BY <1>11, <1>13, <2>1, <3>1, SSOAssumption
    <3> QED BY <1>0, <1>1, <3>3, <3>4 DEF SSOTypes
  <2> QED BY <2>1 DEF SessionsEarned, Earned
<1>15. TokensEarned'
  <2>1. ASSUME NEW b \in Browsers PROVE Earned(b, token[b])'
    <3>1. CASE AnsweredAlone(r, "logout") /\ b = Home[r]
      BY <1>13, <3>1, SSOAssumption DEF Earned
    <3>2. CASE ~(AnsweredAlone(r, "logout") /\ b = Home[r])
      <4>1. granted'[b] = granted[b]
        BY <1>0, <1>1, <3>2 DEF SSOTypes
      <4>2. token'[b] \in {token[b], NoUser} \/ (b = Home[r] /\ token'[b] = job[r].out)
        BY <1>0, <1>1 DEF SSOTypes, TokenJar
      <4> QED BY <1>0, <4>1, <4>2, SSOAssumption DEF TokensEarned, Earned
    <3> QED BY <3>1, <3>2
  <2>2. ASSUME NEW q \in Requests
        PROVE  Earned(Home[q], job[q].token)' /\ Earned(Home[q], job[q].out)'
    <3>1. CASE job'[q] = NoJob
      BY <1>4, <3>1, SSOAssumption DEF Earned
    <3>2. CASE job'[q] # NoJob
      <4>1. job'[q] = job[q] /\ granted'[Home[q]] = granted[Home[q]]
        BY <1>0, <1>1, <1>3, <1>11, <3>2, HomeAssumption DEF SSOTypes
      <4> QED BY <1>0, <4>1 DEF TokensEarned, Earned
    <3> QED BY <3>1, <3>2
  <2> QED BY <2>1, <2>2 DEF TokensEarned
<1>16. ASSUME NEW q \in Requests \ {r} PROVE Unserved(q)' /\ Served(q)' /\ CameWithToken(q)'
  <2>1. ASSUME InFlight(q), clean'[q]
        PROVE  token'[Home[q]] \in {token[Home[q]], NoUser}
    <3>1. Overlapping(q) = {} /\ InFlight(r)
      BY <1>0, <1>1, <1>3, <2>1 DEF SessionsInv, WorksAlone, Deliver, InFlight
    <3>2. Home[q] # Home[r] /\ Home[q] \in Browsers
      BY <3>1, HomeAssumption DEF Overlapping
    <3> QED BY <3>2, Delivered
  <2> QED BY <1>3, <2>1, OthersStay
<1> QED BY <1>2, <1>3, <1>8, <1>10, <1>12, <1>14, <1>15, <1>16 DEF SSOInv

-----------------------------------------------------------------------------
(* The invariant.                                                               *)

LEMMA SSOInitially == Init => SSOInv
<1> SUFFICES ASSUME Init PROVE SSOInv
  OBVIOUS
<1>0. SessionsInit /\ SessionsInv /\ backend = "kube"
  BY SessionsInitially DEF Init
<1>1. /\ NoJob \in Jobs /\ NoJob.kind = "none" /\ NoJob.nonce = NoNonce
      /\ NoJob.token = NoUser /\ NoJob.out = Keep
  BY DEF NoJob, Job, Jobs
<1>2. SSOTypes
  BY <1>0, <1>1 DEF Init, SSOTypes
<1>3. \A r \in Requests : /\ pc[r] = "idle" /\ sess[r] = NewSession
                          /\ cookie[r] = NoSID /\ job[r] = NoJob
  BY <1>0 DEF SessionsInit, Init
<1>4. \A r \in Requests : Unserved(r) /\ Served(r) /\ CameWithToken(r)
  BY <1>1, <1>3 DEF Unserved, Served, CameWithToken, InFlight
<1>5. ASSUME NEW b \in Browsers, NEW data, Has(b, data) PROVE data = Empty
  <2>1. \A s \in SIDs : Found(s) = Empty
    BY <1>0 DEF SessionsInit, Found
  <2> QED BY <1>3, <1>5, <2>1, NoData DEF Has
<1>6. TokensEarned /\ SessionsEarned
  BY <1>1, <1>3, <1>5, NoData, SSOAssumption
     DEF Init, TokensEarned, SessionsEarned, Earned
<1>7. NoncesApart
  <2>1. ASSUME NEW b \in Browsers, NEW n \in Nonces, Started(b, n) PROVE FALSE
    BY <1>1, <1>3, <1>5, <2>1, NoData, SSOAssumption DEF Started, Init
  <2> QED BY <2>1 DEF NoncesApart
<1>8. SpentAreGone
  BY DEF Init, SpentAreGone
<1> QED BY <1>0, <1>2, <1>4, <1>6, <1>7, <1>8 DEF SSOInv

LEMMA SSOStutters == SSOInv /\ UNCHANGED vars => SSOInv'
<1> SUFFICES ASSUME SSOInv, UNCHANGED vars PROVE SSOInv'
  OBVIOUS
<1>1. /\ UNCHANGED <<backend, store, jar, pc, sess, cookie, base, clean, known>>
      /\ UNCHANGED <<token, flows, drawn, job, granted, spent, logouts>>
  BY DEF vars
<1>2. SessionsInv'
  BY <1>1, StutterKeeps DEF SSOInv, sessionVars
<1>3. SSOTypes'
  BY <1>1 DEF SSOInv, SSOTypes
<1>4. NothingNew
  BY <1>1, EndsNothingNew DEF SSOInv
<1>5. \A q \in Requests : Unserved(q)' /\ Served(q)' /\ CameWithToken(q)'
  BY <1>1, OthersStay
<1> QED BY <1>1, <1>2, <1>3, <1>4, <1>5, QuietStep

LEMMA SSOStep == SSOInv /\ [Next]_vars => SSOInv'
<1> SUFFICES ASSUME SSOInv, Next, UNCHANGED backend PROVE SSOInv'
  BY SSOStutters DEF Next
<1>1. ASSUME NEW r \in Requests, SendRequest(r) \/ LookupSession(r) PROVE SSOInv'
  BY <1>1, SendRequestKeeps, LookupSessionKeeps
<1>2. ASSUME NEW r \in Requests, ServeRedirect(r) \/ ServeHandler(r) \/ Refuses(r)
      PROVE  SSOInv'
  BY <1>2, ServeRedirectKeeps, ServeHandlerKeeps, RefusesKeeps
<1>3. ASSUME NEW r \in Requests,
             StoreSession(r) \/ DeliverResponse(r) \/ LoseResponse(r)
      PROVE  SSOInv'
  BY <1>3, StoreSessionKeeps, DeliverResponseKeeps, LoseResponseKeeps
<1>4. ASSUME NEW b \in Browsers, TokenExpires(b) PROVE SSOInv'
  BY <1>4, TokenExpiresKeeps
<1>5. ASSUME NEW s \in SIDs, PurgeSession(s) PROVE SSOInv'
  BY <1>5, PurgeSessionKeeps
<1>6. CASE RestartServer
  BY <1>6, RestartServerKeeps
<1> QED BY <1>1, <1>2, <1>3, <1>4, <1>5, <1>6 DEF Next

-----------------------------------------------------------------------------
(* The theorems.                                                                *)

\* Every behaviour of the SSO server and its browsers keeps the invariant.
THEOREM SSOInductive == Spec => []SSOInv
<1> QED BY SSOInitially, SSOStep, PTL DEF Spec

\* No browser is ever somebody it did not sign in as since it last signed out,
\* by its token, its session, or anything on its way.
THEOREM EarnedIdentity == Spec => []IdentityEarned
<1>1. SSOInv => IdentityEarned
  <2> SUFFICES ASSUME SSOInv, NEW b \in Browsers
               PROVE  /\ Earned(b, token[b])
                      /\ Earned(b, Found(jar[b]).user)
                      /\ \A r \in Requests : Home[r] = b =>
                           \A u \in {job[r].token, sess[r].val.user, job[r].out} :
                             Earned(b, u)
    BY DEF IdentityEarned
  <2>0. SessionsTypes /\ TokensEarned /\ SessionsEarned
    BY DEF SSOInv, SessionsInv
  <2>1. Earned(b, token[b])
    BY <2>0 DEF TokensEarned
  <2>2. Earned(b, Found(jar[b]).user)
    <3>1. CASE jar[b] \in SIDs
      <4>1. Has(b, Found(jar[b]))
        BY <3>1 DEF Has, Holds
      <4>2. Found(jar[b]) \in SessionData
        BY <2>0, FoundIsData
      <4> QED BY <2>0, <4>1, <4>2 DEF SessionsEarned
    <3>2. CASE jar[b] \notin SIDs
      BY <3>2, NoData, SSOAssumption DEF Found, Earned
    <3> QED BY <3>1, <3>2
  <2>3. ASSUME NEW r \in Requests, Home[r] = b
        PROVE  \A u \in {job[r].token, sess[r].val.user, job[r].out} : Earned(b, u)
    <3>1. Has(b, sess[r].val) /\ sess[r].val \in SessionData
      BY <2>0, <2>3, NoData DEF Has, SessionsTypes
    <3>2. Earned(b, sess[r].val.user)
      BY <2>0, <3>1 DEF SessionsEarned
    <3> QED BY <2>0, <2>3, <3>2 DEF TokensEarned
  <2> QED BY <2>1, <2>2, <2>3
<1> QED BY <1>1, SSOInductive, PTL

\* Only a delivery ends a request without making its browser doubt its session.
LEMMA OnlyDelivery ==
  ASSUME SSOInv, [Next]_vars, NEW r \in Requests,
         pc[r] = "ok", pc'[r] = "idle", known'[Home[r]] # Unknown
  PROVE  DeliverResponse(r)
<1>0. SessionsTypes /\ Home[r] \in Browsers
  BY HomeAssumption DEF SSOInv, SessionsInv
<1>1. pc' # pc
  OBVIOUS
<1>2. ASSUME NEW q \in Requests, SendRequest(q) \/ LookupSession(q) PROVE FALSE
  BY <1>0, <1>2 DEF SendRequest, Send, LookupSession, Lookup, Goto, SessionsTypes
<1>3. ASSUME NEW q \in Requests, ServeRedirect(q) \/ ServeHandler(q) PROVE FALSE
  <2>1. pc[q] = "handler" /\ \E l : pc' = [pc EXCEPT ![q] = l]
    BY <1>3 DEF ServeRedirect, ServeHandler, Serves, Returns, Goto
  <2> QED BY <1>0, <2>1 DEF SessionsTypes
<1>4. ASSUME NEW q \in Requests, Refuses(q) PROVE FALSE
  BY <1>0, <1>4 DEF Refuses, Fail, Goto, SessionsTypes
<1>5. ASSUME NEW q \in Requests, StoreSession(q) PROVE FALSE
  <2>1. CASE LookupFails(q)
    BY <1>0, <2>1 DEF LookupFails, Fail, Goto, SessionsTypes
  <2>2. CASE StorageStep(q)
    BY <1>0, <2>2, StorageMoves
  <2> QED BY <1>5, <2>1, <2>2 DEF StoreSession
<1>6. ASSUME NEW q \in Requests, LoseResponse(q) PROVE FALSE
  <2>1. q = r
    BY <1>0, <1>6 DEF LoseResponse, ResponseLost, Finish, SessionsTypes
  <2>2. known'[Home[r]] = Unknown
    BY <1>0, <1>6, <2>1 DEF LoseResponse, ResponseLost, SessionsTypes
  <2> QED BY <2>2
<1>7. ASSUME NEW q \in Requests, DeliverResponse(q) PROVE q = r
  BY <1>0, <1>7 DEF DeliverResponse, Deliver, Finish, SessionsTypes
<1>8. ASSUME NEW b \in Browsers, TokenExpires(b) PROVE FALSE
  BY <1>1, <1>8 DEF TokenExpires
<1>9. ASSUME NEW s \in SIDs, PurgeSession(s) PROVE FALSE
  BY <1>1, <1>9 DEF PurgeSession, Purge
<1>10. CASE RestartServer
  BY <1>0, <1>10 DEF RestartServer, Restart, Vanish, InFlight
<1>11. ~UNCHANGED vars
  BY <1>1 DEF vars
<1> QED BY <1>2, <1>3, <1>4, <1>5, <1>6, <1>7, <1>8, <1>9, <1>10, <1>11 DEF Next

\* Whoever waits for an answer finds one user in the session and the token.
THEOREM AgreedIdentities == Spec => IdentitiesAgree
<1>1. SSOInv /\ [Next]_vars => AnswerAgrees
  <2> SUFFICES ASSUME SSOInv, [Next]_vars, NEW r \in Requests,
                      pc[r] = "ok", pc'[r] = "idle", clean[r],
                      known'[Home[r]] # Unknown,
                      ~(job[r].kind = "callback" /\ job[r].token # NoUser)
               PROVE  token'[Home[r]] \in {known'[Home[r]].user, NoUser}
    BY DEF AnswerAgrees
  <2>1. DeliverResponse(r)
    BY OnlyDelivery
  <2>2. /\ token'[Home[r]] = TokenJar(token[Home[r]], job[r].out)
        /\ known'[Home[r]] = sess[r].val
        /\ token[Home[r]] \in {job[r].token, NoUser}
    BY <2>1, Delivered
  <2>3. \/ job[r].out = Clear
        \/ job[r].out = sess[r].val.user /\ sess[r].val.user \in Users
        \/ job[r].out = Keep /\ job[r].token \in {sess[r].val.user, NoUser}
    BY DEF SSOInv, Served
  <2>4. Clear # Keep
    BY DEF Clear, Keep
  <2>5. CASE job[r].out = Clear
    BY <2>2, <2>4, <2>5 DEF TokenJar
  <2>6. CASE job[r].out = sess[r].val.user /\ sess[r].val.user \in Users
    BY <2>2, <2>6, SSOAssumption DEF TokenJar
  <2>7. CASE job[r].out = Keep /\ job[r].token \in {sess[r].val.user, NoUser}
    BY <2>2, <2>7 DEF TokenJar
  <2> QED BY <2>3, <2>5, <2>6, <2>7
<1> QED BY <1>1, SSOInductive, PTL DEF Spec, IdentitiesAgree

\* Logging in and out do what they say, for a browser that waits for the answer.
THEOREM EffectTaken == Spec => SignInAndOutTakeEffect
<1>1. SSOInv /\ [Next]_vars => AnswerTakesEffect
  <2> SUFFICES ASSUME SSOInv, [Next]_vars, NEW r \in Requests,
                      pc'[r] = "idle", known'[Home[r]] # Unknown, pc[r] = "ok"
               PROVE  /\ (AnsweredAlone(r, "callback") /\ job[r].token = NoUser) =>
                           /\ token'[Home[r]] = job[r].account
                           /\ known'[Home[r]].user = job[r].account
                      /\ AnsweredAlone(r, "logout") =>
                           token'[Home[r]] = NoUser /\ known'[Home[r]].user = NoUser
    BY DEF AnswerTakesEffect, AnsweredAlone
  <2>1. DeliverResponse(r)
    BY OnlyDelivery
  <2>2. /\ token'[Home[r]] = TokenJar(token[Home[r]], job[r].out)
        /\ clean[r] => /\ known'[Home[r]] = sess[r].val
                       /\ token[Home[r]] \in {job[r].token, NoUser}
    BY <2>1, Delivered
  <2>3. ASSUME AnsweredAlone(r, "callback"), job[r].token = NoUser
        PROVE  token'[Home[r]] = job[r].account /\ known'[Home[r]].user = job[r].account
    <3>1. Served(r) /\ job[r].out \in Users \cup {Keep, Clear} /\ clean[r]
      BY <2>3 DEF SSOInv, SSOTypes, Jobs, AnsweredAlone
    <3>2. job[r].out = job[r].account /\ sess[r].val.user = job[r].account
      BY <2>3, <3>1 DEF Served, AnsweredAlone
    <3>3. job[r].account \in Users \cup {NoUser}
      BY DEF SSOInv, SSOTypes, Jobs
    <3>4. token[Home[r]] = NoUser
      BY <2>2, <2>3, <3>1
    <3>5. Clear # Keep
      BY DEF Clear, Keep
    <3>6. token'[Home[r]] = job[r].account
      BY <2>2, <3>1, <3>2, <3>3, <3>4, <3>5, SSOAssumption DEF TokenJar
    <3> QED BY <2>2, <3>1, <3>2, <3>6
  <2>4. AnsweredAlone(r, "logout") =>
          token'[Home[r]] = NoUser /\ known'[Home[r]].user = NoUser
    BY <2>1, <2>2, LoggedOut DEF AnsweredAlone
  <2> QED BY <2>3, <2>4
<1> QED BY <1>1, SSOInductive, PTL DEF Spec, SignInAndOutTakeEffect

\* Only a handler that ran makes a request one that a handler served.
LEMMA OnlyHandler ==
  ASSUME SSOInv, [Next]_vars, NEW r \in Requests,
         pc[r] = "handler", job'[r].served = "handler"
  PROVE  ServeHandler(r)
<1>0. SSOTypes /\ job[r].served = "not" /\ job[r] \in Jobs
  BY DEF SSOInv, SSOTypes, Unserved
<1>1. job'[r] # job[r]
  BY <1>0
<1>2. ASSUME NEW q \in Requests, SendRequest(q) PROVE FALSE
  <2>1. q # r
    BY <1>2 DEF SendRequest, Send, InFlight
  <2> QED BY <1>0, <1>1, <1>2, <2>1, AsksFormed DEF SSOTypes
<1>3. ASSUME NEW q \in Requests, LookupSession(q) PROVE FALSE
  BY <1>1, <1>3 DEF LookupSession, ssoVars
<1>4. ASSUME NEW q \in Requests, ServeRedirect(q) PROVE FALSE
  BY <1>0, <1>1, <1>4 DEF ServeRedirect, SSOTypes, Jobs
<1>5. ASSUME NEW q \in Requests, ServeHandler(q) PROVE q = r
  BY <1>0, <1>1, <1>5 DEF ServeHandler, SSOTypes
<1>6. ASSUME NEW q \in Requests, Refuses(q) PROVE FALSE
  BY <1>0, <1>1, <1>6 DEF Refuses, SSOTypes, Jobs
<1>7. ASSUME NEW q \in Requests, StoreSession(q) PROVE FALSE
  <2>1. job'[q].served = job[q].served /\ (q # r => job'[r] = job[r])
    BY <1>0, <1>7 DEF StoreSession, SSOTypes, Jobs
  <2> QED BY <1>0, <1>1, <2>1
<1>8. ASSUME NEW q \in Requests, DeliverResponse(q) \/ LoseResponse(q) PROVE FALSE
  <2>1. q # r
    BY <1>8 DEF DeliverResponse, Deliver, LoseResponse, ResponseLost
  <2> QED BY <1>0, <1>1, <1>8, <2>1 DEF DeliverResponse, LoseResponse, SSOTypes
<1>9. ASSUME NEW b \in Browsers, TokenExpires(b) PROVE FALSE
  BY <1>1, <1>9 DEF TokenExpires
<1>10. ASSUME NEW s \in SIDs, PurgeSession(s) PROVE FALSE
  BY <1>1, <1>10 DEF PurgeSession, ssoVars
<1>11. CASE RestartServer
  BY <1>11 DEF RestartServer, NoJob, Job
<1>12. ~UNCHANGED vars
  BY <1>1 DEF vars
<1> QED BY <1>2, <1>3, <1>4, <1>5, <1>6, <1>7, <1>8, <1>9, <1>10, <1>11, <1>12
        DEF Next

\* A login that was answered is not completed again, by whatever browser.
THEOREM CompletesOnce == Spec => CompletedOnce
<1>1. SSOInv /\ [Next]_vars => CompletesUnspent
  <2> SUFFICES ASSUME SSOInv, [Next]_vars, NEW r \in Requests, pc[r] = "handler",
                      job'[r].served = "handler", job[r].kind = "callback"
               PROVE  job[r].nonce \notin spent
    BY DEF CompletesUnspent
  <2>1. ServeHandler(r)
    BY OnlyHandler
  <2>2. job[r].nonce = Arrived(r).nonce
    BY <2>1 DEF ServeHandler, MayRedeem
  <2> QED BY <2>2, ArrivedFormed
<1> QED BY <1>1, SSOInductive, PTL DEF Spec, CompletedOnce

-----------------------------------------------------------------------------
(* The SSO application keeps its sessions as Sessions says: what the module     *)
(* leaves open, what a handler may leave in a session, is filled in by the      *)
(* filters and handlers, and nothing they do steps outside of it.               *)

LEMMA RedirectIsReturn ==
  ASSUME SSOInv, NEW r \in Requests, ServeRedirect(r)
  PROVE  HandlerReturns(r)
<1>0. job[r] \in Jobs /\ Arrived(r) \in SessionData
  BY ArrivedFormed DEF SSOInv, SSOTypes
<1> DEFINE A == Arrived(r)
<1>1. PICK u \in UsersByToken(job[r].token) :
        Returns(r, [WithUser(A, u) EXCEPT !.redirect = FALSE], TRUE)
  BY DEF ServeRedirect, Serves
<1>2. u \in Users \cup {NoUser}
  BY <1>0, <1>1 DEF UsersByToken, Jobs
<1> HIDE DEF A
<1>3. [WithUser(A, u) EXCEPT !.redirect = FALSE] \in SessionData
  BY <1>0, <1>2 DEF WithUser, SessionData, A
<1>4. pc[r] = "handler"
  BY DEF ServeRedirect
<1> QED BY <1>1, <1>3, <1>4, NoData DEF HandlerReturns

LEMMA HandlerIsReturn ==
  ASSUME SSOInv, NEW r \in Requests, ServeHandler(r)
  PROVE  HandlerReturns(r)
<1>0. /\ job[r] \in Jobs /\ job[r].kind # "none" /\ pc[r] = "handler"
      /\ Arrived(r) \in SessionData
  BY ArrivedFormed DEF SSOInv, SSOTypes, Unserved, ServeHandler
<1> DEFINE A == Arrived(r)
           kind == job[r].kind
           Touched(u) == job[r].redirect \/ u # NoUser \/ kind \in {"start", "callback"}
           Data(u, n) == Handled(job[r], WithUser(A, u), n)
<1>1. PICK u \in UsersByToken(job[r].token),
           n \in (IF kind = "start" THEN Nonces \ drawn ELSE {NoNonce}) :
        Returns(r, Data(u, n), Touched(u))
  BY DEF ServeHandler, Serves
<1>2. u \in Users \cup {NoUser} /\ n \in Nonces \cup {NoNonce}
  BY <1>0, <1>1 DEF UsersByToken, Jobs
<1>3. PICK d : d = Handled(job[r], WithUser(A, u), n)
  OBVIOUS
<1>4. A \in SessionData
  BY <1>0
<1> HIDE DEF A
<1>5. d \in SessionData
  BY <1>0, <1>2, <1>3, <1>4, HandledFormed
<1>6. PICK touched \in BOOLEAN : touched = Touched(u)
  BY <1>0 DEF Jobs
<1>7. Returns(r, d, touched)
  BY <1>1, <1>3, <1>6
<1> QED BY <1>0, <1>5, <1>6, <1>7, NoData DEF HandlerReturns

\* Every step of the application is one of its sessions, or leaves them alone.
LEMMA SSOStepIsSessions == SSOInv /\ [Next]_vars => [SessionsNext]_sessionVars
<1>0. SUFFICES ASSUME SSOInv, Next PROVE SessionsNext \/ UNCHANGED sessionVars
  BY DEF vars, sessionVars
<1>u. UNCHANGED backend
  BY <1>0 DEF Next
<1>1. ASSUME NEW r \in Requests, SendRequest(r) \/ LookupSession(r)
      PROVE  SessionsNext
  BY <1>1, <1>u DEF SendRequest, LookupSession, SessionsNext
<1>2. ASSUME NEW r \in Requests, ServeRedirect(r) \/ ServeHandler(r)
      PROVE  SessionsNext
  BY <1>0, <1>2, <1>u, RedirectIsReturn, HandlerIsReturn DEF SessionsNext
<1>3. ASSUME NEW r \in Requests, Refuses(r) \/ StoreSession(r) PROVE SessionsNext
  BY <1>3, <1>u DEF Refuses, HandlerFails, StoreSession, SessionsNext
<1>4. ASSUME NEW r \in Requests, DeliverResponse(r) \/ LoseResponse(r)
      PROVE  SessionsNext
  BY <1>4, <1>u DEF DeliverResponse, LoseResponse, SessionsNext
<1>5. ASSUME NEW b \in Browsers, TokenExpires(b) PROVE UNCHANGED sessionVars
  BY <1>5, <1>u DEF TokenExpires, sessionVars
<1>6. ASSUME NEW s \in SIDs, PurgeSession(s) PROVE SessionsNext
  BY <1>6, <1>u DEF PurgeSession, SessionsNext
<1>7. CASE RestartServer
  BY <1>7, <1>u DEF RestartServer, SessionsNext
<1> QED BY <1>0, <1>1, <1>2, <1>3, <1>4, <1>5, <1>6, <1>7 DEF Next

\* The SSO application implements the sessions: seen through the variables of
\* Sessions it does what SessionsSpec allows, so that what is proved of any
\* handlers holds of its own (apps/sso, components/login, oidclogin, jwtissuer).
THEOREM SSOImplementsSessions == Spec => SessionsSpec
<1>1. Init => SessionsInit
  BY DEF Init
<1> QED BY <1>1, SSOInductive, SSOStepIsSessions, PTL DEF Spec, SessionsSpec

\* In the SSO application, whatever it stores: no two browsers are in one
\* session, none is given the id of a session that was not stored, and a browser
\* that waits for its answers finds what the last of them left.
THEOREM SSOSessions ==
  Spec => []OneBrowserPerSession /\ []OnlyStoredSessions /\ ReadsOwnWrites
<1> QED BY SSOImplementsSessions, OneBrowser, OnlyStored, OwnWrites, PTL
=============================================================================
