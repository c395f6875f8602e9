------------------------- MODULE SessionGatingProofs -------------------------
(***************************************************************************)
(* Proofs about SessionGating, for any set of clients, any users and       *)
(* privilege sets and any queue depth. The properties speak of the history *)
(* only; the inductive invariant ties the history to the sessions: a       *)
(* session that is logged in has its login in the history, with no later   *)
(* login or logout of the same client.                                     *)
(***************************************************************************)
EXTENDS SessionGating, SequenceTheorems, TLAPS

(* The records a history is made of.                                       *)
Effect ==
    [kind : {"Authenticated"}, client : Clients, user_id : UserIds]
    \cup [kind : {"LoggedOut"}, client : Clients]
    \cup [kind : {"RejectedUnauthenticated", "RejectedInsufficientPrivilege",
                  "UnprivilegedEffectCompleted"}, client : Clients, request : RequestType]
    \cup [kind : {"PrivilegedEffectCompleted"}, client : Clients, request : RequestType,
          privilege : {required_privilege(r) : r \in RequestType},
          session_privileges : PrivilegeSets \cup {{}}]

ModelSession == [user_id : UserIds \cup {NoUser}, privileges : PrivilegeSets \cup {{}}]

GatingTypeOK ==
    /\ sessions \in [Clients -> ModelSession]
    /\ queues \in [Clients -> Seq(RequestType)]
    /\ effects \in Seq(Effect)

(* The history h says that client c is logged in.                          *)
SaysLoggedIn(h, c) ==
    \E j \in 1..Len(h) :
        /\ h[j].kind = "Authenticated" /\ h[j].client = c
        /\ \A k \in (j + 1)..Len(h) : ~SessionChange(h[k], c)

HistoryInv == \A c \in Clients : is_authenticated(sessions[c]) => SaysLoggedIn(effects, c)

GatingInv == GatingTypeOK /\ HistoryInv /\ PrivilegedOnlyWhileLoggedIn

-----------------------------------------------------------------------------
(* What Outcome returns: an effect of its client that is no login and no   *)
(* logout, and privileged only if the session may.                         *)
LEMMA OutcomeFacts ==
    ASSUME NEW c \in Clients, NEW s \in ModelSession, NEW request \in RequestType
    PROVE  LET e == Outcome(c, s, request)
           IN  /\ e \in Effect
               /\ e.client = c
               /\ e.kind \notin {"Authenticated", "LoggedOut"}
               /\ is_privileged_effect(e) =>
                     is_authenticated(s) /\ e.privilege \subseteq e.session_privileges
<1> DEFINE e == Outcome(c, s, request)
<1>1. CASE e = Answered("RejectedUnauthenticated", c, request)
  BY <1>1 DEF Answered, Effect, is_privileged_effect
<1>2. CASE e = Answered("RejectedInsufficientPrivilege", c, request)
  BY <1>2 DEF Answered, Effect, is_privileged_effect
<1>3. CASE /\ e = PrivilegedEffectCompleted(c, request, s.privileges)
           /\ has_privilege(s, required_privilege(request))
  <2>1. s.privileges \in PrivilegeSets \cup {{}}
    BY DEF ModelSession
  <2>2. required_privilege(request) \in {required_privilege(r) : r \in RequestType}
    OBVIOUS
  <2> QED
    BY <1>3, <2>1, <2>2 DEF PrivilegedEffectCompleted, Effect, has_privilege
<1>4. CASE e = Answered("UnprivilegedEffectCompleted", c, request)
  BY <1>4 DEF Answered, Effect, is_privileged_effect
<1>5. \/ e = Answered("RejectedUnauthenticated", c, request)
      \/ e = Answered("RejectedInsufficientPrivilege", c, request)
      \/ /\ e = PrivilegedEffectCompleted(c, request, s.privileges)
         /\ has_privilege(s, required_privilege(request))
      \/ e = Answered("UnprivilegedEffectCompleted", c, request)
  BY DEF Outcome
<1> QED
  BY <1>1, <1>2, <1>3, <1>4, <1>5, Zenon

(* Removing a message leaves a queue of requests.                          *)
LEMMA QueueRemoval ==
    ASSUME NEW q \in Seq(RequestType), NEW i \in 1..Len(q)
    PROVE  RemoveAt(q, i) \in Seq(RequestType)
<1>1. SubSeq(q, 1, i - 1) \in Seq(RequestType)
  <2>1. \A k \in 1..(i - 1) : q[k] \in RequestType
    OBVIOUS
  <2> QED
    BY <2>1, SubSeqProperties
<1>2. SubSeq(q, i + 1, Len(q)) \in Seq(RequestType)
  <2>1. \A k \in (i + 1)..Len(q) : q[k] \in RequestType
    OBVIOUS
  <2> QED
    BY <2>1, SubSeqProperties
<1> QED
  BY <1>1, <1>2, ConcatProperties DEF RemoveAt

(* A longer history says of a client what the shorter one did, unless the  *)
(* new effect is a login or logout of that client.                         *)
LEMMA HistoryGrows ==
    ASSUME NEW h \in Seq(Effect), NEW e \in Effect, NEW c
    PROVE  /\ SaysLoggedIn(h, c) /\ ~SessionChange(e, c) => SaysLoggedIn(Append(h, e), c)
           /\ e.kind = "Authenticated" /\ e.client = c => SaysLoggedIn(Append(h, e), c)
<1> DEFINE g == Append(h, e)
<1>1. Len(g) = Len(h) + 1 /\ Len(h) \in Nat
  OBVIOUS
<1>2. \A j \in 1..Len(h) : g[j] = h[j]
  OBVIOUS
<1>3. g[Len(h) + 1] = e
  OBVIOUS
<1>4. ASSUME SaysLoggedIn(h, c), ~SessionChange(e, c)
      PROVE  SaysLoggedIn(g, c)
  <2>1. PICK j \in 1..Len(h) :
            /\ h[j].kind = "Authenticated" /\ h[j].client = c
            /\ \A k \in (j + 1)..Len(h) : ~SessionChange(h[k], c)
    BY <1>4 DEF SaysLoggedIn
  <2>2. \A k \in (j + 1)..Len(g) : ~SessionChange(g[k], c)
    <3> SUFFICES ASSUME NEW k \in (j + 1)..Len(g)
                 PROVE  ~SessionChange(g[k], c)
      OBVIOUS
    <3>1. CASE k = Len(h) + 1
      BY <1>3, <1>4, <3>1
    <3>2. CASE k # Len(h) + 1
      BY <1>1, <1>2, <2>1, <3>2
    <3> QED
      BY <3>1, <3>2
  <2>3. j \in 1..Len(g) /\ g[j].kind = "Authenticated" /\ g[j].client = c
    BY <1>1, <1>2, <2>1
  <2> HIDE DEF g
  <2> QED
    BY <2>2, <2>3 DEF SaysLoggedIn
<1>5. ASSUME e.kind = "Authenticated", e.client = c
      PROVE  SaysLoggedIn(g, c)
  <2> HIDE DEF g
  <2> QED
    BY <1>1, <1>3, <1>5 DEF SaysLoggedIn
<1> QED
  BY <1>4, <1>5

(* A gated history stays one when an effect is added that is not           *)
(* privileged, or whose client it shows logged in: the earlier effects     *)
(* look at a prefix that is still there.                                   *)
LEMMA GatedGrows ==
    ASSUME NEW h \in Seq(Effect), GatedHistory(h), NEW e \in Effect,
           is_privileged_effect(e) =>
              SaysLoggedIn(h, e.client) /\ e.privilege \subseteq e.session_privileges
    PROVE  GatedHistory(Append(h, e))
<1> DEFINE g == Append(h, e)
<1>1. Len(g) = Len(h) + 1 /\ Len(h) \in Nat
  OBVIOUS
<1>2. \A j \in 1..Len(h) : g[j] = h[j]
  OBVIOUS
<1>3. g[Len(h) + 1] = e
  OBVIOUS
<1>4. DOMAIN g = 1..(Len(h) + 1) /\ DOMAIN h = 1..Len(h)
  OBVIOUS
<1> HIDE DEF g
<1>5. ASSUME NEW i \in 1..Len(h), is_privileged_effect(g[i])
      PROVE  LoggedInAt(g, i) /\ g[i].privilege \subseteq g[i].session_privileges
  <2>1. g[i] = h[i]
    BY <1>2
  <2>2. LoggedInAt(h, i) /\ h[i].privilege \subseteq h[i].session_privileges
    BY <1>4, <1>5, <2>1 DEF GatedHistory
  <2>3. PICK j \in 1..(i - 1) :
            /\ h[j].kind = "Authenticated" /\ h[j].client = h[i].client
            /\ \A k \in (j + 1)..(i - 1) : ~SessionChange(h[k], h[i].client)
    BY <2>2 DEF LoggedInAt
  <2>4. \A k \in 1..(i - 1) : g[k] = h[k]
    BY <1>1, <1>2
  <2>5. \A k \in (j + 1)..(i - 1) : ~SessionChange(g[k], g[i].client)
    BY <1>1, <2>1, <2>3, <2>4
  <2>6. LoggedInAt(g, i)
    BY <2>1, <2>3, <2>4, <2>5 DEF LoggedInAt
  <2> QED
    BY <2>1, <2>2, <2>6
<1>6. ASSUME is_privileged_effect(e)
      PROVE  LoggedInAt(g, Len(h) + 1)
  <2>1. PICK j \in 1..Len(h) :
            /\ h[j].kind = "Authenticated" /\ h[j].client = e.client
            /\ \A k \in (j + 1)..Len(h) : ~SessionChange(h[k], e.client)
    BY <1>6 DEF SaysLoggedIn
  <2>2. (Len(h) + 1) - 1 = Len(h)
    BY <1>1
  <2>3. \A k \in (j + 1)..Len(h) : ~SessionChange(g[k], e.client)
    BY <1>1, <1>2, <2>1
  <2>4. g[j].kind = "Authenticated" /\ g[j].client = e.client
    BY <1>2, <2>1
  <2> QED
    BY <1>3, <2>1, <2>2, <2>3, <2>4 DEF LoggedInAt
<1> QED
  <2> SUFFICES ASSUME NEW i \in DOMAIN g, is_privileged_effect(g[i])
               PROVE  LoggedInAt(g, i) /\ g[i].privilege \subseteq g[i].session_privileges
    BY DEF GatedHistory, g
  <2>1. CASE i \in 1..Len(h)
    BY <1>5, <2>1
  <2>2. CASE i = Len(h) + 1
    BY <1>3, <1>6, <2>2
  <2> QED
    BY <1>1, <1>4, <2>1, <2>2
-----------------------------------------------------------------------------
(* A step that adds a login or logout of client c and gives c the session  *)
(* s, logged in only if the step is a login, preserves the invariant.      *)
LEMMA SessionStep ==
    ASSUME GatingInv, NEW c \in Clients, NEW s \in ModelSession, NEW e \in Effect,
           e.client = c, ~is_privileged_effect(e),
           is_authenticated(s) => e.kind = "Authenticated",
           sessions' = [sessions EXCEPT ![c] = s],
           effects' = Append(effects, e),
           queues' = queues
    PROVE  GatingInv'
<1>1. effects \in Seq(Effect)
  BY DEF GatingInv, GatingTypeOK
<1>2. GatingTypeOK'
  BY <1>1 DEF GatingInv, GatingTypeOK
<1>3. HistoryInv'
  <2> SUFFICES ASSUME NEW d \in Clients, is_authenticated(sessions'[d])
               PROVE  SaysLoggedIn(effects', d)
    BY DEF HistoryInv
  <2>1. CASE d = c
    <3>1. sessions'[d] = s
      BY <2>1 DEF GatingInv, GatingTypeOK
    <3> QED
      BY <1>1, <2>1, <3>1, HistoryGrows
  <2>2. CASE d # c
    <3>1. sessions'[d] = sessions[d]
      BY <2>2 DEF GatingInv, GatingTypeOK
    <3>2. SaysLoggedIn(effects, d)
      BY <3>1 DEF GatingInv, HistoryInv
    <3>3. ~SessionChange(e, d)
      BY <2>2 DEF SessionChange
    <3> QED
      BY <1>1, <3>2, <3>3, HistoryGrows
  <2> QED
    BY <2>1, <2>2
<1>4. PrivilegedOnlyWhileLoggedIn'
  BY <1>1, GatedGrows DEF GatingInv, PrivilegedOnlyWhileLoggedIn
<1> QED
  BY <1>2, <1>3, <1>4 DEF GatingInv

LEMMA LoginStep ==
    ASSUME GatingInv, NEW c \in Clients, NEW u \in UserIds, NEW privileges \in PrivilegeSets,
           apply_login(c, u, privileges)
    PROVE  GatingInv'
<1> DEFINE s == [user_id |-> u, privileges |-> privileges]
<1> DEFINE e == Authenticated(c, u)
<1>1. s \in ModelSession
  BY DEF ModelSession
<1>2. e \in Effect /\ e.client = c /\ e.kind = "Authenticated" /\ ~is_privileged_effect(e)
  BY DEF Effect, Authenticated, is_privileged_effect
<1>3. /\ sessions' = [sessions EXCEPT ![c] = s]
      /\ effects' = Append(effects, e)
      /\ queues' = queues
  BY DEF apply_login
<1> HIDE DEF s, e
<1> QED
  BY <1>1, <1>2, <1>3, SessionStep

LEMMA LogoutStep ==
    ASSUME GatingInv, NEW c \in Clients, Logout(c)
    PROVE  GatingInv'
<1> DEFINE s == [user_id |-> NoUser, privileges |-> {}]
<1> DEFINE e == LoggedOut(c)
<1>1. s \in ModelSession /\ ~is_authenticated(s)
  BY DEF ModelSession, is_authenticated
<1>2. e \in Effect /\ e.client = c /\ ~is_privileged_effect(e)
  BY DEF Effect, LoggedOut, is_privileged_effect
<1>3. /\ sessions' = [sessions EXCEPT ![c] = s]
      /\ effects' = Append(effects, e)
      /\ queues' = queues
  BY DEF Logout, apply_logout
<1> HIDE DEF s, e
<1> QED
  BY <1>1, <1>2, <1>3, SessionStep

LEMMA SendStep ==
    ASSUME GatingInv, NEW c \in Clients, NEW request \in RequestType, SendRequest(c, request)
    PROVE  GatingInv'
<1>1. queues' \in [Clients -> Seq(RequestType)]
  <2>1. queues[c] \in Seq(RequestType) /\ queues \in [Clients -> Seq(RequestType)]
    BY DEF GatingInv, GatingTypeOK
  <2>2. Append(queues[c], request) \in Seq(RequestType)
    BY <2>1
  <2> QED
    BY <2>1, <2>2 DEF SendRequest
<1>2. sessions' = sessions /\ effects' = effects
  BY DEF SendRequest
<1> QED
  BY <1>1, <1>2 DEF GatingInv, GatingTypeOK, HistoryInv, PrivilegedOnlyWhileLoggedIn

(* The delivery of a request: its check looks at the session as it is now, *)
(* of which the history says the same.                                     *)
LEMMA DeliverStep ==
    ASSUME GatingInv, NEW c \in Clients, NEW i \in 1..Len(queues[c]), DeliverRequest(c, i)
    PROVE  GatingInv'
<1> DEFINE e == Outcome(c, sessions[c], queues[c][i])
<1>1. /\ effects \in Seq(Effect)
      /\ queues \in [Clients -> Seq(RequestType)] /\ queues[c] \in Seq(RequestType)
      /\ sessions \in [Clients -> ModelSession] /\ sessions[c] \in ModelSession
  BY DEF GatingInv, GatingTypeOK
<1>2. queues[c][i] \in RequestType
  BY <1>1
<1>3. /\ e \in Effect /\ e.client = c /\ e.kind \notin {"Authenticated", "LoggedOut"}
      /\ is_privileged_effect(e) =>
            is_authenticated(sessions[c]) /\ e.privilege \subseteq e.session_privileges
  BY <1>1, <1>2, OutcomeFacts
<1>4. effects' = Append(effects, e) /\ sessions' = sessions
  BY DEF DeliverRequest
<1> HIDE DEF e
<1>5. GatingTypeOK'
  <2>1. RemoveAt(queues[c], i) \in Seq(RequestType)
    BY <1>1, QueueRemoval
  <2>2. queues' \in [Clients -> Seq(RequestType)]
    BY <1>1, <2>1 DEF DeliverRequest
  <2> QED
    BY <1>1, <1>3, <1>4, <2>2 DEF GatingTypeOK
<1>6. HistoryInv'
  <2> SUFFICES ASSUME NEW d \in Clients, is_authenticated(sessions[d])
               PROVE  SaysLoggedIn(effects', d)
    BY <1>4 DEF HistoryInv
  <2>1. SaysLoggedIn(effects, d)
    BY DEF GatingInv, HistoryInv
  <2>2. ~SessionChange(e, d)
    BY <1>3 DEF SessionChange
  <2> QED
    BY <1>1, <1>3, <1>4, <2>1, <2>2, HistoryGrows
<1>7. PrivilegedOnlyWhileLoggedIn'
  <2>1. is_privileged_effect(e) =>
            SaysLoggedIn(effects, e.client) /\ e.privilege \subseteq e.session_privileges
    BY <1>3 DEF GatingInv, HistoryInv
  <2> QED
    BY <1>1, <1>3, <1>4, <2>1, GatedGrows DEF GatingInv, PrivilegedOnlyWhileLoggedIn
<1> QED
  BY <1>5, <1>6, <1>7 DEF GatingInv

LEMMA GatingInductive == ServerSpec => []GatingInv
<1>1. GatingInit => GatingInv
  <2> SUFFICES ASSUME GatingInit PROVE GatingInv
    OBVIOUS
  <2>1. [user_id |-> NoUser, privileges |-> {}] \in ModelSession
    BY DEF ModelSession
  <2>2. GatingTypeOK
    BY <2>1 DEF GatingInit, GatingTypeOK
  <2>3. HistoryInv
    BY DEF GatingInit, HistoryInv, is_authenticated
  <2>4. PrivilegedOnlyWhileLoggedIn
    BY DEF GatingInit, PrivilegedOnlyWhileLoggedIn, GatedHistory
  <2> QED
    BY <2>2, <2>3, <2>4 DEF GatingInv
<1>2. GatingInv /\ [ServerNext]_gatingVars => GatingInv'
  <2> SUFFICES ASSUME GatingInv, [ServerNext]_gatingVars PROVE GatingInv'
    OBVIOUS
  <2>1. CASE UNCHANGED gatingVars
    BY <2>1 DEF gatingVars, GatingInv, GatingTypeOK, HistoryInv, PrivilegedOnlyWhileLoggedIn
  <2>2. ASSUME NEW c \in Clients, Login(c) PROVE GatingInv'
    BY <2>2, LoginStep DEF Login
  <2>3. ASSUME NEW c \in Clients, NEW u \in UserIds, NEW privileges \in PrivilegeSets,
               apply_login(c, u, privileges)
        PROVE  GatingInv'
    BY <2>3, LoginStep
  <2>4. ASSUME NEW c \in Clients, Logout(c) PROVE GatingInv'
    BY <2>4, LogoutStep
  <2>5. ASSUME NEW c \in Clients, NEW request \in RequestType, SendRequest(c, request)
        PROVE  GatingInv'
    BY <2>5, SendStep
  <2>6. ASSUME NEW c \in Clients, NEW i \in 1..Len(queues[c]), DeliverRequest(c, i)
        PROVE  GatingInv'
    BY <2>6, DeliverStep
  <2> QED
    BY <2>1, <2>2, <2>3, <2>4, <2>5, <2>6 DEF ServerNext, GatingNext
<1> QED
  BY <1>1, <1>2, PTL DEF ServerSpec

(* However requests, logins, repeated logins and logouts interleave,       *)
(* apply_deliver_request completes a privileged operation only for a       *)
(* client that is logged in then and holds the privilege.                  *)
THEOREM PrivilegesEnforced == ServerSpec => []PrivilegedOnlyWhileLoggedIn
BY GatingInductive, PTL DEF GatingInv

-----------------------------------------------------------------------------
(* The crate's own safety properties follow from the stronger one.         *)
LEMMA CrateProperties ==
    ASSUME GatingTypeOK, PrivilegedOnlyWhileLoggedIn
    PROVE  no_privileged_effect_without_auth
<1>1. \A i \in DOMAIN effects : is_privileged_effect(effects[i]) => LoggedInAt(effects, i)
  BY DEF PrivilegedOnlyWhileLoggedIn, GatedHistory
<1> QED
  BY <1>1 DEF no_privileged_effect_without_auth, LoggedInAt

(* The session model as the crate explores it satisfies the property the   *)
(* crate states, for every number of clients and every depth of queue.     *)
THEOREM CrateModelGates == GatingSpec => []no_privileged_effect_without_auth
<1>1. [GatingNext]_gatingVars => [ServerNext]_gatingVars
  BY DEF ServerNext
<1>2. GatingInv => no_privileged_effect_without_auth
  BY CrateProperties DEF GatingInv
<1> QED
  BY <1>1, <1>2, GatingInductive, PTL DEF GatingSpec, ServerSpec
==============================================================================
