---------------------------- MODULE SessionGating ----------------------------
(***************************************************************************)
(* The session model of crates/mxd-verification: clients that log in, log  *)
(* out and queue requests, and a server that takes a queued request, in    *)
(* any order, and either carries it out or turns it down. Every outcome is *)
(* appended to a history of effects, about which the properties speak.     *)
(*                                                                         *)
(* The crate explores it with Stateright for a few clients and a few       *)
(* hundred states. Here its safety properties are proved for any number of *)
(* clients (SessionGatingProofs), and the server's own command path is     *)
(* checked against its steps (Commands). A bit mask is a set of names.     *)
(***************************************************************************)
EXTENDS Integers, Sequences, SequencesExt

CONSTANTS
    Clients,          \* 0..num_clients - 1
    UserIds,          \* SessionModel.user_ids
    PrivilegeSets,    \* SessionModel.privilege_sets
    MaxQueueDepth,    \* SessionModel.max_queue_depth
    NoUser            \* None in ModelSession.user_id

VARIABLES sessions, queues, effects

gatingVars == <<sessions, queues, effects>>

-----------------------------------------------------------------------------
(* The crate keeps its own copy of the server's default privileges.        *)
DEFAULT_USER_PRIVILEGES ==
    {"DOWNLOAD_FILE", "READ_CHAT", "SEND_CHAT", "SHOW_IN_LIST", "SEND_PRIVATE_MESSAGE",
     "NEWS_READ_ARTICLE", "NEWS_POST_ARTICLE", "GET_CLIENT_INFO", "CHANGE_OWN_PASSWORD"}

RequestType ==
    {"Ping", "GetUserInfo", "GetFileList", "GetNewsCategories", "PostNewsArticle", "GetClientInfo"}

required_privilege(request) ==
    CASE request = "GetFileList" -> {"DOWNLOAD_FILE"}
      [] request = "GetNewsCategories" -> {"NEWS_READ_ARTICLE"}
      [] request = "PostNewsArticle" -> {"NEWS_POST_ARTICLE"}
      [] request = "GetClientInfo" -> {"GET_CLIENT_INFO"}
      [] OTHER -> {}

requires_authentication(request) == request # "Ping"

is_privileged(request) == required_privilege(request) # {}

is_authenticated(s) == s.user_id # NoUser

has_privilege(s, required) == is_authenticated(s) /\ required \subseteq s.privileges

(* The variants of Effect.                                                 *)
Authenticated(c, u) == [kind |-> "Authenticated", client |-> c, user_id |-> u]

LoggedOut(c) == [kind |-> "LoggedOut", client |-> c]

(* A rejection for want of a privilege also names it: it is the request's. *)
Answered(kind, c, request) == [kind |-> kind, client |-> c, request |-> request]

PrivilegedEffectCompleted(c, request, privileges) ==
    [kind               |-> "PrivilegedEffectCompleted",
     client             |-> c,
     request            |-> request,
     privilege          |-> required_privilege(request),
     session_privileges |-> privileges]

is_privileged_effect(e) == e.kind = "PrivilegedEffectCompleted"

-----------------------------------------------------------------------------
GatingInit ==
    /\ sessions = [c \in Clients |-> [user_id |-> NoUser, privileges |-> {}]]
    /\ queues = [c \in Clients |-> <<>>]
    /\ effects = <<>>

apply_login(c, u, privileges) ==
    /\ sessions' = [sessions EXCEPT ![c] = [user_id |-> u, privileges |-> privileges]]
    /\ effects' = Append(effects, Authenticated(c, u))
    /\ UNCHANGED queues

(* push_login_actions offers a login to clients that are logged out only.  *)
Login(c) ==
    /\ ~is_authenticated(sessions[c])
    /\ \E u \in UserIds, privileges \in PrivilegeSets : apply_login(c, u, privileges)

apply_logout(c) ==
    /\ sessions' = [sessions EXCEPT ![c] = [user_id |-> NoUser, privileges |-> {}]]
    /\ effects' = Append(effects, LoggedOut(c))
    /\ UNCHANGED queues

Logout(c) == is_authenticated(sessions[c]) /\ apply_logout(c)

SendRequest(c, request) ==
    /\ Len(queues[c]) < MaxQueueDepth
    /\ queues' = [queues EXCEPT ![c] = Append(@, request)]
    /\ UNCHANGED <<sessions, effects>>

(* The effect of a request on session s: the authentication check, the     *)
(* privilege check, then the operation.                                    *)
Outcome(c, s, request) ==
    CASE requires_authentication(request) /\ ~is_authenticated(s) ->
            Answered("RejectedUnauthenticated", c, request)
      [] (requires_authentication(request) => is_authenticated(s))
         /\ is_privileged(request) /\ ~has_privilege(s, required_privilege(request)) ->
            Answered("RejectedInsufficientPrivilege", c, request)
      [] is_privileged(request) /\ has_privilege(s, required_privilege(request)) ->
            PrivilegedEffectCompleted(c, request, s.privileges)
      [] OTHER -> Answered("UnprivilegedEffectCompleted", c, request)

DeliverRequest(c, i) ==
    /\ queues' = [queues EXCEPT ![c] = RemoveAt(@, i)]
    /\ effects' = Append(effects, Outcome(c, sessions[c], queues[c][i]))
    /\ UNCHANGED sessions

GatingNext ==
    \E c \in Clients :
        \/ Login(c)
        \/ Logout(c)
        \/ \E request \in RequestType : SendRequest(c, request)
        \/ \E i \in 1..Len(queues[c]) : DeliverRequest(c, i)

GatingSpec == GatingInit /\ [][GatingNext]_gatingVars

(* The server's sessions differ in one step: a client that is logged in    *)
(* may log in again. (They never log out, they end with the connection.)   *)
ServerNext ==
    \/ GatingNext
    \/ \E c \in Clients, u \in UserIds, privileges \in PrivilegeSets : apply_login(c, u, privileges)

ServerSpec == GatingInit /\ [][ServerNext]_gatingVars

-----------------------------------------------------------------------------
(* A login or logout of client c.                                          *)
SessionChange(e, c) == e.kind \in {"Authenticated", "LoggedOut"} /\ e.client = c

(* Effect i of the history h happened while its client was logged in: the  *)
(* latest login or logout of that client before it is a login.             *)
LoggedInAt(h, i) ==
    \E j \in 1..(i - 1) :
        /\ h[j].kind = "Authenticated" /\ h[j].client = h[i].client
        /\ \A k \in (j + 1)..(i - 1) : ~SessionChange(h[k], h[i].client)

(* Every privileged effect of h has its client logged in, and entitled.    *)
GatedHistory(h) ==
    \A i \in DOMAIN h : is_privileged_effect(h[i]) =>
        LoggedInAt(h, i) /\ h[i].privilege \subseteq h[i].session_privileges

(* Messages may be delivered in any order and sessions may come and go     *)
(* between a request and its delivery, yet no privileged operation is done *)
(* for a client that is logged out at that moment, nor without the         *)
(* privilege it needs (apply_deliver_request).                             *)
PrivilegedOnlyWhileLoggedIn == GatedHistory(effects)

(* The crate's no_privileged_effect_without_auth: some login of the client *)
(* comes before, whether or not the client has logged out since. The       *)
(* crate's authentication_precedes_privileged_effect is the same statement *)
(* for the first privileged effect of a client, so it follows.             *)
no_privileged_effect_without_auth ==
    \A i \in DOMAIN effects : is_privileged_effect(effects[i]) =>
        \E j \in 1..(i - 1) :
            effects[j].kind = "Authenticated" /\ effects[j].client = effects[i].client
==============================================================================
