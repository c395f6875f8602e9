-------------------------- MODULE WireframePresence --------------------------
(***************************************************************************)
(* Presence in the wireframe server: connections that log in, change their *)
(* name, ask for the user list and disconnect while they share a presence  *)
(* registry and push 301/302 notifications into each other's push queues.  *)
(*                                                                         *)
(* One request at a time runs on a connection (TransactionHandler::call    *)
(* holds the session mutex for the whole of route, pushes included). Up to *)
(* its first push a handler has no await after it has touched the session, *)
(* so that part is one step; every push attempt is a step of its own, then *)
(* the reply is handed to the transport. Dropping a connection removes its *)
(* snapshot, then its push handle, and then a spawned task pushes the 302. *)
(*                                                                         *)
(* External, modelled from its use: the wireframe runtime, which calls     *)
(* on_connection_setup, drains a bounded push queue per connection and     *)
(* writes replies. A client is its roster: a 300 reply replaces it, a 301  *)
(* sets one line and a 302 clears one.                                     *)
(***************************************************************************)
EXTENDS PresenceRegistry, Session, Sequences

Seqs == INSTANCE SequencesExt

CONSTANTS
    NameLen,              \* bytes of a display name
    QueueCapacity,        \* capacity of a push queue
    RetryAttempts,        \* PRESENCE_PUSH_RETRY_ATTEMPTS
    MaxRequests,          \* bound: requests a connection sends
    Workload,             \* bound: the kinds of request sent
    LateRegistration,     \* requests may precede on_connection_setup
    ReplyBeforePushes     \* a finished reply is written before further pushes

U16Max == 65535

(* A name arrives in a request field, or equals one that did, so its length *)
(* is a u16: encoding a 301, which carries the bare name, cannot fail.      *)
ASSUME NamesAssumption ==
    /\ \A u \in Users : Username[u] \in Infos
    /\ \A n \in Infos : NameLen[n] \in 0..U16Max

ASSUME BoundsAssumption ==
    /\ QueueCapacity \in Nat \ {0}
    /\ RetryAttempts \in Nat \ {0}
    /\ MaxRequests \in Nat
    /\ Workload \subseteq {"login", "denied", "failing", "set", "list", "info"}
    /\ LateRegistration \in BOOLEAN
    /\ ReplyBeforePushes \in BOOLEAN

VARIABLES
    state,       \* "new", "open", "removed" (inside drop) or "gone"
    registered,  \* connections whose push handle the SessionRegistry holds
    session,     \* the Session behind the connection's mutex
    handler,     \* the request being processed, or Idle
    queue,       \* push queue of the connection
    departure,   \* the 302 fan-out of a dropped connection, or Idle
    view,        \* the roster lines the client shows
    listed,      \* the client has received a 300 reply
    requests     \* requests sent so far

wireVars == <<state, registered, session, handler, queue, departure, view, listed, requests>>
vars == <<registryVars, wireVars>>

(* ReplyBuffer::new: no reply yet. A request sends its reply once.         *)
NoReply == [kind |-> "none"]

Idle == [peers |-> <<>>, push |-> <<>>, attempt |-> 0, reply |-> NoReply]

-----------------------------------------------------------------------------
(* Messages. `conn` is not on the wire: it tells the properties whom an id *)
(* stood for when the message was built.                                   *)

Line(c) == [conn |-> c, user_id |-> snapshots[c].user_id,
            display_name |-> snapshots[c].display_name]

NotifyChange(c, snapshot) == [kind |-> "change", conn |-> c, user_id |-> snapshot.user_id,
                              display_name |-> snapshot.display_name]

NotifyDelete(c, id) == [kind |-> "delete", conn |-> c, user_id |-> id]

OkReply == [kind |-> "ok"]
ErrorReply(code) == [kind |-> "error", code |-> code]

(* encode_params takes any field of at most u16::MAX bytes, and field 300  *)
(* prefixes the name with eight bytes.                                     *)
EncodesAsListEntry(name) == 8 + NameLen[name] <= U16Max

build_user_name_list_reply(online) ==
    IF \E d \in online : ~EncodesAsListEntry(snapshots[d].display_name)
    THEN ErrorReply(3)
    ELSE [kind |-> "list", lines |-> {Line(d) : d \in online}]

build_client_info_text_reply(target, name) == [kind |-> "info", target |-> target, name |-> name]

(* What a client does with a push: 301 sets the line of its id, 302 clears *)
(* it.                                                                     *)
Shown(lines, m) ==
    LET others == {e \in lines : e.user_id # m.user_id}
    IN  IF m.kind = "delete"
        THEN others
        ELSE others \cup {[conn |-> m.conn, user_id |-> m.user_id, display_name |-> m.display_name]}

-----------------------------------------------------------------------------
InitWire ==
    /\ Init
    /\ state = [c \in Conns |-> "new"]
    /\ registered = {}
    /\ session = [c \in Conns |-> DefaultSession]
    /\ handler = [c \in Conns |-> Idle]
    /\ queue = [c \in Conns |-> <<>>]
    /\ departure = [c \in Conns |-> Idle]
    /\ view = [c \in Conns |-> {}]
    /\ listed = [c \in Conns |-> FALSE]
    /\ requests = [c \in Conns |-> 0]

(* build_app: allocate_id counts up, the session starts from its default.  *)
Connect(c) ==
    /\ state[c] = "new"
    /\ \A d \in Conns : d < c => state[d] # "new"
    /\ state' = [state EXCEPT ![c] = "open"]
    /\ UNCHANGED <<registryVars, registered, session, handler, queue, departure, view, listed,
                   requests>>

(* on_connection_setup; the OnceLock makes a second call a no-op.          *)
RegisterHandle(c) ==
    /\ state[c] = "open"
    /\ registered' = registered \cup {c}
    /\ c \notin registered
    /\ UNCHANGED <<registryVars, state, session, handler, queue, departure, view, listed, requests>>

-----------------------------------------------------------------------------
(* Requests.                                                               *)

StartRequest(c) ==
    /\ state[c] = "open"
    /\ handler[c] = Idle
    /\ LateRegistration \/ c \in registered
    /\ requests[c] < MaxRequests
    /\ requests' = [requests EXCEPT ![c] = @ + 1]
    /\ UNCHANGED <<state, registered, queue, departure, view, listed>>

Busy(c) == handler[c] # Idle

(* A request that has pushes left to do, or only its reply to hand over.   *)
Work(peers, push, attempt, reply) ==
    IF peers = <<>>
    THEN [Idle EXCEPT !.reply = reply]
    ELSE [peers |-> peers, push |-> push, attempt |-> attempt, reply |-> reply]

Answer(c, reply) == handler' = [handler EXCEPT ![c] = Work(<<>>, <<>>, 0, reply)]

peer_ids_from_guard(excluded) == Seqs!SetToSortSeq(Online \ excluded, <)

(* The common tail of process_login_with_presence and                      *)
(* process_set_client_user_info: publish the snapshot of session s, if it  *)
(* has one, and start the fan-out of its 301. A failed upsert turns the    *)
(* buffered reply into an internal error and leaves the session as it is.  *)
Publish(c, s, reply) ==
    \/ /\ ~has_presence_snapshot(s)
       /\ Answer(c, reply)
       /\ UNCHANGED registryVars
    \/ /\ has_presence_snapshot(s)
       /\ UpsertRefused(c)
       /\ Answer(c, ErrorReply(3))
    \/ /\ has_presence_snapshot(s)
       /\ Upsert(c, s.display_name)
       /\ handler' = [handler EXCEPT ![c] =
              Work(peer_ids_from_guard({c}), NotifyChange(c, snapshots'[c]), 0, reply)]

(* process_login_with_presence, credentials accepted: also a second login  *)
(* on the same connection.                                                 *)
Login(c, user) ==
    /\ StartRequest(c)
    /\ session' = [session EXCEPT ![c] = apply_login(session[c], user)]
    /\ Publish(c, session'[c], OkReply)

(* Credentials rejected: the session is untouched, but if it was online    *)
(* already its snapshot is published again.                                *)
LoginDenied(c) ==
    /\ StartRequest(c)
    /\ Publish(c, session[c], ErrorReply(1))
    /\ UNCHANGED session

(* The pool or the query fails: `?` leaves before anything is published.   *)
LoginFails(c) ==
    /\ StartRequest(c)
    /\ Answer(c, ErrorReply(3))
    /\ UNCHANGED <<registryVars, session>>

(* Stores the new name and answers, but does not publish it.               *)
MutSetClientUserInfo(c, name) ==
    /\ StartRequest(c)
    /\ is_authenticated(session[c])
    /\ session' = [session EXCEPT ![c] = apply_user_info_update(session[c], name)]
    /\ Answer(c, OkReply)
    /\ UNCHANGED registryVars

SetClientUserInfo(c, name) ==
    /\ StartRequest(c)
    /\ IF is_authenticated(session[c])
       THEN /\ session' = [session EXCEPT ![c] = apply_user_info_update(session[c], name)]
            /\ Publish(c, session'[c], OkReply)
       ELSE /\ Answer(c, ErrorReply(1))
            /\ UNCHANGED <<registryVars, session>>

(* 300: one read of the registry, no await before the reply is built; one  *)
(* line that does not encode fails the whole reply.                        *)
GetUserNameList(c) ==
    /\ StartRequest(c)
    /\ Answer(c, IF is_online(session[c]) THEN build_user_name_list_reply(Online)
                 ELSE ErrorReply(1))
    /\ UNCHANGED <<registryVars, session>>

(* snapshot_for_user_id, or the empty set for None.                        *)
snapshot_for_user_id(id) ==
    LET holders == {d \in Online : snapshots[d].user_id = id}
    IN  {d \in holders : \A e \in holders : d <= e}

(* 303: the registry first, then the users table, whose lookup can fail.   *)
InfoReplies(c, target) ==
    LET denied == require_privilege(session[c], "GET_CLIENT_INFO")
        Info(name) == build_client_info_text_reply(target, name)
    IN  CASE denied # 0 -> {ErrorReply(denied)}
          [] denied = 0 /\ snapshot_for_user_id(target) # {} ->
               {Info(snapshots[d].display_name) : d \in snapshot_for_user_id(target)}
          [] OTHER ->
               {ErrorReply(3)} \cup {Info(Username[u]) : u \in Users \cap {target}}

GetClientInfoText(c, target) ==
    /\ StartRequest(c)
    /\ \E reply \in InfoReplies(c, target) : Answer(c, reply)
    /\ UNCHANGED <<registryVars, session>>

-----------------------------------------------------------------------------
(* push_with_retry_to_peers. A push to a registered peer waits for room in *)
(* its queue; it fails at once if the peer is being dropped; only a peer   *)
(* without a handle is tried again.                                        *)

Unchanging == <<registryVars, state, registered, session, departure, view, listed, requests>>

Accepts(p) == p \in registered /\ state[p] = "open" /\ Len(queue[p]) < QueueCapacity

(* handle_for finds no handle: push returns TargetUnavailable.             *)
TargetUnavailable(p) == p \notin registered

(* push_bytes returns QueueClosed.                                         *)
QueueClosed(p) == ~TargetUnavailable(p) /\ state[p] # "open"

NextPeer(c) ==
    handler' = [handler EXCEPT ![c] = Work(Tail(@.peers), @.push, 0, @.reply)]

(* Retries a peer that never comes back without counting.                  *)
MutPushChange(c) ==
    /\ handler[c].peers # <<>>
    /\ LET p == Head(handler[c].peers)
       IN  \/ Accepts(p) /\ queue' = [queue EXCEPT ![p] = Append(@, handler[c].push)]
           \/ QueueClosed(p) /\ UNCHANGED queue
    /\ NextPeer(c)
    /\ UNCHANGED Unchanging

PushChange(c) ==
    /\ handler[c].peers # <<>>
    /\ LET p == Head(handler[c].peers)
       IN  \/ /\ Accepts(p)
              /\ queue' = [queue EXCEPT ![p] = Append(@, handler[c].push)]
              /\ NextPeer(c)
           \/ /\ QueueClosed(p)
              /\ NextPeer(c)
              /\ UNCHANGED queue
           \/ /\ TargetUnavailable(p)
              /\ IF handler[c].attempt + 1 < RetryAttempts
                 THEN handler' = [handler EXCEPT ![c].attempt = @ + 1]
                 ELSE NextPeer(c)
              /\ UNCHANGED queue
    /\ UNCHANGED Unchanging

-----------------------------------------------------------------------------
(* The transport: replies and pushes reach the client.                     *)

ReplyReady(c) == Busy(c) /\ handler[c].peers = <<>>

take_reply(c) == handler[c].reply

WriteReply(c) ==
    /\ state[c] = "open"
    /\ ReplyReady(c)
    /\ IF take_reply(c).kind = "list"
       THEN /\ view' = [view EXCEPT ![c] = take_reply(c).lines]
            /\ listed' = [listed EXCEPT ![c] = TRUE]
       ELSE UNCHANGED <<view, listed>>
    /\ handler' = [handler EXCEPT ![c] = Idle]
    /\ UNCHANGED <<registryVars, state, registered, session, queue, departure, requests>>

WritePush(c) ==
    /\ state[c] = "open"
    /\ queue[c] # <<>>
    /\ ReplyBeforePushes => ~ReplyReady(c)
    /\ view' = [view EXCEPT ![c] = Shown(@, Head(queue[c]))]
    /\ queue' = [queue EXCEPT ![c] = Tail(@)]
    /\ UNCHANGED <<registryVars, state, registered, session, handler, departure, listed, requests>>

-----------------------------------------------------------------------------
(* Drop of WireframeOutboundConnection, once no handler of the connection  *)
(* is running; a finished reply may be lost with the connection. First the *)
(* presence entry goes, and with it the ids of the remaining peers are     *)
(* taken; what the client had and the queue held is gone.                  *)
Forget(c) ==
    /\ handler' = [handler EXCEPT ![c] = Idle]
    /\ session' = [session EXCEPT ![c] = DefaultSession]
    /\ queue' = [queue EXCEPT ![c] = <<>>]
    /\ view' = [view EXCEPT ![c] = {}]
    /\ listed' = [listed EXCEPT ![c] = FALSE]
    /\ requests' = [requests EXCEPT ![c] = 0]

(* What remove returns: who left and who is still there.                   *)
PresenceRemoval(c) ==
    [user_id |-> snapshots[c].user_id, remaining_peer_ids |-> peer_ids_from_guard({c})]

DisconnectNotification(c, removal) ==
    Work(removal.remaining_peer_ids, NotifyDelete(c, removal.user_id), 0, NoReply)

(* Does not wait for the connection's own fan-out.                         *)
MutDropPresenceEarly(c) ==
    /\ state[c] = "open" /\ c \in Online
    /\ state' = [state EXCEPT ![c] = "removed"]
    /\ Remove(c)
    /\ departure' = [departure EXCEPT ![c] = DisconnectNotification(c, PresenceRemoval(c))]
    /\ UNCHANGED <<registered, session, handler, queue, view, listed, requests>>

DropPresence(c) ==
    /\ state[c] = "open"
    /\ handler[c].peers = <<>>
    /\ state' = [state EXCEPT ![c] = "removed"]
    /\ IF c \in Online
       THEN /\ Remove(c)
            /\ departure' = [departure EXCEPT ![c] = DisconnectNotification(c, PresenceRemoval(c))]
       ELSE UNCHANGED <<registryVars, departure>>
    /\ Forget(c)
    /\ UNCHANGED registered

(* ... then the push handle, after which the 302 task is spawned.          *)
DropHandle(c) ==
    /\ state[c] = "removed"
    /\ state' = [state EXCEPT ![c] = "gone"]
    /\ registered' = registered \ {c}
    /\ UNCHANGED <<registryVars, session, handler, queue, departure, view, listed, requests>>

(* Gives up on a peer whose queue is full.                                 *)
MutPushDeleteTry(c) ==
    /\ state[c] = "gone"
    /\ departure[c].peers # <<>>
    /\ LET p == Head(departure[c].peers)
       IN  queue' = IF Accepts(p) THEN [queue EXCEPT ![p] = Append(@, departure[c].push)] ELSE queue
    /\ departure' = [departure EXCEPT ![c] = Work(Tail(@.peers), @.push, 0, @.reply)]
    /\ UNCHANGED <<registryVars, state, registered, session, handler, view, listed, requests>>

(* Waits for the handle of a peer that has left.                           *)
MutPushDeleteWaits(c) ==
    /\ state[c] = "gone"
    /\ departure[c].peers # <<>>
    /\ LET p == Head(departure[c].peers)
       IN  \/ Accepts(p) /\ queue' = [queue EXCEPT ![p] = Append(@, departure[c].push)]
           \/ QueueClosed(p) /\ UNCHANGED queue
    /\ departure' = [departure EXCEPT ![c] = Work(Tail(@.peers), @.push, 0, @.reply)]
    /\ UNCHANGED <<registryVars, state, registered, session, handler, view, listed, requests>>

(* push_disconnect_notifications: one attempt per peer, a peer without a   *)
(* handle is skipped.                                                      *)
PushDelete(c) ==
    /\ state[c] = "gone"
    /\ departure[c].peers # <<>>
    /\ LET p == Head(departure[c].peers)
       IN  \/ /\ Accepts(p)
              /\ queue' = [queue EXCEPT ![p] = Append(@, departure[c].push)]
           \/ /\ QueueClosed(p) \/ TargetUnavailable(p)
              /\ UNCHANGED queue
    /\ departure' = [departure EXCEPT ![c] = Work(Tail(@.peers), @.push, 0, @.reply)]
    /\ UNCHANGED <<registryVars, state, registered, session, handler, view, listed, requests>>

-----------------------------------------------------------------------------
Request(c) ==
    \/ "login" \in Workload /\ \E user \in Users : Login(c, user)
    \/ "denied" \in Workload /\ LoginDenied(c)
    \/ "failing" \in Workload /\ LoginFails(c)
    \/ "set" \in Workload /\ \E name \in Infos : SetClientUserInfo(c, name)
    \/ "list" \in Workload /\ GetUserNameList(c)
    \/ "info" \in Workload /\ \E target \in PresenceId \cup Users : GetClientInfoText(c, target)

NextWire ==
    \E c \in Conns :
        \/ Connect(c) \/ RegisterHandle(c)
        \/ Request(c) \/ PushChange(c)
        \/ WriteReply(c) \/ WritePush(c)
        \/ DropPresence(c) \/ DropHandle(c) \/ PushDelete(c)

SpecWire == InitWire /\ [][NextWire]_vars

(* Tasks are scheduled and the runtime serves every connection: a handler  *)
(* or a spawned task with a possible step takes it, a connection's actor   *)
(* drains its queue and writes its replies, a drop that began ends.        *)
(* Nothing makes a client send a request or leave.                         *)
Fairness ==
    \A c \in Conns :
        /\ WF_vars(PushChange(c))
        /\ WF_vars(PushDelete(c))
        /\ WF_vars(WriteReply(c))
        /\ WF_vars(WritePush(c))
        /\ WF_vars(DropHandle(c))

FairSpecWire == SpecWire /\ Fairness

-----------------------------------------------------------------------------
(* The registry holds an entry for a connection exactly while that         *)
(* connection is open with a visible session, and the entry shows the      *)
(* session's name: login and 304 publish what they stored and drop takes   *)
(* the entry away, whatever other handlers do. (With ids to spare: a       *)
(* login that upsert refuses leaves its session online and unlisted.)      *)
RegistryMirrorsSessions ==
    \A c \in Conns :
        /\ c \in Online <=> state[c] = "open" /\ shows_in_user_list(session[c])
        /\ c \in Online => snapshots[c].display_name = session[c].display_name

(* No peer is told of a change of a user after it was told that the user   *)
(* left: drop waits for the connection's own fan-out, and the 302 task     *)
(* starts after it. A 301 behind a 302 would bring a ghost back for good.  *)
NoChangeAfterDelete ==
    \A c \in Conns : \A i \in DOMAIN queue[c] :
        queue[c][i].kind = "delete" =>
            /\ \A j \in DOMAIN queue[c] :
                  j > i /\ queue[c][j].conn = queue[c][i].conn => queue[c][j].kind # "change"
            /\ handler[queue[c][i].conn] = Idle

(* Nothing is in flight: no request, no drop, no 302 fan-out, no push.     *)
Quiescent ==
    \A c \in Conns :
        /\ handler[c] = Idle /\ departure[c] = Idle
        /\ queue[c] = <<>> /\ state[c] # "removed"

(* Once everything in flight has been delivered, a client that asked for   *)
(* the user list at some point shows exactly the other online users, each  *)
(* under its current id and name, although its list, the 301s and the 302s *)
(* came from different handlers in any order.                              *)
RostersConverge ==
    Quiescent =>
        \A c \in Conns : listed[c] =>
            {e \in view[c] : e.conn # c} = {Line(d) : d \in Online \ {c}}

(* A request is always answered, or lost with its connection: a handler    *)
(* blocked on a peer's full queue, or retrying a peer without a handle,    *)
(* gets through, also when several handlers push to each other.            *)
RequestsAnswered == \A c \in Conns : Busy(c) ~> ~Busy(c)

(* A drop that has begun ends, and its 302 fan-out reaches its last peer   *)
(* even if some of those peers are dropped meanwhile.                      *)
DeparturesAnnounced ==
    \A c \in Conns : state[c] = "removed" ~> (state[c] = "gone" /\ departure[c] = Idle)
==============================================================================
