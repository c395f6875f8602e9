-------------------------- MODULE WireframeHandshake --------------------------
(***************************************************************************)
(* From accept to a built application in the wireframe server. The runtime *)
(* reads a 12-byte preamble in the connection's own task and calls a       *)
(* success or a failure callback; the app factory, which runs later in the *)
(* same task and takes no argument, finds the handshake and the peer in a  *)
(* process-wide map keyed by the Tokio task id (src/wireframe/connection). *)
(* The callback's task-local slot is gone by then, so only the map counts. *)
(*                                                                         *)
(* External, modelled from its use: Tokio's task ids and what the runtime  *)
(* does after a failed callback. Two regimes are allowed, one per          *)
(* behaviour: either ids are never reused and the runtime may go on to the *)
(* factory after a failure, or ids of ended tasks come back and the        *)
(* runtime drops a connection whose callback failed.                       *)
(***************************************************************************)
EXTENDS Integers

CONSTANTS
    Conns,         \* connections; a connection stands for its peer address
    TaskIds,       \* Tokio task ids
    SubVersions,   \* sub-versions a client announces
    None           \* no task, no context, no reply, no app

VERSION == 1

HANDSHAKE_OK == 0
HANDSHAKE_ERR_INVALID == 1
HANDSHAKE_ERR_UNSUPPORTED_VERSION == 2
HANDSHAKE_ERR_TIMEOUT == 3

Preambles == [protocol : {"TRTP", "other"}, version : {VERSION, VERSION + 1},
              sub_version : SubVersions]

ConnectionContext == [handshake : Preambles, peer : Conns]

ASSUME NoneAssumption ==
    /\ None \notin ConnectionContext \cup Preambles \cup TaskIds
    /\ None \notin 0..3

VARIABLES
    reuse,      \* the regime: ids come back, and failed connections are dropped
    task,       \* the id of the task that serves the connection
    stage,      \* see the actions
    sent,       \* the preamble the client sent
    reply,      \* the code of the handshake reply that was written
    contexts,   \* CONNECTION_CONTEXT_REGISTRY
    app         \* the context the connection's application was built with

vars == <<reuse, task, stage, sent, reply, contexts, app>>

Running(c) == stage[c] \notin {"new", "ended"}

-----------------------------------------------------------------------------
(* Decoding.                                                               *)

(* parse_handshake: None, or the error.                                    *)
parse_error(p) ==
    CASE p.protocol # "TRTP" -> "InvalidProtocol"
      [] p.protocol = "TRTP" /\ p.version # VERSION -> "UnsupportedVersion"
      [] OTHER -> None

(* What the legacy server answers.                                         *)
handshake_error_code(err) ==
    IF err = "InvalidProtocol" THEN HANDSHAKE_ERR_INVALID ELSE HANDSHAKE_ERR_UNSUPPORTED_VERSION

(* The wireframe server's error goes through bincode's DecodeError, whose  *)
(* text keeps the cause as its first token.                                *)
decode_error_for_handshake(err) ==
    [kind |-> "OtherString", token |-> IF err = "InvalidProtocol" THEN "handshake:invalid-protocol-id"
                                                                  ELSE "handshake:unsupported-version"]

MutErrorCodeForDecode(err) ==
    CASE err.kind = "OtherString" /\ err.token = "handshake:unsupported-version" -> HANDSHAKE_ERR_INVALID
      [] err.kind = "TimedOut" -> HANDSHAKE_ERR_TIMEOUT
      [] OTHER -> None

error_code_for_decode(err) ==
    CASE err.kind = "OtherString" /\ err.token = "handshake:invalid-protocol-id" -> HANDSHAKE_ERR_INVALID
      [] err.kind = "OtherString" /\ err.token = "handshake:unsupported-version" ->
             HANDSHAKE_ERR_UNSUPPORTED_VERSION
      [] err.kind = "TimedOut" -> HANDSHAKE_ERR_TIMEOUT
      [] OTHER -> None

-----------------------------------------------------------------------------
Init ==
    /\ reuse \in BOOLEAN
    /\ task = [c \in Conns |-> None]
    /\ stage = [c \in Conns |-> "new"]
    /\ sent = [c \in Conns |-> None]
    /\ reply = [c \in Conns |-> None]
    /\ contexts = [t \in TaskIds |-> None]
    /\ app = [c \in Conns |-> None]

(* A running task's id is nobody else's; an ended task's may come back.    *)
Spawn(c, t) ==
    /\ stage[c] = "new"
    /\ \A d \in Conns : task[d] = t => reuse /\ ~Running(d)
    /\ task' = [task EXCEPT ![c] = t]
    /\ stage' = [stage EXCEPT ![c] = "reading"]
    /\ UNCHANGED <<reuse, sent, reply, contexts, app>>

-----------------------------------------------------------------------------
(* The contexts, from the task of connection c. The task-local slot lives  *)
(* as long as the callback that scope_current_context runs.                *)

store_registry_context(c, context) == contexts' = [contexts EXCEPT ![task[c]] = context]

registry_context(c) == contexts[task[c]]

take_registry_context(c) == contexts' = [contexts EXCEPT ![task[c]] = None]

scope_current_context(c, context) == store_registry_context(c, context)

store_current_context(c, context) == store_registry_context(c, context)

(* The slot is empty: what is taken is registry_context.                   *)
take_current_context(c) == take_registry_context(c)

-----------------------------------------------------------------------------
(* One slot for the process instead of one per task.                       *)
MutDecodeSuccess(c, p) ==
    /\ stage[c] = "reading"
    /\ parse_error(p) = None
    /\ sent' = [sent EXCEPT ![c] = p]
    /\ contexts' = [t \in TaskIds |-> [handshake |-> p, peer |-> c]]
    /\ stage' = [stage EXCEPT ![c] = "replying"]
    /\ UNCHANGED <<reuse, task, reply, app>>

(* success_handler up to the write of the reply: scope_current_context     *)
(* stores the context first.                                               *)
DecodeSuccess(c, p) ==
    /\ stage[c] = "reading"
    /\ parse_error(p) = None
    /\ sent' = [sent EXCEPT ![c] = p]
    /\ scope_current_context(c, [handshake |-> p, peer |-> c])
    /\ stage' = [stage EXCEPT ![c] = "replying"]
    /\ UNCHANGED <<reuse, task, reply, app>>

(* peer_addr() fails: nothing is stored or written.                        *)
PeerUnknown(c, p) ==
    /\ stage[c] = "reading"
    /\ parse_error(p) = None
    /\ sent' = [sent EXCEPT ![c] = p]
    /\ stage' = [stage EXCEPT ![c] = "failed"]
    /\ UNCHANGED <<reuse, task, reply, contexts, app>>

(* The reply is out; store_current_context stores the same context again.  *)
ReplyWritten(c) ==
    /\ stage[c] = "replying"
    /\ reply' = [reply EXCEPT ![c] = HANDSHAKE_OK]
    /\ store_current_context(c, [handshake |-> sent[c], peer |-> c])
    /\ stage' = [stage EXCEPT ![c] = "accepted"]
    /\ UNCHANGED <<reuse, task, sent, app>>

(* `?` leaves the callback; the entry stays in the map.                    *)
ReplyBroken(c) ==
    /\ stage[c] = "replying"
    /\ stage' = [stage EXCEPT ![c] = "failed"]
    /\ UNCHANGED <<reuse, task, sent, reply, contexts, app>>

(* failure_handler: a reply if the error has a code and can be written.    *)
DecodeFailure(c, err) ==
    /\ stage[c] = "reading"
    /\ reply' \in {reply, [reply EXCEPT ![c] = error_code_for_decode(err)]}
    /\ stage' = [stage EXCEPT ![c] = "failed"]
    /\ UNCHANGED <<reuse, task, contexts, app>>

Rejected(c, p) ==
    /\ parse_error(p) # None
    /\ DecodeFailure(c, decode_error_for_handshake(parse_error(p)))
    /\ sent' = [sent EXCEPT ![c] = p]

(* preamble_timeout, and an end of stream within the preamble.             *)
Incomplete(c) ==
    /\ \E kind \in {"TimedOut", "UnexpectedEnd"} : DecodeFailure(c, [kind |-> kind])
    /\ UNCHANGED sent

(* The runtime drops the connection after a failed callback.               *)
DropFailed(c) ==
    /\ stage[c] = "failed"
    /\ stage' = [stage EXCEPT ![c] = "ended"]
    /\ UNCHANGED <<reuse, task, sent, reply, contexts, app>>

(* The app factory reads the entry and leaves it in the map.               *)
MutBuildApp(c) ==
    /\ stage[c] = "accepted"
    /\ app' = [app EXCEPT ![c] = registry_context(c)]
    /\ stage' = [stage EXCEPT ![c] = "serving"]
    /\ UNCHANGED <<reuse, task, sent, reply, contexts>>

(* build_app_context and build_app: the context is taken out of the map;   *)
(* without one, or if the builder fails, the connection ends.              *)
BuildApp(c) ==
    /\ stage[c] = "accepted" \/ (stage[c] = "failed" /\ ~reuse)
    /\ take_current_context(c)
    /\ \/ /\ registry_context(c) # None
          /\ app' = [app EXCEPT ![c] = registry_context(c)]
          /\ stage' = [stage EXCEPT ![c] = "serving"]
       \/ /\ stage' = [stage EXCEPT ![c] = "ended"]
          /\ UNCHANGED app
    /\ UNCHANGED <<reuse, task, sent, reply>>

Disconnect(c) ==
    /\ stage[c] = "serving"
    /\ stage' = [stage EXCEPT ![c] = "ended"]
    /\ UNCHANGED <<reuse, task, sent, reply, contexts, app>>

Next ==
    \E c \in Conns :
        \/ \E t \in TaskIds : Spawn(c, t)
        \/ \E p \in Preambles : DecodeSuccess(c, p) \/ PeerUnknown(c, p) \/ Rejected(c, p)
        \/ ReplyWritten(c) \/ ReplyBroken(c)
        \/ Incomplete(c)
        \/ DropFailed(c)
        \/ BuildApp(c) \/ Disconnect(c)

Spec == Init /\ [][Next]_vars

-----------------------------------------------------------------------------
Stages == {"new", "reading", "replying", "accepted", "failed", "serving", "ended"}

TypeOK ==
    /\ reuse \in BOOLEAN
    /\ task \in [Conns -> TaskIds \cup {None}]
    /\ stage \in [Conns -> Stages]
    /\ \A c \in Conns : stage[c] # "new" => task[c] \in TaskIds
    /\ sent \in [Conns -> Preambles \cup {None}]
    /\ reply \in [Conns -> (0..3) \cup {None}]
    /\ contexts \in [TaskIds -> ConnectionContext \cup {None}]
    /\ app \in [Conns -> ConnectionContext \cup {None}]

(* An application is built only for a client whose handshake was accepted, *)
(* and with that client's own handshake and peer: whatever entries failed  *)
(* connections leave in the map, whichever task ids come back, and even if *)
(* the runtime calls the factory after a failed callback, take_current_    *)
(* context hands nobody another connection's context.                      *)
BuiltFromOwnHandshake ==
    \A c \in Conns : app[c] # None =>
        /\ sent[c] # None /\ parse_error(sent[c]) = None
        /\ app[c] = [handshake |-> sent[c], peer |-> c]

(* An entry of the map is keyed by the task of the peer it names and holds *)
(* what that peer sent; it outlives its connection's set-up only if the OK *)
(* reply could not be written. This is the one way the map can grow.       *)
ContextsHaveOwners ==
    \A t \in TaskIds : contexts[t] # None =>
        LET c == contexts[t].peer
        IN  /\ task[c] = t /\ contexts[t].handshake = sent[c]
            /\ \/ stage[c] \in {"replying", "accepted"}
               \/ stage[c] \in {"failed", "ended"} /\ reply[c] = None

(* The reply a client gets is the one the legacy server would send for the *)
(* same twelve bytes: the detour of the error through bincode's            *)
(* DecodeError and its text loses nothing, a timeout is told apart from    *)
(* both, and code 0 goes to no client whose handshake does not parse.      *)
RepliesMatchLegacy ==
    \A c \in Conns : reply[c] # None =>
        reply[c] = CASE sent[c] = None -> HANDSHAKE_ERR_TIMEOUT
                     [] sent[c] # None /\ parse_error(sent[c]) = None -> HANDSHAKE_OK
                     [] OTHER -> handshake_error_code(parse_error(sent[c]))
==============================================================================
