----------------------------- MODULE LegacyServer -----------------------------
(***************************************************************************)
(* The legacy server of src/server/legacy: an accept loop that spawns one  *)
(* task per client into a JoinSet, the task's handshake and its loop over  *)
(* requests, and the shutdown that tells the tasks through a watch channel *)
(* and then joins them. The tasks share a presence registry; pushes go to  *)
(* NoopOutboundMessaging and reach nobody.                                 *)
(*                                                                         *)
(* A request is two steps, processing it and writing its reply, and select *)
(* does not look at the shutdown channel before both are done. Processing  *)
(* touches the registry once, at the end, so it is one step.               *)
(***************************************************************************)
EXTENDS PresenceRegistry, Session

CONSTANT MaxRequests  \* bound: requests a client sends

ASSUME LegacyAssumption ==
    /\ MaxRequests \in Nat
    /\ \A u \in Users : Username[u] \in Infos

VARIABLES
    server,     \* "running", "draining" (watch sent, joining tasks) or "exited"
    task,       \* "none", "handshake", "loop", "reply" or "ended"
    handshake,  \* how perform_handshake returned, once it has
    session,    \* handle_client's Session
    requests    \* requests sent so far

legacyVars == <<server, task, handshake, session, requests>>
vars == <<registryVars, legacyVars>>

InitLegacy ==
    /\ Init
    /\ server = "running"
    /\ task = [c \in Conns |-> "none"]
    /\ handshake = [c \in Conns |-> "pending"]
    /\ session = [c \in Conns |-> DefaultSession]
    /\ requests = [c \in Conns |-> 0]

(* handle_accept_result and spawn_client_handler; connection ids count up. *)
Accept(c) ==
    /\ server = "running"
    /\ task[c] = "none"
    /\ \A d \in Conns : d < c => task[d] # "none"
    /\ task' = [task EXCEPT ![c] = "handshake"]
    /\ UNCHANGED <<registryVars, server, handshake, session, requests>>

End(c) == task' = [task EXCEPT ![c] = "ended"]

-----------------------------------------------------------------------------
(* perform_handshake. A good handshake, a rejected one (reply 1 or 2), a   *)
(* late one (reply 3) and an end of stream all return Ok(()), and          *)
(* handle_client goes on to its loop; any other failure ends the task.     *)

MutHandshake(c, outcome) ==
    /\ task[c] = "handshake"
    /\ handshake' = [handshake EXCEPT ![c] = outcome]
    /\ IF outcome \in {"ok", "rejected"}
       THEN task' = [task EXCEPT ![c] = "loop"]
       ELSE UNCHANGED task
    /\ UNCHANGED <<registryVars, server, session, requests>>

Handshake(c, outcome) ==
    /\ task[c] = "handshake"
    /\ handshake' = [handshake EXCEPT ![c] = outcome]
    /\ task' = [task EXCEPT ![c] = "loop"]
    /\ UNCHANGED <<registryVars, server, session, requests>>

HandshakeFails(c) ==
    /\ task[c] = "handshake"
    /\ End(c)
    /\ UNCHANGED <<registryVars, server, handshake, session, requests>>

-----------------------------------------------------------------------------
(* The loop: read_transaction against shutdown.changed().                  *)

(* A whole request has arrived. A client that closed its end sends none.   *)
StartRequest(c) ==
    /\ task[c] = "loop"
    /\ handshake[c] # "eof"
    /\ requests[c] < MaxRequests
    /\ requests' = [requests EXCEPT ![c] = @ + 1]
    /\ UNCHANGED <<server, handshake>>

Reply(c) == task' = [task EXCEPT ![c] = "reply"]

(* The tail shared by login and 304: publish the snapshot of session s, if *)
(* it has one. A failed upsert makes handle_request fail, which ends the   *)
(* connection without a reply.                                             *)
MutPublish(c, s) ==
    /\ Reply(c)
    /\ IF has_presence_snapshot(s) /\ ~UpsertFails(c)
       THEN Upsert(c, s.display_name)
       ELSE UNCHANGED registryVars

Publish(c, s) ==
    \/ /\ ~has_presence_snapshot(s)
       /\ Reply(c)
       /\ UNCHANGED registryVars
    \/ /\ has_presence_snapshot(s)
       /\ Upsert(c, s.display_name)
       /\ Reply(c)
    \/ /\ has_presence_snapshot(s)
       /\ UpsertRefused(c)
       /\ End(c)

Login(c, user) ==
    /\ StartRequest(c)
    /\ session' = [session EXCEPT ![c] = apply_login(session[c], user)]
    /\ Publish(c, session'[c])

(* Rejected credentials leave the session alone, but a session that was    *)
(* online already is published again.                                      *)
LoginDenied(c) ==
    /\ StartRequest(c)
    /\ Publish(c, session[c])
    /\ UNCHANGED session

SetClientUserInfo(c, name) ==
    /\ StartRequest(c)
    /\ IF is_authenticated(session[c])
       THEN /\ session' = [session EXCEPT ![c] = apply_user_info_update(session[c], name)]
            /\ Publish(c, session'[c])
       ELSE Reply(c) /\ UNCHANGED <<registryVars, session>>

(* Every other command answers without touching this state, or fails (the  *)
(* frame does not parse, the database does not answer), which ends it.     *)
OtherRequest(c) ==
    /\ StartRequest(c)
    /\ Reply(c) \/ End(c)
    /\ UNCHANGED <<registryVars, session>>

WriteReply(c) ==
    /\ task[c] = "reply"
    /\ task' = [task EXCEPT ![c] = "loop"] \/ End(c)
    /\ UNCHANGED <<registryVars, server, handshake, session, requests>>

(* read_transaction fails: the client closed, the stream broke, or no      *)
(* complete frame came within IO_TIMEOUT, which also limits the wait for   *)
(* the first byte of a request.                                            *)
ReadFails(c) ==
    /\ task[c] = "loop"
    /\ End(c)
    /\ UNCHANGED <<registryVars, server, handshake, session, requests>>

ObserveShutdown(c) ==
    /\ server = "draining"
    /\ task[c] = "loop"
    /\ End(c)
    /\ UNCHANGED <<registryVars, server, handshake, session, requests>>

-----------------------------------------------------------------------------
(* accept_connections after the signal: stop accepting, send true on the   *)
(* watch channel, then join every task.                                    *)
Shutdown ==
    /\ server = "running"
    /\ server' = "draining"
    /\ UNCHANGED <<registryVars, task, handshake, session, requests>>

Exit ==
    /\ server = "draining"
    /\ \A c \in Conns : task[c] \in {"none", "ended"}
    /\ server' = "exited"
    /\ UNCHANGED <<registryVars, task, handshake, session, requests>>

Request(c) ==
    \/ \E user \in Users : Login(c, user)
    \/ LoginDenied(c)
    \/ \E name \in Infos : SetClientUserInfo(c, name)
    \/ OtherRequest(c)

NextLegacy ==
    \/ \E c \in Conns :
          \/ Accept(c)
          \/ \E outcome \in {"ok", "rejected", "timeout", "eof"} : Handshake(c, outcome)
          \/ HandshakeFails(c)
          \/ Request(c)
          \/ WriteReply(c)
          \/ ReadFails(c)
          \/ ObserveShutdown(c)
    \/ Shutdown
    \/ Exit

SpecLegacy == InitLegacy /\ [][NextLegacy]_vars

(* The timers fire: HANDSHAKE_TIMEOUT bounds the handshake and IO_TIMEOUT  *)
(* the write of a reply. select polls its branches in random order, so a   *)
(* task that keeps coming back to it with the shutdown flag set takes that *)
(* branch in the end. The join loop runs. No client is made to act.        *)
Fairness ==
    /\ \A c \in Conns :
          /\ WF_vars(Handshake(c, "timeout"))
          /\ WF_vars(WriteReply(c))
          /\ SF_vars(ObserveShutdown(c))
    /\ WF_vars(Exit)

FairSpecLegacy == SpecLegacy /\ Fairness

-----------------------------------------------------------------------------
(* A task that is still serving its client has a registry entry exactly if *)
(* its session is online, under the session's name, even when the registry *)
(* has run out of ids: a login that could not be published does not leave  *)
(* a logged-in, invisible session behind, the task ends.                   *)
ServedSessionsArePublished ==
    \A c \in Conns : task[c] \in {"loop", "reply"} =>
        /\ c \in Online <=> shows_in_user_list(session[c])
        /\ c \in Online => snapshots[c].display_name = session[c].display_name

(* Once the signal has come the server exits: no client, whether silent in *)
(* its handshake, idle, sending without pause or in the middle of a        *)
(* request, can keep await_spawned_tasks waiting for ever.                 *)
ShutdownCompletes == server = "draining" ~> server = "exited"

==============================================================================
