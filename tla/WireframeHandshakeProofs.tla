----------------------- MODULE WireframeHandshakeProofs -----------------------
(***************************************************************************)
(* The hand-off of the handshake is safe for any number of connections and *)
(* task ids. What makes it inductive: two connections share a task id only *)
(* when ids come back and at most one of the two is running, and a         *)
(* connection between its decode and its factory owns the entry under its  *)
(* task id.                                                                *)
(***************************************************************************)
EXTENDS WireframeHandshake, TLAPS

UniqueTasks ==
    \A c, d \in Conns :
        c # d /\ task[c] # None /\ task[c] = task[d] => reuse /\ ~(Running(c) /\ Running(d))

OwnContext ==
    \A c \in Conns : stage[c] \in {"replying", "accepted"} =>
        /\ sent[c] \in Preambles /\ parse_error(sent[c]) = None
        /\ contexts[task[c]] = [handshake |-> sent[c], peer |-> c]

(* ContextsHaveOwners, and the owner's handshake parses.                   *)
ParsedContexts ==
    \A t \in TaskIds : contexts[t] # None =>
        contexts[t].handshake \in Preambles /\ parse_error(contexts[t].handshake) = None

Unset ==
    \A c \in Conns :
        /\ stage[c] = "new" => task[c] = None
        /\ stage[c] \in {"new", "reading"} => sent[c] = None /\ reply[c] = None
        /\ stage[c] = "replying" => reply[c] = None
        /\ stage[c] \in {"new", "reading", "replying", "accepted", "failed"} => app[c] = None

Inv ==
    /\ TypeOK
    /\ UniqueTasks
    /\ OwnContext
    /\ ParsedContexts
    /\ Unset
    /\ ContextsHaveOwners
    /\ BuiltFromOwnHandshake

-----------------------------------------------------------------------------
(* The initial states: nobody is connected and the map is empty.           *)
LEMMA InitInv == Init => Inv
<1> SUFFICES ASSUME Init PROVE Inv
  OBVIOUS
<1> USE DEF Init
<1>1. TypeOK
  BY DEF TypeOK, Stages
<1>2. UniqueTasks /\ OwnContext /\ ParsedContexts /\ Unset
  BY DEF UniqueTasks, OwnContext, ParsedContexts, Unset
<1>3. ContextsHaveOwners /\ BuiltFromOwnHandshake
  BY DEF ContextsHaveOwners, BuiltFromOwnHandshake
<1> QED
  BY <1>1, <1>2, <1>3 DEF Inv

(* A new task gets an id that no running task has.                         *)
LEMMA SpawnInv ==
    ASSUME Inv, NEW c \in Conns, NEW t \in TaskIds, Spawn(c, t)
    PROVE  Inv'
<1> USE DEF Inv, Spawn, Running
<1>1. TypeOK'
  BY DEF TypeOK, Stages
<1>2. UniqueTasks'
  BY NoneAssumption DEF UniqueTasks, TypeOK
<1>3. OwnContext' /\ ParsedContexts' /\ Unset'
  BY DEF OwnContext, ParsedContexts, Unset, TypeOK
<1>4. ContextsHaveOwners'
  BY NoneAssumption DEF ContextsHaveOwners, TypeOK, Unset, ConnectionContext
<1>5. BuiltFromOwnHandshake'
  BY DEF BuiltFromOwnHandshake
<1> QED
  BY <1>1, <1>2, <1>3, <1>4, <1>5 DEF Inv

(* The store overwrites whatever was left under the task's id, and no      *)
(* other connection that still needs its entry has that id.                *)
LEMMA DecodeSuccessInv ==
    ASSUME Inv, NEW c \in Conns, NEW p \in Preambles, DecodeSuccess(c, p)
    PROVE  Inv'
<1> USE DEF Inv, DecodeSuccess, scope_current_context, store_registry_context, Running
<1>0. task[c] \in TaskIds /\ [handshake |-> p, peer |-> c] \in ConnectionContext
  BY DEF TypeOK, ConnectionContext
<1>1. TypeOK'
  BY <1>0 DEF TypeOK, Stages
<1>2. UniqueTasks'
  BY DEF UniqueTasks, TypeOK
<1>3. OwnContext'
  BY <1>0, NoneAssumption DEF OwnContext, TypeOK, UniqueTasks, Stages
<1>4. ParsedContexts' /\ Unset'
  BY <1>0 DEF ParsedContexts, Unset, TypeOK
<1>5. ContextsHaveOwners'
  BY <1>0, NoneAssumption DEF ContextsHaveOwners, TypeOK, Unset, ConnectionContext
<1>6. BuiltFromOwnHandshake'
  BY DEF BuiltFromOwnHandshake, Unset, TypeOK
<1> QED
  BY <1>1, <1>2, <1>3, <1>4, <1>5, <1>6 DEF Inv

(* A second store of the same context, under the same id.                  *)
LEMMA ReplyWrittenInv ==
    ASSUME Inv, NEW c \in Conns, ReplyWritten(c)
    PROVE  Inv'
<1> USE DEF Inv, ReplyWritten, store_current_context, store_registry_context, Running
<1>0. /\ task[c] \in TaskIds
      /\ contexts[task[c]] = [handshake |-> sent[c], peer |-> c]
      /\ contexts' = contexts
  BY DEF TypeOK, OwnContext
<1>1. TypeOK'
  BY <1>0 DEF TypeOK, Stages, HANDSHAKE_OK
<1>2. UniqueTasks' /\ OwnContext' /\ ParsedContexts' /\ Unset'
  BY <1>0 DEF UniqueTasks, OwnContext, ParsedContexts, Unset, TypeOK
<1>3. ContextsHaveOwners'
  BY <1>0 DEF ContextsHaveOwners, TypeOK, ConnectionContext
<1>4. BuiltFromOwnHandshake'
  BY DEF BuiltFromOwnHandshake
<1> QED
  BY <1>1, <1>2, <1>3, <1>4 DEF Inv

(* The callback fails after the store: the entry keeps its owner.          *)
LEMMA ReplyBrokenInv ==
    ASSUME Inv, NEW c \in Conns, ReplyBroken(c)
    PROVE  Inv'
<1> USE DEF Inv, ReplyBroken, Running
<1>1. TypeOK'
  BY DEF TypeOK, Stages
<1>2. UniqueTasks' /\ OwnContext' /\ ParsedContexts' /\ Unset'
  BY DEF UniqueTasks, OwnContext, ParsedContexts, Unset, TypeOK
<1>3. ContextsHaveOwners'
  BY DEF ContextsHaveOwners, TypeOK, ConnectionContext, Unset
<1>4. BuiltFromOwnHandshake'
  BY DEF BuiltFromOwnHandshake
<1> QED
  BY <1>1, <1>2, <1>3, <1>4 DEF Inv

(* Whatever ends the decode without a store: the connection had no entry   *)
(* of its own, and gets none.                                              *)
LEMMA FailedDecodeInv ==
    ASSUME Inv, NEW c \in Conns, stage[c] = "reading",
           sent' \in [Conns -> Preambles \cup {None}],
           \A d \in Conns : d # c => sent'[d] = sent[d] /\ reply'[d] = reply[d],
           reply' \in [Conns -> (0..3) \cup {None}],
           stage' = [stage EXCEPT ![c] = "failed"],
           UNCHANGED <<reuse, task, contexts, app>>
    PROVE  Inv'
<1> USE DEF Inv, Running
<1>0. \A t \in TaskIds : contexts[t] # None => contexts[t].peer \in Conns /\ contexts[t].peer # c
  BY NoneAssumption DEF TypeOK, ContextsHaveOwners, ConnectionContext
<1>1. TypeOK'
  BY DEF TypeOK, Stages
<1>2. UniqueTasks' /\ OwnContext' /\ ParsedContexts' /\ Unset'
  BY DEF UniqueTasks, OwnContext, ParsedContexts, Unset, TypeOK
<1>3. ContextsHaveOwners'
  BY <1>0 DEF ContextsHaveOwners, TypeOK
<1>4. BuiltFromOwnHandshake'
  BY DEF BuiltFromOwnHandshake, Unset
<1> QED
  BY <1>1, <1>2, <1>3, <1>4 DEF Inv

LEMMA PeerUnknownInv ==
    ASSUME Inv, NEW c \in Conns, NEW p \in Preambles, PeerUnknown(c, p)
    PROVE  Inv'
  BY FailedDecodeInv DEF PeerUnknown, Inv, TypeOK

(* A code is one of 0..3 or none.                                          *)
LEMMA ErrorCodes == \A err : error_code_for_decode(err) \in (0..3) \cup {None}
  BY DEF error_code_for_decode, HANDSHAKE_ERR_INVALID, HANDSHAKE_ERR_UNSUPPORTED_VERSION,
         HANDSHAKE_ERR_TIMEOUT

LEMMA RejectedInv ==
    ASSUME Inv, NEW c \in Conns, NEW p \in Preambles, Rejected(c, p)
    PROVE  Inv'
<1>1. reply' \in [Conns -> (0..3) \cup {None}] /\ \A d \in Conns : d # c => reply'[d] = reply[d]
  BY ErrorCodes DEF Rejected, DecodeFailure, Inv, TypeOK
<1> QED
  BY <1>1, FailedDecodeInv DEF Rejected, DecodeFailure, Inv, TypeOK

LEMMA IncompleteInv ==
    ASSUME Inv, NEW c \in Conns, Incomplete(c)
    PROVE  Inv'
<1>1. PICK kind \in {"TimedOut", "UnexpectedEnd"} : DecodeFailure(c, [kind |-> kind])
  BY DEF Incomplete
<1>2. reply' \in [Conns -> (0..3) \cup {None}] /\ \A d \in Conns : d # c => reply'[d] = reply[d]
  BY <1>1, ErrorCodes DEF DecodeFailure, Inv, TypeOK
<1> QED
  BY <1>1, <1>2, FailedDecodeInv DEF Incomplete, DecodeFailure, Inv, TypeOK

LEMMA DropFailedInv ==
    ASSUME Inv, NEW c \in Conns, DropFailed(c)
    PROVE  Inv'
<1> USE DEF Inv, DropFailed, Running
<1>1. TypeOK'
  BY DEF TypeOK, Stages
<1>2. UniqueTasks' /\ OwnContext' /\ ParsedContexts' /\ Unset'
  BY DEF UniqueTasks, OwnContext, ParsedContexts, Unset, TypeOK
<1>3. ContextsHaveOwners' /\ BuiltFromOwnHandshake'
  BY DEF ContextsHaveOwners, BuiltFromOwnHandshake, TypeOK, ConnectionContext
<1> QED
  BY <1>1, <1>2, <1>3 DEF Inv

(* The factory finds its own entry, or none: after a failed callback ids   *)
(* are unique, so the entry under the task's id is the connection's own.   *)
LEMMA BuildAppInv ==
    ASSUME Inv, NEW c \in Conns, BuildApp(c)
    PROVE  Inv'
<1> USE DEF Inv, BuildApp, take_current_context, take_registry_context, registry_context, Running
<1>0. task[c] \in TaskIds /\ task[c] # None
  BY NoneAssumption DEF TypeOK
<1>1. contexts[task[c]] # None =>
          /\ contexts[task[c]] \in ConnectionContext
          /\ contexts[task[c]].peer = c
          /\ contexts[task[c]] = [handshake |-> sent[c], peer |-> c]
          /\ parse_error(sent[c]) = None
          /\ sent[c] # None
  <2> SUFFICES ASSUME contexts[task[c]] # None
               PROVE  /\ contexts[task[c]] \in ConnectionContext
                      /\ contexts[task[c]].peer = c
                      /\ contexts[task[c]] = [handshake |-> sent[c], peer |-> c]
                      /\ parse_error(sent[c]) = None
                      /\ sent[c] # None
    OBVIOUS
  <2> DEFINE d == contexts[task[c]].peer
  <2>1. contexts[task[c]] \in ConnectionContext /\ d \in Conns
    BY <1>0 DEF TypeOK, ConnectionContext
  <2>2. task[d] = task[c] /\ contexts[task[c]].handshake = sent[d]
    BY <1>0 DEF ContextsHaveOwners
  <2>3. contexts[task[c]].peer = c
    <3>1. CASE stage[c] = "accepted"
      <4>1. contexts[task[c]] = [handshake |-> sent[c], peer |-> c]
        BY <3>1 DEF OwnContext
      <4> QED
        BY <4>1
    <3>2. CASE stage[c] = "failed" /\ ~reuse
      BY <1>0, <2>1, <2>2, <3>2 DEF UniqueTasks
    <3> QED
      BY <3>1, <3>2
  <2>4. contexts[task[c]] = [handshake |-> sent[c], peer |-> c]
    BY <2>1, <2>2, <2>3 DEF ConnectionContext
  <2>5. parse_error(sent[c]) = None /\ sent[c] \in Preambles
    BY <1>0, <2>2, <2>3 DEF ParsedContexts
  <2> QED
    BY <2>1, <2>3, <2>4, <2>5, NoneAssumption
<1>2. TypeOK'
  BY <1>0, <1>1 DEF TypeOK, Stages
<1>3. UniqueTasks' /\ ParsedContexts' /\ Unset'
  BY <1>0 DEF UniqueTasks, ParsedContexts, Unset, TypeOK
<1>4. OwnContext'
  BY <1>0 DEF OwnContext, UniqueTasks, TypeOK
<1>5. ContextsHaveOwners'
  <2> SUFFICES ASSUME NEW t \in TaskIds, t # task[c], contexts[t] # None
               PROVE  contexts[t].peer \in Conns /\ contexts[t].peer # c
    BY <1>0 DEF ContextsHaveOwners, TypeOK
  <2> QED
    BY DEF ContextsHaveOwners, TypeOK, ConnectionContext
<1>6. BuiltFromOwnHandshake'
  BY <1>1 DEF BuiltFromOwnHandshake, TypeOK
<1> QED
  BY <1>2, <1>3, <1>4, <1>5, <1>6 DEF Inv

LEMMA DisconnectInv ==
    ASSUME Inv, NEW c \in Conns, Disconnect(c)
    PROVE  Inv'
<1> USE DEF Inv, Disconnect, Running
<1>1. TypeOK'
  BY DEF TypeOK, Stages
<1>2. UniqueTasks' /\ OwnContext' /\ ParsedContexts' /\ Unset'
  BY DEF UniqueTasks, OwnContext, ParsedContexts, Unset, TypeOK
<1>3. ContextsHaveOwners' /\ BuiltFromOwnHandshake'
  BY DEF ContextsHaveOwners, BuiltFromOwnHandshake, TypeOK, ConnectionContext
<1> QED
  BY <1>1, <1>2, <1>3 DEF Inv

LEMMA NextInv == Inv /\ [Next]_vars => Inv'
<1> SUFFICES ASSUME Inv, [Next]_vars PROVE Inv'
  OBVIOUS
<1>1. CASE UNCHANGED vars
  BY <1>1 DEF vars, Inv, TypeOK, UniqueTasks, OwnContext, ParsedContexts, Unset, Running,
              ContextsHaveOwners, BuiltFromOwnHandshake
<1>2. CASE Next
  BY <1>2, SpawnInv, DecodeSuccessInv, PeerUnknownInv, RejectedInv, ReplyWrittenInv, ReplyBrokenInv,
     IncompleteInv, DropFailedInv, BuildAppInv, DisconnectInv DEF Next
<1> QED
  BY <1>1, <1>2

(* The state of the hand-off is well typed, whatever is connected and      *)
(* whichever task ids are used; in particular every reply is one of the    *)
(* four codes.                                                             *)
THEOREM HandshakeTypeCorrect == Spec => []TypeOK
<1>1. Inv => TypeOK
  BY DEF Inv
<1> QED
  BY <1>1, InitInv, NextInv, PTL DEF Spec

(* take_current_context hands every application the handshake and the peer *)
(* of its own connection.                                                  *)
THEOREM HandOffCorrect == Spec => []BuiltFromOwnHandshake
<1>1. Inv => BuiltFromOwnHandshake
  BY DEF Inv
<1> QED
  BY <1>1, InitInv, NextInv, PTL DEF Spec

(* An entry of CONNECTION_CONTEXT_REGISTRY belongs to the task of the peer *)
(* it names, and outlives the set-up only after a broken OK reply.         *)
THEOREM EntriesOwned == Spec => []ContextsHaveOwners
<1>1. Inv => ContextsHaveOwners
  BY DEF Inv
<1> QED
  BY <1>1, InitInv, NextInv, PTL DEF Spec

-----------------------------------------------------------------------------
(* The text of the DecodeError carries the cause across bincode.           *)
LEMMA CodeSurvivesBincode ==
    ASSUME NEW p \in Preambles, parse_error(p) # None
    PROVE  error_code_for_decode(decode_error_for_handshake(parse_error(p)))
               = handshake_error_code(parse_error(p))
<1>1. parse_error(p) = "InvalidProtocol" \/ parse_error(p) = "UnsupportedVersion"
  BY DEF parse_error
<1>2. CASE parse_error(p) = "InvalidProtocol"
  BY <1>2 DEF error_code_for_decode, decode_error_for_handshake, handshake_error_code
<1>3. CASE parse_error(p) = "UnsupportedVersion"
  BY <1>3 DEF error_code_for_decode, decode_error_for_handshake, handshake_error_code
<1> QED
  BY <1>1, <1>2, <1>3

LEMMA NextReplies == Inv /\ RepliesMatchLegacy /\ [Next]_vars => RepliesMatchLegacy'
<1> SUFFICES ASSUME Inv, RepliesMatchLegacy, [Next]_vars, NEW c \in Conns, reply'[c] # None
             PROVE  reply'[c] = CASE sent'[c] = None -> HANDSHAKE_ERR_TIMEOUT
                                  [] sent'[c] # None /\ parse_error(sent'[c]) = None -> HANDSHAKE_OK
                                  [] OTHER -> handshake_error_code(parse_error(sent'[c]))
  BY DEF RepliesMatchLegacy
<1> USE DEF Inv
<1>1. CASE reply'[c] = reply[c] /\ sent'[c] = sent[c]
  BY <1>1 DEF RepliesMatchLegacy
<1>2. CASE ReplyWritten(c)
  <2>1. reply'[c] = HANDSHAKE_OK /\ sent'[c] = sent[c] /\ sent[c] \in Preambles
        /\ parse_error(sent[c]) = None
    BY <1>2 DEF ReplyWritten, TypeOK, OwnContext
  <2>2. sent[c] # None
    BY <2>1, NoneAssumption
  <2> QED
    BY <2>1, <2>2
<1>3. ASSUME NEW p \in Preambles, Rejected(c, p)
      PROVE  reply'[c] = CASE sent'[c] = None -> HANDSHAKE_ERR_TIMEOUT
                           [] sent'[c] # None /\ parse_error(sent'[c]) = None -> HANDSHAKE_OK
                           [] OTHER -> handshake_error_code(parse_error(sent'[c]))
  <2>1. sent'[c] = p /\ p # None /\ parse_error(p) # None
    BY <1>3, NoneAssumption DEF Rejected, TypeOK
  <2>2. reply'[c] = error_code_for_decode(decode_error_for_handshake(parse_error(p)))
    BY <1>3 DEF Rejected, DecodeFailure, TypeOK, Unset
  <2> QED
    BY <2>1, <2>2, CodeSurvivesBincode
<1>4. CASE Incomplete(c)
  <2>1. PICK kind \in {"TimedOut", "UnexpectedEnd"} : DecodeFailure(c, [kind |-> kind])
    BY <1>4 DEF Incomplete
  <2>2. sent'[c] = None
    BY <1>4, <2>1 DEF Incomplete, DecodeFailure, Unset
  <2>3. reply'[c] = error_code_for_decode([kind |-> kind])
    BY <2>1 DEF DecodeFailure, TypeOK, Unset
  <2>4. reply'[c] = HANDSHAKE_ERR_TIMEOUT
    BY <2>3 DEF error_code_for_decode
  <2> QED
    BY <2>2, <2>4
<1>5. CASE UNCHANGED vars
  BY <1>1, <1>5 DEF vars
<1>6. CASE Next
  <2>1. PICK d \in Conns :
          \/ \E t \in TaskIds : Spawn(d, t)
          \/ \E p \in Preambles : DecodeSuccess(d, p) \/ PeerUnknown(d, p) \/ Rejected(d, p)
          \/ ReplyWritten(d) \/ ReplyBroken(d)
          \/ Incomplete(d)
          \/ DropFailed(d)
          \/ BuildApp(d) \/ Disconnect(d)
    BY <1>6 DEF Next
  <2>2. CASE d # c
    <3>1. reply'[c] = reply[c] /\ sent'[c] = sent[c]
      BY <2>1, <2>2 DEF Spawn, DecodeSuccess, PeerUnknown, Rejected, ReplyWritten, ReplyBroken,
                        Incomplete, DecodeFailure, DropFailed, BuildApp, Disconnect, TypeOK
    <3> QED
      BY <3>1, <1>1
  <2>3. CASE d = c
    <3>1. CASE \E t \in TaskIds : Spawn(c, t)
      BY <3>1, <1>1 DEF Spawn
    <3>2. CASE \E p \in Preambles : DecodeSuccess(c, p) \/ PeerUnknown(c, p)
      BY <3>2 DEF DecodeSuccess, PeerUnknown, Unset
    <3>3. CASE ReplyBroken(c) \/ DropFailed(c) \/ BuildApp(c) \/ Disconnect(c)
      BY <3>3, <1>1 DEF ReplyBroken, DropFailed, BuildApp, Disconnect
    <3> QED
      BY <2>1, <2>3, <3>1, <3>2, <3>3, <1>2, <1>3, <1>4
  <2> QED
    BY <2>2, <2>3
<1> QED
  BY <1>5, <1>6

(* Both servers answer the same twelve bytes with the same code, and only  *)
(* a client that stays silent is told of a timeout.                        *)
THEOREM RepliesCorrect == Spec => []RepliesMatchLegacy
<1>1. Init => RepliesMatchLegacy
  BY DEF Init, RepliesMatchLegacy
<1> QED
  BY <1>1, InitInv, NextInv, NextReplies, PTL DEF Spec
==============================================================================
