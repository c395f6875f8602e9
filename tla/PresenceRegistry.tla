--------------------------- MODULE PresenceRegistry ---------------------------
(***************************************************************************)
(* The presence registry of src/presence.rs: the snapshots of the online   *)
(* connections and the rolling counter that hands out their wire ids.      *)
(* Every public method takes the registry's mutex once and does all its    *)
(* work under it, so each is one action here. A snapshot is reduced to the *)
(* two fields the properties tell apart, its wire id and its display name. *)
(***************************************************************************)
EXTENDS Integers

CONSTANTS
    Conns,          \* OutboundConnectionId values, ordered by as_u64()
    Infos,          \* display names
    MaxPresenceId,  \* u16::MAX
    Absent          \* a connection without a snapshot

ASSUME ConnsAssumption == Conns \subseteq Nat
ASSUME MaxPresenceIdAssumption == MaxPresenceId \in Nat \ {0}

VARIABLES
    snapshots,         \* PresenceState.snapshots
    next_presence_id   \* PresenceState.next_presence_id

registryVars == <<snapshots, next_presence_id>>

PresenceId == 1..MaxPresenceId

Snapshot == [user_id : PresenceId, display_name : Infos]

ASSUME AbsentAssumption == Absent \notin Snapshot

-----------------------------------------------------------------------------
(* Reading the map of snapshots.                                           *)

Online == {c \in Conns : snapshots[c] # Absent}

active_ids == {snapshots[c].user_id : c \in Online}

(* The value of the counter after k rounds of wrapping_add(1).max(1): from *)
(* the largest u16 the counter wraps to 0, which max(1) turns into 1.      *)
Advance(n, k) == IF n + k <= MaxPresenceId THEN n + k ELSE n + k - MaxPresenceId

MutFreeRounds == 1..MaxPresenceId

(* The rounds of the search at which the counter shows an id nobody holds. *)
FreeRounds == {k \in 1..MaxPresenceId : Advance(next_presence_id, k) \notin active_ids}

(* The search stops at the first such round.                               *)
FirstFree == CHOOSE k \in FreeRounds : \A j \in FreeRounds : k <= j

next_available_presence_id == Advance(next_presence_id, FirstFree)

(* A connection with a snapshot keeps its id; any other gets the first     *)
(* free one.                                                               *)
MutAssignedPresenceId(c) == next_available_presence_id

assigned_presence_id(c) ==
    IF c \in Online THEN snapshots[c].user_id ELSE next_available_presence_id

(* Where upsert leaves the counter: only the search moves it, and a search *)
(* that finds nothing has still gone all the way round.                    *)
CounterAfterUpsert(c) ==
    CASE c \in Online -> next_presence_id
      [] c \notin Online /\ FreeRounds # {} -> next_available_presence_id
      [] OTHER -> Advance(next_presence_id, MaxPresenceId)

(* upsert fails exactly when the search runs out of ids.                   *)
UpsertFails(c) == c \notin Online /\ FreeRounds = {}

-----------------------------------------------------------------------------
Init ==
    /\ snapshots = [c \in Conns |-> Absent]
    /\ next_presence_id = 0

Upsert(c, info) ==
    /\ ~UpsertFails(c)
    /\ snapshots' = [snapshots EXCEPT ![c] =
                        [user_id |-> assigned_presence_id(c), display_name |-> info]]
    /\ next_presence_id' = CounterAfterUpsert(c)

(* InvalidParamValue: the early return of `?` leaves the map alone.        *)
UpsertRefused(c) ==
    /\ UpsertFails(c)
    /\ next_presence_id' = CounterAfterUpsert(c)
    /\ UNCHANGED snapshots

MutRemove(c) ==
    /\ c \in Online
    /\ snapshots' = [snapshots EXCEPT ![c] = Absent]
    /\ next_presence_id' = snapshots[c].user_id - 1

Remove(c) ==
    /\ c \in Online
    /\ snapshots' = [snapshots EXCEPT ![c] = Absent]
    /\ UNCHANGED next_presence_id

Next ==
    \E c \in Conns :
        \/ \E info \in Infos : Upsert(c, info)
        \/ UpsertRefused(c)
        \/ Remove(c)

Spec == Init /\ [][Next]_registryVars

-----------------------------------------------------------------------------
(* Every snapshot in the map carries an id that fits field 300, and the    *)
(* counter stays within u16 (0 only before the first search).              *)
TypeOK ==
    /\ snapshots \in [Conns -> Snapshot \cup {Absent}]
    /\ next_presence_id \in 0..MaxPresenceId

(* No two online connections show the same wire id, however far the        *)
(* counter has wrapped and whatever was removed in between: the promise of *)
(* assigned_presence_id that simultaneous logins stay distinct.            *)
UniquePresenceIds ==
    \A c, d \in Online : snapshots[c].user_id = snapshots[d].user_id => c = d

(* An upsert of a connection that is already online never renumbers it, so *)
(* a 301 about a known user never introduces a second roster line.         *)
PresenceIdStable ==
    [][\A c \in Conns :
          snapshots[c] # Absent /\ snapshots'[c] # Absent
          => snapshots'[c].user_id = snapshots[c].user_id]_registryVars

(* The registry implements the directory: the counter is only a way of     *)
(* choosing a free id.                                                     *)
Directory == INSTANCE PresenceDirectory WITH roster <- snapshots

ImplementsDirectory == Directory!Spec
==============================================================================
