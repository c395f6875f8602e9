------------------------ MODULE PresenceRegistryProofs ------------------------
(***************************************************************************)
(* Proofs about PresenceRegistry for every set of connections, every set   *)
(* of display names and every id width: its type invariant, that wire ids  *)
(* are unique among the online connections, that an online connection      *)
(* keeps its id, that a login is refused only when every id is held, and   *)
(* that the registry implements PresenceDirectory.                         *)
(***************************************************************************)
EXTENDS PresenceRegistry, WellFoundedInduction, TLAPS

(* The conjunction that a step of the registry preserves.                  *)
RegistryInv == TypeOK /\ UniquePresenceIds

-----------------------------------------------------------------------------
(* A non-empty set of naturals has a least element: what FirstFree, the    *)
(* first round at which the search of next_available_presence_id succeeds, *)
(* rests on.                                                               *)
LEMMA LeastElement ==
    ASSUME NEW S \in SUBSET Nat, S # {}
    PROVE  \E x \in S : \A y \in S : x <= y
<1>1. \E x \in S : \A y \in S : ~(<<y, x>> \in OpToRel(<, Nat))
  BY WFMin, NatLessThanWellFounded
<1>2. PICK x \in S : \A y \in S : ~(<<y, x>> \in OpToRel(<, Nat))
  BY <1>1
<1>3. ASSUME NEW y \in S PROVE x <= y
  <2>1. ~(<<y, x>> \in OpToRel(<, Nat))
    BY <1>2
  <2>2. x \in Nat /\ y \in Nat
    OBVIOUS
  <2>3. ~(y < x)
    BY <2>1, <2>2 DEF OpToRel
  <2> QED
    BY <2>2, <2>3
<1> QED
  BY <1>3

(* The counter never leaves 1..MaxPresenceId once a search has moved it.   *)
LEMMA AdvanceType ==
    ASSUME NEW n \in 0..MaxPresenceId, NEW k \in 1..MaxPresenceId
    PROVE  Advance(n, k) \in PresenceId
BY MaxPresenceIdAssumption DEF Advance, PresenceId

(* Within one sweep the counter visits every id: the search of             *)
(* next_available_presence_id overlooks none.                              *)
LEMMA AdvanceReachesEveryId ==
    ASSUME NEW n \in 0..MaxPresenceId, NEW i \in PresenceId
    PROVE  \E k \in 1..MaxPresenceId : Advance(n, k) = i
<1>1. CASE i > n
  <2>1. i - n \in 1..MaxPresenceId /\ Advance(n, i - n) = i
    BY <1>1, MaxPresenceIdAssumption DEF Advance, PresenceId
  <2> QED
    BY <2>1
<1>2. CASE i <= n
  <2>1. /\ i + MaxPresenceId - n \in 1..MaxPresenceId
        /\ Advance(n, i + MaxPresenceId - n) = i
    BY <1>2, MaxPresenceIdAssumption DEF Advance, PresenceId
  <2> QED
    BY <2>1
<1> QED
  BY <1>1, <1>2, MaxPresenceIdAssumption DEF PresenceId

(* A search that finds a free round returns an id nobody holds.            *)
LEMMA NextAvailableIsFree ==
    ASSUME TypeOK, FreeRounds # {}
    PROVE  /\ next_available_presence_id \in PresenceId
           /\ next_available_presence_id \notin active_ids
<1>1. FreeRounds \in SUBSET Nat
  BY DEF FreeRounds
<1>2. \E k \in FreeRounds : \A j \in FreeRounds : k <= j
  BY <1>1, LeastElement
<1>3. FirstFree \in FreeRounds
  BY <1>2 DEF FirstFree
<1>4. FirstFree \in 1..MaxPresenceId /\ Advance(next_presence_id, FirstFree) \notin active_ids
  BY <1>3 DEF FreeRounds
<1> QED
  BY <1>4, AdvanceType DEF next_available_presence_id, TypeOK

-----------------------------------------------------------------------------
(* upsert refuses a connection only if it is new and all MaxPresenceId ids *)
(* are held by online connections.                                         *)
THEOREM RefusedOnlyWhenFull ==
    ASSUME TypeOK, NEW c \in Conns
    PROVE  UpsertFails(c) <=> c \notin Online /\ PresenceId \subseteq active_ids
<1>1. ASSUME FreeRounds = {} PROVE PresenceId \subseteq active_ids
  <2> SUFFICES ASSUME NEW i \in PresenceId PROVE i \in active_ids
    OBVIOUS
  <2>1. PICK k \in 1..MaxPresenceId : Advance(next_presence_id, k) = i
    BY AdvanceReachesEveryId DEF TypeOK
  <2> QED
    BY <1>1, <2>1 DEF FreeRounds
<1>2. ASSUME PresenceId \subseteq active_ids PROVE FreeRounds = {}
  BY <1>2, AdvanceType DEF FreeRounds, TypeOK
<1> QED
  BY <1>1, <1>2 DEF UpsertFails

(* The id that upsert gives a connection fits the wire field, is the one   *)
(* the connection had if it was online, and is held by nobody else.        *)
LEMMA AssignedId ==
    ASSUME RegistryInv, NEW c \in Conns, ~UpsertFails(c)
    PROVE  /\ assigned_presence_id(c) \in PresenceId
           /\ c \in Online => assigned_presence_id(c) = snapshots[c].user_id
           /\ \A d \in Online \ {c} : snapshots[d].user_id # assigned_presence_id(c)
<1>1. CASE c \in Online
  <2>1. assigned_presence_id(c) = snapshots[c].user_id
    BY <1>1 DEF assigned_presence_id
  <2>2. snapshots[c].user_id \in PresenceId
    BY <1>1 DEF RegistryInv, TypeOK, Online, Snapshot
  <2> QED
    BY <1>1, <2>1, <2>2 DEF RegistryInv, UniquePresenceIds
<1>2. CASE c \notin Online
  <2>1. assigned_presence_id(c) = next_available_presence_id
    BY <1>2 DEF assigned_presence_id
  <2>2. FreeRounds # {}
    BY <1>2 DEF UpsertFails
  <2> QED
    BY <1>2, <2>1, <2>2, NextAvailableIsFree DEF RegistryInv, active_ids
<1> QED
  BY <1>1, <1>2

(* Whatever upsert does to the counter, it stays a u16.                    *)
LEMMA CounterType ==
    ASSUME TypeOK, NEW c \in Conns
    PROVE  CounterAfterUpsert(c) \in 0..MaxPresenceId
<1>1. CASE c \in Online
  BY <1>1 DEF CounterAfterUpsert, TypeOK
<1>2. CASE c \notin Online /\ FreeRounds # {}
  BY <1>2, NextAvailableIsFree, MaxPresenceIdAssumption DEF CounterAfterUpsert, PresenceId
<1>3. CASE c \notin Online /\ FreeRounds = {}
  <2>1. MaxPresenceId \in 1..MaxPresenceId
    BY MaxPresenceIdAssumption
  <2>2. Advance(next_presence_id, MaxPresenceId) \in PresenceId
    BY <2>1, AdvanceType DEF TypeOK
  <2>3. CounterAfterUpsert(c) = Advance(next_presence_id, MaxPresenceId)
    BY <1>3 DEF CounterAfterUpsert
  <2> QED
    BY <2>2, <2>3, MaxPresenceIdAssumption DEF PresenceId
<1> QED
  BY <1>1, <1>2, <1>3

-----------------------------------------------------------------------------
(* The registry starts empty, with the counter at zero.                    *)
LEMMA InitInv == Init => RegistryInv
BY MaxPresenceIdAssumption
   DEF Init, RegistryInv, TypeOK, UniquePresenceIds, Online

(* upsert preserves the invariant: the only new id in the map is the       *)
(* assigned one, which no other online connection holds.                   *)
LEMMA UpsertInv ==
    ASSUME RegistryInv, NEW c \in Conns, NEW info \in Infos, Upsert(c, info)
    PROVE  RegistryInv'
<1> DEFINE new == [user_id |-> assigned_presence_id(c), display_name |-> info]
<1>1. ~UpsertFails(c)
  BY DEF Upsert
<1>2. new \in Snapshot
  BY <1>1, AssignedId DEF Snapshot
<1>3. new # Absent
  BY <1>2, AbsentAssumption
<1>4. /\ snapshots' = [snapshots EXCEPT ![c] = new]
      /\ next_presence_id' = CounterAfterUpsert(c)
  BY DEF Upsert
<1>5. TypeOK'
  <2>1. next_presence_id' \in 0..MaxPresenceId
    BY <1>4, CounterType DEF RegistryInv
  <2>2. snapshots' \in [Conns -> Snapshot \cup {Absent}]
    BY <1>2, <1>4 DEF RegistryInv, TypeOK
  <2> QED
    BY <2>1, <2>2 DEF TypeOK
<1>6. UniquePresenceIds'
  <2>1. snapshots'[c] = new /\ new.user_id = assigned_presence_id(c)
    BY <1>4 DEF RegistryInv, TypeOK
  <2>2. \A d \in Conns \ {c} : snapshots'[d] = snapshots[d]
    BY <1>4 DEF RegistryInv, TypeOK
  <2>3. \A d \in Online' \ {c} : d \in Online \ {c}
    BY <2>2 DEF Online
  <2>4. \A d \in Online' \ {c} : snapshots'[d].user_id # assigned_presence_id(c)
    BY <1>1, <2>2, <2>3, AssignedId DEF Online
  <2> SUFFICES ASSUME NEW d \in Online', NEW e \in Online',
                      snapshots'[d].user_id = snapshots'[e].user_id
               PROVE  d = e
    BY DEF UniquePresenceIds
  <2>5. CASE d = c \/ e = c
    BY <2>1, <2>4, <2>5
  <2>6. CASE d # c /\ e # c
    BY <2>2, <2>3, <2>6 DEF RegistryInv, UniquePresenceIds, Online
  <2> QED
    BY <2>5, <2>6
<1> QED
  BY <1>5, <1>6 DEF RegistryInv

(* A refused upsert only moves the counter.                                *)
LEMMA UpsertRefusedInv ==
    ASSUME RegistryInv, NEW c \in Conns, UpsertRefused(c)
    PROVE  RegistryInv'
<1>1. next_presence_id' \in 0..MaxPresenceId
  BY CounterType DEF RegistryInv, UpsertRefused
<1> QED
  BY <1>1 DEF RegistryInv, TypeOK, UniquePresenceIds, Online, UpsertRefused

(* remove takes an entry out and touches no other.                         *)
LEMMA RemoveInv ==
    ASSUME RegistryInv, NEW c \in Conns, Remove(c)
    PROVE  RegistryInv'
<1>1. TypeOK'
  BY DEF RegistryInv, TypeOK, Remove
<1>2. \A d \in Online' : d \in Online /\ snapshots'[d] = snapshots[d]
  BY DEF RegistryInv, TypeOK, Remove, Online
<1>3. UniquePresenceIds'
  BY <1>2 DEF RegistryInv, UniquePresenceIds
<1> QED
  BY <1>1, <1>3 DEF RegistryInv

(* Every call on the registry, and every step that leaves it alone,        *)
(* preserves the invariant.                                                *)
LEMMA NextInv == RegistryInv /\ [Next]_registryVars => RegistryInv'
<1> SUFFICES ASSUME RegistryInv, [Next]_registryVars
             PROVE  RegistryInv'
  OBVIOUS
<1>1. CASE Next
  BY <1>1, UpsertInv, UpsertRefusedInv, RemoveInv DEF Next
<1>2. CASE UNCHANGED registryVars
  BY <1>2 DEF registryVars, RegistryInv, TypeOK, UniquePresenceIds, Online
<1> QED
  BY <1>1, <1>2

(* The inductive invariant of the registry: well-formed snapshots and      *)
(* distinct wire ids, whatever upserts and removals came before.           *)
THEOREM RegistryInvariant == Spec => []RegistryInv
BY InitInv, NextInv, PTL DEF Spec

(* The map holds only well-formed snapshots and the counter stays a u16.   *)
THEOREM TypeCorrect == Spec => []TypeOK
<1>1. RegistryInv => TypeOK
  BY DEF RegistryInv
<1> QED
  BY <1>1, RegistryInvariant, PTL

(* No two online connections ever share a wire id.                         *)
THEOREM PresenceIdsUnique == Spec => []UniquePresenceIds
<1>1. RegistryInv => UniquePresenceIds
  BY DEF RegistryInv
<1> QED
  BY <1>1, RegistryInvariant, PTL

-----------------------------------------------------------------------------
(* An online connection keeps its wire id through every step that leaves   *)
(* it online: upsert reuses the id it finds.                               *)
THEOREM PresenceIdsStable == Spec => PresenceIdStable
<1> DEFINE Keeps == \A c \in Conns :
                       snapshots[c] # Absent /\ snapshots'[c] # Absent
                       => snapshots'[c].user_id = snapshots[c].user_id
<1>1. RegistryInv /\ [Next]_registryVars => [Keeps]_registryVars
  <2> SUFFICES ASSUME RegistryInv, Next, NEW c \in Conns,
                      snapshots[c] # Absent, snapshots'[c] # Absent
               PROVE  snapshots'[c].user_id = snapshots[c].user_id
    OBVIOUS
  <2>1. c \in Online
    BY DEF Online
  <2>2. PICK d \in Conns : (\E info \in Infos : Upsert(d, info)) \/ UpsertRefused(d) \/ Remove(d)
    BY DEF Next
  <2>3. ASSUME NEW info \in Infos, Upsert(d, info)
        PROVE  snapshots'[c].user_id = snapshots[c].user_id
    <3>1. ~UpsertFails(d)
      BY <2>3 DEF Upsert
    <3>2. CASE d = c
      BY <2>1, <2>3, <3>1, <3>2, AssignedId DEF Upsert, RegistryInv, TypeOK
    <3>3. CASE d # c
      BY <2>3, <3>3 DEF Upsert, RegistryInv, TypeOK
    <3> QED
      BY <3>2, <3>3
  <2>4. CASE UpsertRefused(d)
    BY <2>4 DEF UpsertRefused
  <2>5. CASE Remove(d)
    BY <2>5 DEF Remove, RegistryInv, TypeOK
  <2> QED
    BY <2>2, <2>3, <2>4, <2>5
<1> QED
  BY <1>1, RegistryInvariant, PTL DEF Spec, PresenceIdStable

-----------------------------------------------------------------------------
(* The ids the directory calls in use are the ids the search calls active. *)
LEMMA SameIds == Directory!IdsInUse = active_ids
BY DEF Directory!IdsInUse, active_ids, Online

(* A step of the registry is a step of the directory or, when only the     *)
(* counter moves, a stutter.                                               *)
LEMMA StepRefines ==
    RegistryInv /\ [Next]_registryVars => [Directory!Next]_snapshots
<1> SUFFICES ASSUME RegistryInv, Next PROVE Directory!Next \/ UNCHANGED snapshots
  BY DEF registryVars
<1>1. PICK c \in Conns : (\E info \in Infos : Upsert(c, info)) \/ UpsertRefused(c) \/ Remove(c)
  BY DEF Next
<1>2. ASSUME NEW info \in Infos, Upsert(c, info) PROVE Directory!Next
  <2>1. ~UpsertFails(c)
    BY <1>2 DEF Upsert
  <2>2. CASE c \in Online
    <3>1. snapshots[c] # Absent
      BY <2>2 DEF Online
    <3>2. Directory!Update(c, info)
      BY <1>2, <2>1, <2>2, <3>1, AssignedId DEF Directory!Update, Upsert
    <3> QED
      BY <3>2 DEF Directory!Next
  <2>3. CASE c \notin Online
    <3>1. snapshots[c] = Absent
      BY <2>3 DEF Online
    <3>2. assigned_presence_id(c) \in PresenceId \ active_ids
      BY <2>1, <2>3, NextAvailableIsFree
         DEF assigned_presence_id, UpsertFails, RegistryInv
    <3>3. assigned_presence_id(c) \in (1..MaxPresenceId) \ Directory!IdsInUse
      BY <3>2, SameIds DEF PresenceId
    <3>4. Directory!Join(c, info)
      BY <1>2, <3>1, <3>3 DEF Directory!Join, Upsert
    <3> QED
      BY <3>4 DEF Directory!Next
  <2> QED
    BY <2>2, <2>3
<1>3. CASE UpsertRefused(c)
  BY <1>3 DEF UpsertRefused
<1>4. CASE Remove(c)
  <2>1. Directory!Leave(c)
    BY <1>4 DEF Remove, Online, Directory!Leave
  <2> QED
    BY <2>1 DEF Directory!Next
<1> QED
  BY <1>1, <1>2, <1>3, <1>4

(* The registry with its rolling counter implements the directory that     *)
(* hands out any free id.                                                  *)
THEOREM RegistryImplementsDirectory == Spec => ImplementsDirectory
<1>1. Init => Directory!Init
  BY DEF Init, Directory!Init
<1> QED
  BY <1>1, StepRefines, RegistryInvariant, PTL
     DEF Spec, ImplementsDirectory, Directory!Spec
==============================================================================
