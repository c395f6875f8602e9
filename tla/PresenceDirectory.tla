-------------------------- MODULE PresenceDirectory --------------------------
(***************************************************************************)
(* What the presence runtime promises to the rest of the server, without   *)
(* saying how presence ids are found: a roster of the visible connections  *)
(* in which every entry has a wire id of its own, an entry keeps its id    *)
(* for as long as it stays, and a leaver's id becomes free.                *)
(*                                                                         *)
(* PresenceRegistry implements it (proved in PresenceRegistryProofs), and  *)
(* so does the wireframe server, whose connections share a registry        *)
(* (checked with TLC).                                                     *)
(***************************************************************************)
EXTENDS Integers

CONSTANTS
    Conns,          \* connection identifiers
    Infos,          \* what an entry shows of its session (the display name)
    MaxPresenceId,  \* largest wire id (u16::MAX)
    Absent          \* marks a connection that has no entry

VARIABLE roster

Entry == [user_id : 1..MaxPresenceId, display_name : Infos]

IdsInUse == {roster[c].user_id : c \in {d \in Conns : roster[d] # Absent}}

Init == roster = [c \in Conns |-> Absent]

Join(c, info) ==
    /\ roster[c] = Absent
    /\ \E i \in (1..MaxPresenceId) \ IdsInUse :
          roster' = [roster EXCEPT ![c] = [user_id |-> i, display_name |-> info]]

Update(c, info) ==
    /\ roster[c] # Absent
    /\ roster' = [roster EXCEPT ![c] =
                     [user_id |-> roster[c].user_id, display_name |-> info]]

Leave(c) ==
    /\ roster[c] # Absent
    /\ roster' = [roster EXCEPT ![c] = Absent]

Next ==
    \E c \in Conns :
        \/ \E info \in Infos : Join(c, info) \/ Update(c, info)
        \/ Leave(c)

Spec == Init /\ [][Next]_roster
==============================================================================
