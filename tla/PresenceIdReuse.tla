--------------------------- MODULE PresenceIdReuse ---------------------------
(***************************************************************************)
(* How soon the registry hands the same wire id out again. Peers learn of  *)
(* a departure from a 302 that only names an id, sent after the removal,   *)
(* so an id that comes back quickly can make a late 302 hit the wrong      *)
(* user. A history variable records, for every id, which other ids a login *)
(* has been given or has found taken since the id was last handed out.     *)
(***************************************************************************)
EXTENDS PresenceRegistry

VARIABLE passedSince

reuseVars == <<snapshots, next_presence_id, passedSince>>

InitReuse == Init /\ passedSince = [i \in PresenceId |-> PresenceId]

(* A login that consults the counter passes the ids that are held.         *)
Passing(given) ==
    passedSince' = [i \in PresenceId |->
                       IF i \in given THEN {} ELSE passedSince[i] \cup active_ids \cup given]

Login(c, info) ==
    /\ c \notin Online
    /\ Upsert(c, info)
    /\ Passing({snapshots'[c].user_id})

Refresh(c, info) == c \in Online /\ Upsert(c, info) /\ UNCHANGED passedSince

LoginRefused(c) == UpsertRefused(c) /\ Passing({})

Logout(c) == Remove(c) /\ UNCHANGED passedSince

NextReuse ==
    \E c \in Conns :
        \/ \E info \in Infos : Login(c, info) \/ Refresh(c, info)
        \/ LoginRefused(c)
        \/ Logout(c)

SpecReuse == InitReuse /\ [][NextReuse]_reuseVars

(* next_available_presence_id goes all the way round before an id comes    *)
(* back: when a login gets an id that was handed out before, every other   *)
(* id has since been given to a login or been found taken by one.          *)
FullSweepBeforeReuse ==
    [][\A c \in Conns :
          snapshots[c] = Absent /\ snapshots'[c] # Absent
          => LET i == snapshots'[c].user_id
             IN  passedSince[i] \cup active_ids \cup {i} = PresenceId]_reuseVars
==============================================================================
