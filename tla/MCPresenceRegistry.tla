-------------------------- MODULE MCPresenceRegistry --------------------------
(* TLC instance of PresenceIdReuse (and so of PresenceRegistry). There are *)
(* as many connections as ids and one more, so that the counter wraps with *)
(* ids still held and the search also runs out.                            *)
EXTENDS PresenceIdReuse

MCConns == 1..4
MCInfos == {"alice", "bob"}
MCMaxPresenceId == 3

(* The closed form of Advance is what iterating the loop body computes.    *)
Bump(n) == IF n = MaxPresenceId THEN 1 ELSE n + 1

ASSUME AdvanceIterates ==
    \A n \in 0..MaxPresenceId :
        /\ Advance(n, 1) = Bump(n)
        /\ \A k \in 1..(MaxPresenceId - 1) : Advance(n, k + 1) = Bump(Advance(n, k))
==============================================================================
