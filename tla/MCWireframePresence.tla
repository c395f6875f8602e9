------------------------- MODULE MCWireframePresence -------------------------
(* TLC instances of WireframePresence.                                     *)
EXTENDS WireframePresence

TwoConns == 1..2
ThreeConns == 1..3
OneUser == {1}
MCUsername == <<"alice">>
LongInfos == {"alice", "longest"}
MCInfos == {"alice", "bob"}
MCNameLen == [alice |-> 5, bob |-> 3, longest |-> 65528]
==============================================================================
