---------------------------- MODULE MCLegacyServer ----------------------------
(* TLC instances of LegacyServer.                                          *)
EXTENDS LegacyServer

TwoConns == 1..2
OneUser == {1}
MCUsername == <<"alice">>
MCInfos == {"alice", "al"}
==============================================================================
