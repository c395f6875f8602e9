------------------------- MODULE MCWireframeHandshake -------------------------
(* Three connections over three task ids, so that ids can all be fresh or  *)
(* come back, with one announced sub-version each.                         *)
EXTENDS WireframeHandshake

MCConns == 1..3
MCTaskIds == 1..3
MCSubVersions == {0}
==============================================================================
