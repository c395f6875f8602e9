------------------------------ MODULE MCFiles ------------------------------
(* A small instance of Files: names 1 to 3 are the fixture's, a node may   *)
(* be nested two deep, and user 1 has legacy files the new table may       *)
(* repeat, as a file or as a folder.                                       *)
EXTENDS Files

MCNames == 1..3
MCPaths == {<<>>, <<0, 1, 2, 0>>, <<1, 0, 2>>, <<2, 2>>}
MCTemplates ==
    {[kind |-> "folder", name |-> 1, object_key |-> 0],
     [kind |-> "file", name |-> 2, object_key |-> 1],
     [kind |-> "alias", name |-> 2, object_key |-> 0]}
MCLegacyRows == {<<2, 1>>}
MCSymmetry == Permutations(Fixtures)
=============================================================================
