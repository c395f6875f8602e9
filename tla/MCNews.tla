------------------------------- MODULE MCNews -------------------------------
(***************************************************************************)
(* Two connections post to a catalogue of at most five rows over two       *)
(* names, its bundles and categories nested in every possible way.         *)
(***************************************************************************)
EXTENDS News

CONSTANTS a, b, p1, p2

MCNames == {a, b}
MCPosters == {p1, p2}
============================================================================
