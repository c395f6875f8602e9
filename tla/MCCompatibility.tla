-------------------------- MODULE MCCompatibility --------------------------
(***************************************************************************)
(* A small instance of Compatibility: one word of each of the four kinds   *)
(* (UTF-8 only as typed, in both forms, only complemented, in neither) and *)
(* version fields on both sides of every threshold and of the u16 limit.   *)
(***************************************************************************)
EXTENDS Compatibility

CONSTANTS ascii, both, high, mixed

MCWords == {ascii, both, high, mixed}
MCPlain == {ascii, both}
MCFlip == {both, high}
MCServerWords == {ascii}
MCSubVersions == {0, SYNHX_SUB_VERSION}
MCVersionFields ==
  {[bytes |-> 0, value |-> 0], [bytes |-> 2, value |-> 150],
   [bytes |-> 2, value |-> 151], [bytes |-> 4, value |-> 190],
   [bytes |-> 4, value |-> 65536 + 190]}
============================================================================
