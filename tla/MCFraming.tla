------------------------------ MODULE MCFraming ------------------------------
(* Frames of at most two units, transactions of at most three: one to      *)
(* three fragments, sizes on both sides of both limits, two headers that   *)
(* differ in `error` only, one id whose payload does not validate.         *)
EXTENDS Framing

MCIds == {1, 2}
MCBadIds == {2}
MCErrors == {0, 1}
==============================================================================
