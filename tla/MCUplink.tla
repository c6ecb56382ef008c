------------------------------ MODULE MCUplink ------------------------------
(***************************************************************************)
(* The instance of Uplink for TLC.                                         *)
(***************************************************************************)
EXTENDS Uplink

CONSTANTS c1, c2

TwoConsoles == {c1, c2}
=============================================================================
