----------------------------- MODULE MCDownlink -----------------------------
(***************************************************************************)
(* The instance of Downlink for TLC.                                       *)
(***************************************************************************)
EXTENDS Downlink

CONSTANTS d1, d2

TwoDownlinks == {d1, d2}
=============================================================================
