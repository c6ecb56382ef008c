------------------------------ MODULE MCParams ------------------------------
(***************************************************************************)
(* The instance of Params for TLC: a timestamp of two bits and a counter   *)
(* of two values, so that both turn over within the run.                   *)
(***************************************************************************)
EXTENDS Params, TLC

CONSTANTS c1, c2

TwoCallers == {c1, c2}
Symmetry   == Permutations(TwoCallers)

\* 0 and 3 have the same timestamp, a turn apart, and so have -2 and 2.
SomeTimes == {-2, 0, 2, 3}
=============================================================================
