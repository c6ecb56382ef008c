---------------------------- MODULE MCCommander ----------------------------
(***************************************************************************)
(* The instance of Commander for TLC: a caller that retries once, beside   *)
(* senders that do not wait.  The ground uses one of the frontend's ids.   *)
(***************************************************************************)
EXTENDS Commander

CONSTANTS c1, m1, m2, m3, o1, o2, o3

OneCaller == {c1}
ThreeMsgs == {m1, m2, m3}
ThreeOwn  == {o1, o2, o3}
Ground    == {o1}
RetryOnce == [c \in OneCaller |-> 1]
=============================================================================
