----------------------------- MODULE LossyFifo -----------------------------
(***************************************************************************)
(* What the links of the frontend promise: packets, numbered in the order  *)
(* they are offered, come out in that order and at most once.  A link may  *)
(* miss a packet it is offered, and may drop the oldest it still holds; it *)
(* never repeats, reorders or invents one.                                 *)
(***************************************************************************)
EXTENDS Naturals, Sequences

VARIABLES
    offered,  \* number of packets offered so far
    queue,    \* packets the link holds
    out       \* packets delivered

vars == <<offered, queue, out>>

Init == offered = 0 /\ queue = <<>> /\ out = <<>>

Offer ==
    /\ offered' = offered + 1
    /\ queue' \in {queue, Append(queue, offered + 1)}
    /\ UNCHANGED out

Deliver ==
    /\ queue # <<>>
    /\ queue' = Tail(queue) /\ out' = Append(out, Head(queue))
    /\ UNCHANGED offered

Drop ==
    /\ \E k \in 1..Len(queue) : queue' = SubSeq(queue, k + 1, Len(queue))
    /\ UNCHANGED <<offered, out>>

Next == Offer \/ Deliver \/ Drop

Spec == Init /\ [][Next]_vars
=============================================================================
