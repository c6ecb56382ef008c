----------------------------- MODULE LossyEcho -----------------------------
(***************************************************************************)
(* What the echo promises its receivers: once a receiver has joined, each  *)
(* packet offered is held for it and comes out, the oldest first, at most  *)
(* once.  Packets are numbered as they are offered.  Only a failure loses  *)
(* one, and then the oldest that is held; one receiver's failures are      *)
(* nothing to another.                                                     *)
(***************************************************************************)
EXTENDS Naturals, Sequences

CONSTANT Receivers

VARIABLES
    offered,  \* number of packets offered so far
    joined,   \* the receivers that have joined
    held,     \* per receiver: packets held for it
    out,      \* per receiver: packets delivered
    failures  \* per receiver

vars == <<offered, joined, held, out, failures>>

Oldest(r) == {p \in held[r] : \A q \in held[r] : p <= q}

Init ==
    /\ offered = 0 /\ joined = {}
    /\ held = [r \in Receivers |-> {}]
    /\ out = [r \in Receivers |-> <<>>]
    /\ failures = [r \in Receivers |-> 0]

Join(r) == joined' = joined \cup {r} /\ UNCHANGED <<offered, held, out, failures>>

Offer ==
    /\ offered' = offered + 1
    /\ held' = [r \in Receivers |-> IF r \in joined THEN held[r] \cup {offered + 1} ELSE held[r]]
    /\ UNCHANGED <<joined, out, failures>>

Deliver(r) ==
    /\ \E p \in Oldest(r) :
         /\ held' = [held EXCEPT ![r] = @ \ {p}]
         /\ out' = [out EXCEPT ![r] = Append(@, p)]
    /\ UNCHANGED <<offered, joined, failures>>

\* A failure costs the oldest packet, or none.
Fail(r) ==
    /\ failures' = [failures EXCEPT ![r] = @ + 1]
    /\ held' = held \/ \E p \in Oldest(r) : held' = [held EXCEPT ![r] = @ \ {p}]
    /\ UNCHANGED <<offered, joined, out>>

Next == Offer \/ \E r \in Receivers : Join(r) \/ Deliver(r) \/ Fail(r)

Spec == Init /\ [][Next]_vars
=============================================================================
