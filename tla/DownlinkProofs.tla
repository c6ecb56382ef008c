--------------------------- MODULE DownlinkProofs ---------------------------
(***************************************************************************)
(* Proofs about Downlink, for any number of receivers, packets, outages    *)
(* and log messages: packets are echoed in order and none twice, a failure *)
(* costs the message in flight, and an outage causes one failure.          *)
(***************************************************************************)
EXTENDS Downlink, Integers, SequencesExt, SequenceTheorems, FiniteSetTheorems, TLAPS

-----------------------------------------------------------------------------
(* Sequences as queues and as histories: what they hold, and its order.     *)

\* Numbers that only grow.
Ordered(s) == \A i, j \in DOMAIN s : i < j => s[i] < s[j]

\* All numbers of one set are smaller than those of another.
Before(A, B) == \A a \in A, b \in B : a < b

LEMMA HoldsNone == ToSet(<<>>) = {}
  BY DEF ToSet

LEMMA HoldsElements ==
    ASSUME NEW S, NEW s \in Seq(S)
    PROVE  /\ ToSet(s) \subseteq S
           /\ ToSet(s) = {s[i] : i \in 1..Len(s)}
           /\ \A i \in DOMAIN s : s[i] \in ToSet(s)
           /\ \A x \in ToSet(s) : \E i \in DOMAIN s : s[i] = x
  BY DEF ToSet

\* Putting an element at the end.
LEMMA HoldsPut ==
    ASSUME NEW S, NEW s \in Seq(S), NEW e \in S
    PROVE  /\ Append(s, e) \in Seq(S)
           /\ ToSet(Append(s, e)) = ToSet(s) \cup {e}
  <1> DEFINE t == Append(s, e)
  <1>1. /\ t \in Seq(S) /\ Len(t) = Len(s) + 1 /\ Len(s) \in Nat
        /\ \A i \in 1..Len(s) : t[i] = s[i]
        /\ t[Len(s) + 1] = e
    BY AppendProperties
  <1> HIDE DEF t
  <1>2. DOMAIN t = 1..(Len(s) + 1) /\ DOMAIN s = 1..Len(s)
    BY <1>1
  <1>3. ToSet(t) \subseteq ToSet(s) \cup {e}
    BY <1>1, <1>2 DEF ToSet
  <1>4. ToSet(s) \cup {e} \subseteq ToSet(t)
    BY <1>1, <1>2 DEF ToSet
  <1> QED BY <1>1, <1>3, <1>4 DEF t

\* Taking the first element.
LEMMA HoldsTake ==
    ASSUME NEW S, NEW s \in Seq(S), s # <<>>
    PROVE  /\ Head(s) \in S /\ Tail(s) \in Seq(S)
           /\ ToSet(s) = {Head(s)} \cup ToSet(Tail(s))
  <1> DEFINE t == Tail(s)
  <1>1. /\ t \in Seq(S) /\ Len(s) = Len(t) + 1 /\ Len(t) \in Nat
        /\ \A i \in 1..Len(t) : t[i] = s[i + 1]
        /\ Head(s) = s[1] /\ Head(s) \in S
    BY HeadTailProperties
  <1> HIDE DEF t
  <1>2. DOMAIN t = 1..Len(t) /\ DOMAIN s = 1..(Len(t) + 1)
    BY <1>1
  <1>3. ToSet(s) \subseteq {Head(s)} \cup ToSet(t)
    <2> SUFFICES ASSUME NEW i \in 1..(Len(t) + 1) PROVE s[i] \in {Head(s)} \cup ToSet(t)
      BY <1>2 DEF ToSet
    <2>1. CASE i = 1
      BY <1>1, <2>1
    <2>2. CASE i # 1
      <3>1. i - 1 \in 1..Len(t) /\ t[i - 1] = s[i]
        BY <1>1, <2>2
      <3> QED BY <1>2, <3>1 DEF ToSet
    <2> QED BY <2>1, <2>2
  <1>4. {Head(s)} \cup ToSet(t) \subseteq ToSet(s)
    <2>1. Head(s) \in ToSet(s)
      BY <1>1, <1>2 DEF ToSet
    <2>2. ASSUME NEW i \in 1..Len(t) PROVE t[i] \in ToSet(s)
      BY <1>1, <1>2 DEF ToSet
    <2> QED BY <1>2, <2>1, <2>2 DEF ToSet
  <1> QED BY <1>1, <1>3, <1>4 DEF t

LEMMA OrderedNone == Ordered(<<>>)
  BY DEF Ordered

LEMMA OrderedPut ==
    ASSUME NEW s \in Seq(Nat), NEW e \in Nat, Ordered(s), Before(ToSet(s), {e})
    PROVE  Ordered(Append(s, e))
  <1> DEFINE t == Append(s, e)
  <1>1. /\ DOMAIN t = 1..(Len(s) + 1) /\ DOMAIN s = 1..Len(s) /\ Len(s) \in Nat
        /\ \A i \in 1..Len(s) : t[i] = s[i] /\ s[i] < e
        /\ t[Len(s) + 1] = e
    BY AppendProperties DEF Before, ToSet
  <1> HIDE DEF t
  <1>2. Ordered(t)
    BY <1>1 DEF Ordered
  <1> QED BY <1>2 DEF t

-----------------------------------------------------------------------------
(* The inductive invariant, actor by actor.                                 *)

\* The packet being sent, if it is one.
InFlight(d) == {sending[d]} \ {None, Log}

\* Packets received, being sent and queued are in the order of their numbers.
PacketsInOrder(d) ==
    /\ Ordered(got[d]) /\ InOrder(mbox[d])
    /\ Before(ToSet(got[d]), InFlight(d))
    /\ Before(ToSet(got[d]), Packets(mbox[d]))
    /\ Before(InFlight(d), Packets(mbox[d]))

\* Packets on their way or received, and packets that are not.
Known(d) == ToSet(got[d]) \cup InFlight(d) \cup Packets(mbox[d])
Gone(d)  == 1..missed[d] \cup lost[d]

Accounted(d) ==
    /\ Known(d) \cup Gone(d) = 1..published /\ Known(d) \cap Gone(d) = {}
    /\ Cardinality(lost[d]) <= faults[d]

\* An actor that has not subscribed holds nothing; one that has had a socket; and
\* one that sends waits for nothing else.
Connected(d) ==
    /\ subscribed[d] => sender[d] # "none"
    /\ ~subscribed[d] => mbox[d] = <<>> /\ sending[d] = None /\ got[d] = <<>>
    /\ sending[d] # None => wait[d] = {}

\* A stale socket that may still be used will make one more send fail.
Armed(d) == sender[d] = "stale" /\ "open" \notin wait[d]
Budgeted(d) == faults[d] + (IF Armed(d) THEN 1 ELSE 0) <= outages + bad

ActorInv(d) == PacketsInOrder(d) /\ Accounted(d) /\ Connected(d) /\ Budgeted(d)

Inv == TypeOK /\ \A d \in Downlinks : ActorInv(d)

-----------------------------------------------------------------------------
(* Mailboxes.                                                               *)

\* Log messages do not count.
LEMMA LogPut ==
    ASSUME NEW s \in Seq(Messages), NEW q, q = s \/ q = Append(s, Log)
    PROVE  /\ q \in Seq(Messages) /\ Packets(q) = Packets(s)
           /\ InOrder(s) => InOrder(q)
  <1>1. Log \in Messages
    BY DEF Messages
  <1>2. CASE q = s
    BY <1>2
  <1>3. CASE q = Append(s, Log)
    <2>1. q \in Seq(Messages) /\ Packets(q) = Packets(s)
      BY <1>1, <1>3, HoldsPut DEF Packets
    <2>2. /\ DOMAIN q = 1..(Len(s) + 1) /\ DOMAIN s = 1..Len(s) /\ Len(s) \in Nat
          /\ \A i \in 1..Len(s) : q[i] = s[i]
          /\ q[Len(s) + 1] = Log
      BY <1>1, <1>3, AppendProperties
    <2>3. InOrder(s) => InOrder(q)
      BY <2>2 DEF InOrder
    <2> QED BY <2>1, <2>3
  <1> QED BY <1>2, <1>3

\* A packet published comes last.
LEMMA PacketPut ==
    ASSUME NEW s \in Seq(Messages), NEW p \in Nat, InOrder(s), Before(Packets(s), {p})
    PROVE  /\ Append(s, p) \in Seq(Messages)
           /\ Packets(Append(s, p)) = Packets(s) \cup {p}
           /\ InOrder(Append(s, p))
  <1> DEFINE q == Append(s, p)
  <1>1. p \in Messages /\ p # Log
    BY NamesAssumption DEF Messages
  <1>2. q \in Seq(Messages) /\ Packets(q) = Packets(s) \cup {p}
    BY <1>1, HoldsPut DEF Packets
  <1>3. /\ DOMAIN q = 1..(Len(s) + 1) /\ DOMAIN s = 1..Len(s) /\ Len(s) \in Nat
        /\ \A i \in 1..Len(s) : q[i] = s[i] /\ s[i] \in ToSet(s)
        /\ q[Len(s) + 1] = p
    BY <1>1, AppendProperties DEF ToSet
  <1> HIDE DEF q
  <1>4. InOrder(q)
    BY <1>3 DEF InOrder, Before, Packets
  <1> QED BY <1>2, <1>4 DEF q

\* Taking the first message.
LEMMA MessageTake ==
    ASSUME NEW s \in Seq(Messages), s # <<>>, InOrder(s)
    PROVE  /\ Head(s) \in Messages /\ Tail(s) \in Seq(Messages)
           /\ Packets(s) = ({Head(s)} \ {Log}) \cup Packets(Tail(s))
           /\ InOrder(Tail(s))
           /\ Head(s) # Log => Before({Head(s)}, Packets(Tail(s)))
  <1> DEFINE t == Tail(s)
  <1>1. /\ Head(s) \in Messages /\ t \in Seq(Messages)
        /\ Packets(s) = ({Head(s)} \ {Log}) \cup Packets(t)
    BY HoldsTake DEF Packets
  <1>2. /\ DOMAIN t = 1..Len(t) /\ DOMAIN s = 1..(Len(t) + 1) /\ Len(t) \in Nat
        /\ \A i \in 1..Len(t) : t[i] = s[i + 1]
        /\ Head(s) = s[1]
    BY HeadTailProperties
  <1> HIDE DEF t
  <1>3. InOrder(t)
    <2> SUFFICES ASSUME NEW i \in 1..Len(t), NEW j \in 1..Len(t), i < j,
                        t[i] # Log, t[j] # Log
                 PROVE  t[i] < t[j]
      BY <1>2 DEF InOrder
    <2>1. i + 1 \in DOMAIN s /\ j + 1 \in DOMAIN s /\ i + 1 < j + 1
      BY <1>2
    <2> QED BY <1>2, <2>1 DEF InOrder
  <1>4. ASSUME NEW i \in 1..Len(t), Head(s) # Log, t[i] # Log PROVE Head(s) < t[i]
    <2>1. 1 \in DOMAIN s /\ i + 1 \in DOMAIN s /\ 1 < i + 1
      BY <1>2
    <2> QED BY <1>2, <1>4, <2>1 DEF InOrder
  <1>5. Head(s) # Log => Before({Head(s)}, Packets(t))
    BY <1>2, <1>4 DEF Before, Packets, ToSet
  <1> QED BY <1>1, <1>3, <1>5 DEF t

\* What the program's own log events do to a mailbox.
LEMMA EventPut ==
    ASSUME NEW boxes \in [Downlinks -> Seq(Messages)], NEW d \in Downlinks
    PROVE  /\ OnEvent(boxes) \in [Downlinks -> Seq(Messages)]
           /\ OnEvent(boxes)[d] = boxes[d] \/ OnEvent(boxes)[d] = Append(boxes[d], Log)
           /\ ~subscribed[d] => OnEvent(boxes)[d] = boxes[d]
  <1>1. \A e \in Downlinks : boxes[e] \in Seq(Messages) /\ Append(boxes[e], Log) \in Seq(Messages)
    BY HoldsPut DEF Messages
  <1> QED BY <1>1 DEF OnEvent

-----------------------------------------------------------------------------
(* The start.                                                               *)

LEMMA InvInit == Init => Inv
  <1> SUFFICES ASSUME Init PROVE Inv
    OBVIOUS
  <1> USE DEF Init
  <1>1. TypeOK
    <2>1. <<>> \in Seq(Messages) /\ <<>> \in Seq(Nat)
      BY EmptySeq
    <2>2. mbox \in [Downlinks -> Seq(Messages)] /\ got \in [Downlinks -> Seq(Nat)]
      BY <2>1
    <2>3. /\ started \in BOOLEAN /\ receiver \in [Downlinks -> BOOLEAN]
          /\ wait \in [Downlinks -> SUBSET {"open", "sleep"}]
          /\ sender \in [Downlinks -> {"none", "good", "stale"}]
          /\ subscribed \in [Downlinks -> BOOLEAN]
          /\ sending \in [Downlinks -> Messages \cup {None}]
          /\ published \in Nat /\ outages \in Nat /\ bad \in Nat
      OBVIOUS
    <2>4. /\ missed \in [Downlinks -> 0..published] /\ lost \in [Downlinks -> SUBSET (1..published)]
          /\ faults \in [Downlinks -> Nat]
      OBVIOUS
    <2> QED BY <2>2, <2>3, <2>4 DEF TypeOK
  <1>2. ASSUME NEW d \in Downlinks PROVE ActorInv(d)
    <2>1. /\ mbox[d] = <<>> /\ got[d] = <<>> /\ sending[d] = None
          /\ lost[d] = {} /\ missed[d] = 0 /\ faults[d] = 0 /\ sender[d] = "none"
          /\ subscribed[d] = FALSE
      OBVIOUS
    <2>2. ToSet(mbox[d]) = {} /\ ToSet(got[d]) = {} /\ InFlight(d) = {} /\ Packets(mbox[d]) = {}
      BY <2>1, HoldsNone DEF InFlight, Packets
    <2>3. PacketsInOrder(d)
      BY <2>1, <2>2, OrderedNone DEF PacketsInOrder, InOrder, Before
    <2>4. Accounted(d)
      <3>1. 1..0 = {} /\ Cardinality({}) = 0
        BY FS_EmptySet
      <3> QED BY <2>1, <2>2, <3>1 DEF Accounted, Known, Gone
    <2>5. Connected(d) /\ Budgeted(d)
      BY <2>1 DEF Connected, Budgeted, Armed
    <2> QED BY <2>3, <2>4, <2>5 DEF ActorInv
  <1> QED BY <1>1, <1>2 DEF Inv

-----------------------------------------------------------------------------
(* The steps.                                                               *)

\* The parts of a type-correct state, for one actor.
LEMMA ActorTypes ==
    ASSUME TypeOK, NEW d \in Downlinks
    PROVE  /\ mbox[d] \in Seq(Messages) /\ got[d] \in Seq(Nat)
           /\ ToSet(got[d]) \subseteq Nat /\ Packets(mbox[d]) \subseteq Nat
           /\ InFlight(d) \subseteq Nat
           /\ lost[d] \subseteq 1..published /\ missed[d] \in 0..published
           /\ faults[d] \in Nat /\ published \in Nat /\ outages \in Nat /\ bad \in Nat
           /\ sending[d] \in Messages \cup {None} /\ wait[d] \subseteq {"open", "sleep"}
           /\ sender[d] \in {"none", "good", "stale"} /\ subscribed[d] \in BOOLEAN
  <1>1. mbox[d] \in Seq(Messages) /\ got[d] \in Seq(Nat)
    BY DEF TypeOK
  <1>2. ToSet(got[d]) \subseteq Nat /\ Packets(mbox[d]) \subseteq Nat
    BY <1>1, HoldsElements DEF Packets, Messages
  <1>3. InFlight(d) \subseteq Nat
    BY DEF InFlight, Messages, TypeOK
  <1> QED BY <1>1, <1>2, <1>3 DEF TypeOK

\* An actor whose packets stay where they are.
LEMMA SameQueues ==
    ASSUME Inv, NEW d \in Downlinks,
           mbox'[d] = mbox[d] \/ mbox'[d] = Append(mbox[d], Log),
           got'[d] = got[d], sending'[d] = sending[d], published' = published,
           missed'[d] = missed[d], lost'[d] = lost[d], faults'[d] = faults[d]
    PROVE  PacketsInOrder(d)' /\ Accounted(d)'
  <1>1. PacketsInOrder(d) /\ Accounted(d) /\ mbox[d] \in Seq(Messages)
    BY ActorTypes DEF Inv, ActorInv
  <1>2. Packets(mbox'[d]) = Packets(mbox[d]) /\ InOrder(mbox'[d])
    BY <1>1, LogPut DEF PacketsInOrder
  <1>3. InFlight(d)' = InFlight(d)
    BY DEF InFlight
  <1> QED BY <1>1, <1>2, <1>3 DEF PacketsInOrder, Accounted, Known, Gone

\* An actor that another one's failure, or nothing, happens to.
LEMMA Untouched ==
    ASSUME Inv, NEW d \in Downlinks,
           \/ mbox'[d] = mbox[d]
           \/ subscribed[d] /\ mbox'[d] = Append(mbox[d], Log),
           got'[d] = got[d], sending'[d] = sending[d], published' = published,
           missed'[d] = missed[d], lost'[d] = lost[d], faults'[d] = faults[d],
           subscribed'[d] = subscribed[d], sender'[d] = sender[d], wait'[d] = wait[d],
           outages' + bad' >= outages + bad, outages' + bad' \in Nat
    PROVE  ActorInv(d)'
  <1>1. PacketsInOrder(d)' /\ Accounted(d)'
    BY SameQueues
  <1>2. Connected(d)'
    BY DEF Inv, ActorInv, Connected
  <1>3. Budgeted(d)'
    <2>1. Armed(d)' = Armed(d) /\ Budgeted(d) /\ faults[d] \in Nat /\ outages + bad \in Nat
      BY ActorTypes DEF Armed, Inv, ActorInv
    <2> QED BY <2>1 DEF Budgeted
  <1> QED BY <1>1, <1>2, <1>3 DEF ActorInv

\* Steps that only make an actor wait, wake, connect or lose its socket.
LEMMA WaitStep ==
    ASSUME Inv, NEW d \in Downlinks,
           OpenOk(d) \/ OpenFails(d) \/ Wake(d) \/ ReceiverDown(d) \/ ReceiverUp(d)
    PROVE  Inv'
  <1> USE DEF Inv
  <1>1. mbox \in [Downlinks -> Seq(Messages)]
    BY DEF TypeOK
  <1>2. OnEvent(mbox) \in [Downlinks -> Seq(Messages)]
    BY <1>1, EventPut
  <1>3. mbox' = mbox \/ mbox' = OnEvent(mbox)
    BY DEF OpenOk, OpenFails, Wake, ReceiverDown, ReceiverUp
  <1>4. \A e \in Downlinks :
          \/ mbox'[e] = mbox[e]
          \/ subscribed[e] /\ mbox'[e] = Append(mbox[e], Log)
    BY <1>1, <1>3, EventPut DEF TypeOK
  <1>5. /\ UNCHANGED <<published, got, missed, lost, faults, bad>>
        /\ outages' = outages \/ outages' = outages + 1
        /\ started' = started
    BY DEF OpenOk, OpenFails, Wake, ReceiverDown, ReceiverUp, history
  <1>6. sending' = sending
    <2>1. CASE OpenFails(d)
      <3>1. sending[d] = None
        BY <2>1 DEF OpenFails, ActorInv, Connected
      <3> QED BY <2>1, <3>1 DEF OpenFails, Restart, TypeOK
    <2> QED BY <2>1 DEF OpenOk, Wake, ReceiverDown, ReceiverUp
  <1>7. TypeOK'
    <2>1. /\ receiver' \in [Downlinks -> BOOLEAN]
          /\ wait' \in [Downlinks -> SUBSET {"open", "sleep"}]
          /\ sender' \in [Downlinks -> {"none", "good", "stale"}]
          /\ subscribed' \in [Downlinks -> BOOLEAN]
      <3> USE DEF TypeOK
      <3>1. CASE OpenOk(d)
        BY <3>1 DEF OpenOk
      <3>2. CASE OpenFails(d)
        BY <3>2 DEF OpenFails, Restart
      <3>3. CASE Wake(d)
        BY <3>3 DEF Wake
      <3>4. CASE ReceiverDown(d)
        BY <3>4 DEF ReceiverDown
      <3>5. CASE ReceiverUp(d)
        BY <3>5 DEF ReceiverUp
      <3> QED BY <3>1, <3>2, <3>3, <3>4, <3>5
    <2>2. mbox' \in [Downlinks -> Seq(Messages)]
      BY <1>1, <1>2, <1>3
    <2>3. outages' \in Nat
      BY <1>5 DEF TypeOK
    <2> QED BY <1>5, <1>6, <2>1, <2>2, <2>3 DEF TypeOK
  <1>8. \A e \in Downlinks : e # d =>
          subscribed'[e] = subscribed[e] /\ sender'[e] = sender[e] /\ wait'[e] = wait[e]
    BY DEF OpenOk, OpenFails, Restart, Wake, ReceiverDown, ReceiverUp, TypeOK
  <1>9. outages' + bad' >= outages + bad /\ outages' + bad' \in Nat
        /\ outages \in Nat /\ bad \in Nat
    BY <1>5 DEF TypeOK
  <1>10. ASSUME NEW e \in Downlinks, e # d PROVE ActorInv(e)'
    BY <1>4, <1>5, <1>6, <1>8, <1>9, <1>10, Untouched
  <1>11. ActorInv(d)'
    <2>1. PacketsInOrder(d)' /\ Accounted(d)'
      BY <1>4, <1>5, <1>6, SameQueues
    <2>2. \/ subscribed' = [subscribed EXCEPT ![d] = TRUE] /\ sender'[d] = "good"
          \/ subscribed' = subscribed /\ (sender[d] # "none" => sender'[d] # "none")
      BY DEF OpenOk, OpenFails, Wake, ReceiverDown, ReceiverUp, TypeOK
    <2>3. sending[d] # None => wait'[d] = {}
      BY DEF OpenOk, OpenFails, Wake, ReceiverDown, ReceiverUp, TypeOK, ActorInv, Connected
    <2>4. subscribed'[d] => sender'[d] # "none"
      BY <2>2 DEF ActorInv, Connected, TypeOK
    <2>5. ~subscribed'[d] => mbox'[d] = <<>> /\ sending'[d] = None /\ got'[d] = <<>>
      BY <1>4, <1>5, <1>6, <2>2 DEF ActorInv, Connected, TypeOK
    <2>6. Connected(d)'
      BY <1>6, <2>3, <2>4, <2>5 DEF Connected
    <2>7. Budgeted(d)'
      <3>1. faults[d] \in Nat /\ Budgeted(d) /\ faults' = faults
        BY <1>5, ActorTypes DEF ActorInv
      <3>2. CASE ReceiverDown(d)
        <4>1. outages' = outages + 1 /\ bad' = bad
          BY <3>2 DEF ReceiverDown
        <4> QED BY <1>9, <3>1, <4>1 DEF Budgeted
      <3>3. CASE ~ReceiverDown(d)
        <4>1. Armed(d)' => Armed(d)
          BY <3>3 DEF Armed, OpenOk, OpenFails, Restart, Wake, ReceiverUp, TypeOK
        <4> QED BY <1>9, <3>1, <4>1 DEF Budgeted
      <3> QED BY <3>2, <3>3
    <2> QED BY <2>1, <2>6, <2>7 DEF ActorInv
  <1> QED BY <1>7, <1>10, <1>11

\* A message is taken from the mailbox to be sent.
LEMMA GenHandleStep == ASSUME Inv, NEW d \in Downlinks, GenHandle(d) PROVE Inv'
  <1> USE DEF Inv
  <1> DEFINE m == Head(mbox[d])
             t == Tail(mbox[d])
  <1>1. /\ mbox[d] # <<>> /\ sending[d] = None /\ wait[d] = {}
        /\ sending' = [sending EXCEPT ![d] = m] /\ mbox' = [mbox EXCEPT ![d] = t]
        /\ UNCHANGED <<started, receiver, wait, sender, subscribed, history>>
    BY DEF GenHandle, Polled
  <1>2. /\ PacketsInOrder(d) /\ Accounted(d) /\ Connected(d) /\ Budgeted(d)
        /\ mbox[d] \in Seq(Messages)
    BY ActorTypes DEF ActorInv
  <1>3. /\ m \in Messages /\ t \in Seq(Messages)
        /\ Packets(mbox[d]) = ({m} \ {Log}) \cup Packets(t)
        /\ InOrder(t) /\ (m # Log => Before({m}, Packets(t)))
    BY <1>1, <1>2, MessageTake DEF PacketsInOrder
  <1> HIDE DEF m, t
  <1>4. m # None
    BY <1>3, NamesAssumption DEF Messages
  <1>5. /\ sending'[d] = m /\ mbox'[d] = t
        /\ \A e \in Downlinks : e # d => sending'[e] = sending[e] /\ mbox'[e] = mbox[e]
    BY <1>1 DEF TypeOK
  <1>6. InFlight(d) = {} /\ InFlight(d)' = {m} \ {Log}
    BY <1>1, <1>4, <1>5 DEF InFlight
  <1>7. TypeOK'
    <2>1. sending' \in [Downlinks -> Messages \cup {None}] /\ mbox' \in [Downlinks -> Seq(Messages)]
      BY <1>1, <1>3 DEF TypeOK
    <2> QED BY <1>1, <2>1 DEF TypeOK, history
  <1>8. PacketsInOrder(d)'
    <2>1. got' = got
      BY <1>1 DEF history
    <2>2. /\ Before(ToSet(got[d]), {m} \ {Log}) /\ Before(ToSet(got[d]), Packets(t))
          /\ Before({m} \ {Log}, Packets(t))
      BY <1>2, <1>3 DEF PacketsInOrder, Before
    <2> QED BY <1>2, <1>3, <1>5, <1>6, <2>1, <2>2 DEF PacketsInOrder
  <1>9. Accounted(d)'
    <2>1. Known(d)' = Known(d)
      BY <1>1, <1>3, <1>5, <1>6 DEF Known, history
    <2> QED BY <1>1, <1>2, <2>1 DEF Accounted, Gone, history
  <1>10. Connected(d)' /\ Budgeted(d)'
    BY <1>1, <1>2 DEF Connected, Budgeted, Armed, history
  <1>11. ASSUME NEW e \in Downlinks, e # d PROVE ActorInv(e)'
    <2>1. outages' + bad' >= outages + bad /\ outages' + bad' \in Nat
      BY <1>1 DEF TypeOK, history
    <2> QED BY <1>1, <1>5, <1>11, <2>1, Untouched DEF history
  <1> QED BY <1>7, <1>8, <1>9, <1>10, <1>11 DEF ActorInv

\* One more packet lost, one more fault.
LEMMA LossCounts ==
    ASSUME NEW n \in Nat, NEW L \in SUBSET (1..n), NEW M, NEW k \in Nat,
           Cardinality(L) <= k, M = L \/ \E p : M = L \cup {p}
    PROVE  Cardinality(M) <= k + 1
  <1>1. IsFiniteSet(L) /\ Cardinality(L) \in Nat
    <2>1. IsFiniteSet(1..n)
      BY FS_Interval
    <2>2. IsFiniteSet(L)
      BY <2>1, FS_Subset
    <2> QED BY <2>2, FS_CardinalityType
  <1>2. CASE M = L
    BY <1>1, <1>2
  <1>3. ASSUME NEW p, M = L \cup {p} PROVE Cardinality(M) <= k + 1
    BY <1>1, <1>3, FS_AddElement
  <1> QED BY <1>2, <1>3

\* The receiver gets a message.
LEMMA SendOkStep == ASSUME Inv, NEW d \in Downlinks, SendOk(d) PROVE Inv'
  <1> USE DEF Inv
  <1> DEFINE m == sending[d]
  <1>1. /\ m # None /\ sending' = [sending EXCEPT ![d] = None]
        /\ got' = [got EXCEPT ![d] = IF m = Log THEN got[d] ELSE Append(got[d], m)]
        /\ UNCHANGED <<started, receiver, wait, sender, subscribed, mbox, published,
                       missed, lost, faults, outages, bad>>
    BY DEF SendOk
  <1>2. /\ PacketsInOrder(d) /\ Accounted(d) /\ Connected(d) /\ Budgeted(d)
        /\ got[d] \in Seq(Nat) /\ m \in Messages
    BY <1>1, ActorTypes DEF ActorInv
  <1>3. InFlight(d) = {m} \ {Log} /\ (m # Log => m \in Nat)
    BY <1>1, <1>2 DEF InFlight, Messages
  <1> HIDE DEF m
  <1>4. /\ sending'[d] = None /\ got'[d] = IF m = Log THEN got[d] ELSE Append(got[d], m)
        /\ \A e \in Downlinks : e # d => sending'[e] = sending[e] /\ got'[e] = got[e]
    BY <1>1 DEF TypeOK
  <1>5. InFlight(d)' = {}
    BY <1>4 DEF InFlight
  <1>6. got'[d] \in Seq(Nat) /\ ToSet(got'[d]) = ToSet(got[d]) \cup InFlight(d)
    BY <1>2, <1>3, <1>4, HoldsPut
  <1>7. TypeOK'
    <2>1. sending' \in [Downlinks -> Messages \cup {None}]
      BY <1>1 DEF TypeOK
    <2>2. got' \in [Downlinks -> Seq(Nat)]
      BY <1>1, <1>4, <1>6 DEF TypeOK
    <2> QED BY <1>1, <2>1, <2>2 DEF TypeOK
  <1>8. PacketsInOrder(d)'
    <2>1. Ordered(got'[d])
      BY <1>2, <1>3, <1>4, OrderedPut DEF PacketsInOrder
    <2> QED BY <1>1, <1>2, <1>5, <1>6, <2>1 DEF PacketsInOrder, Before
  <1>9. Accounted(d)'
    <2>1. Known(d)' = Known(d)
      BY <1>1, <1>5, <1>6 DEF Known
    <2> QED BY <1>1, <1>2, <2>1 DEF Accounted, Gone
  <1>10. Connected(d)' /\ Budgeted(d)'
    BY <1>1, <1>2, <1>4 DEF Connected, Budgeted, Armed, m
  <1>11. ASSUME NEW e \in Downlinks, e # d PROVE ActorInv(e)'
    <2>1. outages' + bad' >= outages + bad /\ outages' + bad' \in Nat
      BY <1>1 DEF TypeOK
    <2> QED BY <1>1, <1>4, <1>11, <2>1, Untouched
  <1> QED BY <1>7, <1>8, <1>9, <1>10, <1>11 DEF ActorInv

\* A message cannot be serialised, and is dropped.
LEMMA GenHandleFailsStep == ASSUME Inv, NEW d \in Downlinks, GenHandleFails(d) PROVE Inv'
  <1> USE DEF Inv
  <1> DEFINE m == Head(mbox[d])
             t == Tail(mbox[d])
             boxes == [mbox EXCEPT ![d] = t]
  <1>1. /\ mbox[d] # <<>> /\ sending[d] = None
        /\ mbox' = OnEvent(boxes) /\ bad' = bad + 1
        /\ lost' = [lost EXCEPT ![d] = IF m = Log THEN lost[d] ELSE lost[d] \cup {m}]
        /\ faults' = [faults EXCEPT ![d] = faults[d] + 1]
        /\ UNCHANGED <<started, receiver, wait, sender, subscribed, sending, published, got,
                       missed, outages>>
    BY DEF GenHandleFails, Polled, LosePacket
  <1>2. /\ PacketsInOrder(d) /\ Accounted(d) /\ Connected(d) /\ Budgeted(d)
        /\ mbox[d] \in Seq(Messages) /\ faults[d] \in Nat
        /\ lost[d] \subseteq 1..published /\ published \in Nat
        /\ ToSet(got[d]) \subseteq Nat /\ outages \in Nat /\ bad \in Nat
    BY ActorTypes DEF ActorInv
  <1>3. /\ m \in Messages /\ t \in Seq(Messages)
        /\ Packets(mbox[d]) = ({m} \ {Log}) \cup Packets(t)
        /\ InOrder(t) /\ (m # Log => Before({m}, Packets(t)))
    BY <1>1, <1>2, MessageTake DEF PacketsInOrder
  <1>4. /\ boxes \in [Downlinks -> Seq(Messages)] /\ boxes[d] = t
        /\ \A e \in Downlinks : e # d => boxes[e] = mbox[e]
    BY <1>3 DEF TypeOK
  <1> HIDE DEF m, t, boxes
  <1>5. /\ mbox' \in [Downlinks -> Seq(Messages)]
        /\ mbox'[d] = t \/ mbox'[d] = Append(t, Log)
        /\ \A e \in Downlinks : e # d =>
             mbox'[e] = mbox[e] \/ (subscribed[e] /\ mbox'[e] = Append(mbox[e], Log))
    BY <1>1, <1>4, EventPut DEF TypeOK
  <1>6. Packets(mbox'[d]) = Packets(t) /\ InOrder(mbox'[d])
    BY <1>3, <1>5, LogPut
  <1>7. /\ lost'[d] = lost[d] \cup ({m} \ {Log}) /\ faults'[d] = faults[d] + 1
        /\ \A e \in Downlinks : e # d => lost'[e] = lost[e] /\ faults'[e] = faults[e]
    BY <1>1 DEF TypeOK
  <1>8. InFlight(d) = {} /\ InFlight(d)' = {}
    BY <1>1 DEF InFlight
  <1>9. PacketsInOrder(d)'
    BY <1>1, <1>2, <1>3, <1>6, <1>8 DEF PacketsInOrder, Before
  <1>10. Accounted(d)'
    <2>1. ({m} \ {Log}) \cap (ToSet(got[d]) \cup Packets(t)) = {}
      <3>1. Before(ToSet(got[d]), {m} \ {Log})
        BY <1>2, <1>3 DEF PacketsInOrder, Before
      <3>2. Packets(t) \subseteq Nat
        BY <1>3, HoldsElements DEF Packets, Messages
      <3> QED BY <1>2, <1>3, <3>1, <3>2 DEF Before
    <2>2. /\ Known(d) = ({m} \ {Log}) \cup Known(d)' /\ Gone(d)' = ({m} \ {Log}) \cup Gone(d)
          /\ Known(d)' = ToSet(got[d]) \cup Packets(t)
      BY <1>1, <1>3, <1>6, <1>7, <1>8 DEF Known, Gone
    <2>3. Known(d)' \cup Gone(d)' = 1..published' /\ Known(d)' \cap Gone(d)' = {}
      BY <1>1, <1>2, <2>1, <2>2 DEF Accounted
    <2>4. Cardinality(lost'[d]) <= faults'[d]
      <3>1. lost[d] \in SUBSET (1..published) /\ Cardinality(lost[d]) <= faults[d]
        BY <1>2 DEF Accounted
      <3>2. lost'[d] = lost[d] \/ \E p : lost'[d] = lost[d] \cup {p}
        BY <1>7
      <3>3. Cardinality(lost'[d]) <= faults[d] + 1
        BY <1>2, <3>1, <3>2, LossCounts
      <3> QED BY <1>7, <3>3
    <2> QED BY <2>3, <2>4 DEF Accounted
  <1>11. TypeOK'
    <2>1. lost'[d] \subseteq 1..published'
      BY <1>10 DEF Accounted, Gone
    <2>2. lost' \in [Downlinks -> SUBSET (1..published')] /\ faults' \in [Downlinks -> Nat]
      BY <1>1, <1>2, <1>7, <2>1 DEF TypeOK
    <2> QED BY <1>1, <1>2, <1>5, <2>2 DEF TypeOK
  <1>12. Connected(d)' /\ Budgeted(d)'
    <2>1. Armed(d)' = Armed(d)
      BY <1>1 DEF Armed
    <2>2. Budgeted(d)'
      BY <1>1, <1>2, <1>7, <2>1 DEF Budgeted
    <2>3. Connected(d)'
      BY <1>1, <1>2 DEF Connected
    <2> QED BY <2>2, <2>3
  <1>13. ASSUME NEW e \in Downlinks, e # d PROVE ActorInv(e)'
    <2>1. outages' + bad' >= outages + bad /\ outages' + bad' \in Nat
      BY <1>1, <1>2
    <2> QED BY <1>1, <1>5, <1>7, <1>13, <2>1, Untouched
  <1> QED BY <1>9, <1>10, <1>11, <1>12, <1>13 DEF ActorInv

\* A send fails: the message in flight is lost, the mailbox stays.
LEMMA SendFailsStep == ASSUME Inv, NEW d \in Downlinks, SendFails(d) PROVE Inv'
  <1> USE DEF Inv
  <1> DEFINE m == sending[d]
  <1>1. /\ m # None /\ sender[d] = "stale"
        /\ mbox' = OnEvent(mbox)
        /\ lost' = [lost EXCEPT ![d] = IF m = Log THEN lost[d] ELSE lost[d] \cup {m}]
        /\ faults' = [faults EXCEPT ![d] = faults[d] + 1]
        /\ wait' = [wait EXCEPT ![d] = {"open", "sleep"}]
        /\ sending' = [sending EXCEPT ![d] = None]
        /\ UNCHANGED <<started, receiver, sender, subscribed, published, got, missed, outages, bad>>
    BY DEF SendFails, LosePacket, Restart
  <1>2. /\ PacketsInOrder(d) /\ Accounted(d) /\ Connected(d) /\ Budgeted(d)
        /\ mbox[d] \in Seq(Messages) /\ faults[d] \in Nat /\ m \in Messages
        /\ lost[d] \subseteq 1..published /\ published \in Nat
        /\ ToSet(got[d]) \subseteq Nat /\ Packets(mbox[d]) \subseteq Nat
        /\ outages \in Nat /\ bad \in Nat
    BY <1>1, ActorTypes DEF ActorInv
  <1>3. /\ InFlight(d) = {m} \ {Log} /\ {m} \ {Log} \subseteq Nat
        /\ wait[d] = {} /\ subscribed[d] = TRUE
    BY <1>1, <1>2 DEF InFlight, Messages, Connected, TypeOK
  <1> HIDE DEF m
  <1>4. /\ mbox' \in [Downlinks -> Seq(Messages)]
        /\ \A e \in Downlinks :
             mbox'[e] = mbox[e] \/ (subscribed[e] /\ mbox'[e] = Append(mbox[e], Log))
    BY <1>1, EventPut DEF TypeOK
  <1>5. Packets(mbox'[d]) = Packets(mbox[d]) /\ InOrder(mbox'[d])
    BY <1>2, <1>4, LogPut DEF PacketsInOrder
  <1>6. /\ lost'[d] = lost[d] \cup ({m} \ {Log}) /\ faults'[d] = faults[d] + 1
        /\ wait'[d] = {"open", "sleep"} /\ sending'[d] = None
        /\ \A e \in Downlinks : e # d =>
             /\ lost'[e] = lost[e] /\ faults'[e] = faults[e]
             /\ wait'[e] = wait[e] /\ sending'[e] = sending[e]
    BY <1>1 DEF TypeOK
  <1>7. InFlight(d)' = {}
    BY <1>6 DEF InFlight
  <1>8. PacketsInOrder(d)'
    BY <1>1, <1>2, <1>5, <1>7 DEF PacketsInOrder, Before
  <1>9. Accounted(d)'
    <2>1. ({m} \ {Log}) \cap (ToSet(got[d]) \cup Packets(mbox[d])) = {}
      BY <1>2, <1>3 DEF PacketsInOrder, Before
    <2>2. /\ Known(d) = ({m} \ {Log}) \cup Known(d)' /\ Gone(d)' = ({m} \ {Log}) \cup Gone(d)
          /\ Known(d)' = ToSet(got[d]) \cup Packets(mbox[d])
      BY <1>1, <1>3, <1>5, <1>6, <1>7 DEF Known, Gone
    <2>3. Known(d)' \cup Gone(d)' = 1..published' /\ Known(d)' \cap Gone(d)' = {}
      BY <1>1, <1>2, <2>1, <2>2 DEF Accounted
    <2>4. Cardinality(lost'[d]) <= faults'[d]
      <3>1. lost[d] \in SUBSET (1..published) /\ Cardinality(lost[d]) <= faults[d]
        BY <1>2 DEF Accounted
      <3>2. lost'[d] = lost[d] \/ \E p : lost'[d] = lost[d] \cup {p}
        BY <1>6
      <3>3. Cardinality(lost'[d]) <= faults[d] + 1
        BY <1>2, <3>1, <3>2, LossCounts
      <3> QED BY <1>6, <3>3
    <2> QED BY <2>3, <2>4 DEF Accounted
  <1>10. TypeOK'
    <2>1. lost'[d] \subseteq 1..published'
      BY <1>9 DEF Accounted, Gone
    <2>2. lost' \in [Downlinks -> SUBSET (1..published')] /\ faults' \in [Downlinks -> Nat]
      BY <1>1, <1>2, <1>6, <2>1 DEF TypeOK
    <2>3. /\ wait' \in [Downlinks -> SUBSET {"open", "sleep"}]
          /\ sending' \in [Downlinks -> Messages \cup {None}]
      BY <1>1 DEF TypeOK
    <2> QED BY <1>1, <1>4, <2>2, <2>3 DEF TypeOK
  <1>11. Connected(d)' /\ Budgeted(d)'
    <2>1. Armed(d) /\ ~Armed(d)'
      BY <1>1, <1>3, <1>6 DEF Armed
    <2>2. Budgeted(d)'
      BY <1>1, <1>2, <1>6, <2>1 DEF Budgeted
    <2>3. Connected(d)'
      BY <1>1, <1>2, <1>3, <1>6 DEF Connected
    <2> QED BY <2>2, <2>3
  <1>12. ASSUME NEW e \in Downlinks, e # d PROVE ActorInv(e)'
    <2>1. outages' + bad' >= outages + bad /\ outages' + bad' \in Nat
      BY <1>1, <1>2
    <2> QED BY <1>1, <1>4, <1>6, <1>12, <2>1, Untouched
  <1> QED BY <1>8, <1>9, <1>10, <1>11, <1>12 DEF ActorInv

\* A packet is published: subscribed actors queue it, others miss it.
LEMMA PublishStep == ASSUME Inv, Publish PROVE Inv'
  <1> USE DEF Inv
  <1> DEFINE p == published + 1
  <1>1. /\ p \in Nat /\ published \in Nat /\ published' = p
        /\ 1..p = (1..published) \cup {p} /\ p \notin 1..published
        /\ UNCHANGED <<started, receiver, wait, sender, subscribed, sending, got,
                       lost, faults, outages, bad>>
    BY DEF Publish, TypeOK
  <1>2. ASSUME NEW d \in Downlinks
        PROVE  /\ mbox'[d] = IF subscribed[d] THEN Append(mbox[d], p) ELSE mbox[d]
               /\ missed'[d] = IF subscribed[d] THEN missed[d] ELSE p
    BY <1>1 DEF Publish, TypeOK
  <1>3. ASSUME NEW d \in Downlinks
        PROVE  /\ ToSet(got[d]) \subseteq 1..published /\ InFlight(d) \subseteq 1..published
               /\ Packets(mbox[d]) \subseteq 1..published /\ Gone(d) \subseteq 1..published
    BY DEF ActorInv, Accounted, Known
  <1> HIDE DEF p
  <1>4. ASSUME NEW d \in Downlinks
        PROVE  /\ Before(ToSet(got[d]), {p}) /\ Before(InFlight(d), {p})
               /\ Before(Packets(mbox[d]), {p})
    BY <1>1, <1>3 DEF Before, p
  <1>5. ASSUME NEW d \in Downlinks PROVE ActorInv(d)' /\ mbox'[d] \in Seq(Messages)
    <2>1. /\ PacketsInOrder(d) /\ Accounted(d) /\ Connected(d) /\ Budgeted(d)
          /\ mbox[d] \in Seq(Messages) /\ missed[d] \in 0..published
      BY ActorTypes DEF ActorInv
    <2>2. InFlight(d)' = InFlight(d) /\ got'[d] = got[d] /\ lost'[d] = lost[d]
      BY <1>1 DEF InFlight
    <2>3. Connected(d)' /\ Budgeted(d)'
      BY <1>1, <1>2, <2>1 DEF Connected, Budgeted, Armed
    <2>4. CASE subscribed[d]
      <3>1. /\ mbox'[d] \in Seq(Messages) /\ InOrder(mbox'[d])
            /\ Packets(mbox'[d]) = Packets(mbox[d]) \cup {p}
        BY <1>1, <1>2, <1>4, <2>1, <2>4, PacketPut DEF PacketsInOrder
      <3>2. PacketsInOrder(d)'
        BY <1>4, <2>1, <2>2, <3>1 DEF PacketsInOrder, Before
      <3>3. Known(d)' = Known(d) \cup {p} /\ Gone(d)' = Gone(d)
        BY <1>2, <2>2, <2>4, <3>1 DEF Known, Gone
      <3>4. Accounted(d)'
        BY <1>1, <1>3, <2>1, <2>2, <3>3 DEF Accounted
      <3> QED BY <2>3, <3>1, <3>2, <3>4 DEF ActorInv
    <2>5. CASE ~subscribed[d]
      <3>1. mbox'[d] = mbox[d] /\ Packets(mbox[d]) = {} /\ InFlight(d) = {} /\ ToSet(got[d]) = {}
        BY <1>2, <2>1, <2>5, HoldsNone DEF Connected, Packets, InFlight
      <3>2. PacketsInOrder(d)'
        BY <2>1, <2>2, <3>1 DEF PacketsInOrder
      <3>3. Known(d)' = {} /\ Gone(d)' = 1..p
        <4>1. lost[d] \subseteq 1..p
          BY <1>1, <1>3 DEF Gone
        <4> QED BY <1>2, <2>2, <2>5, <3>1, <4>1 DEF Known, Gone
      <3>4. Accounted(d)'
        BY <1>1, <2>1, <2>2, <3>3 DEF Accounted
      <3> QED BY <2>1, <2>3, <3>1, <3>2, <3>4 DEF ActorInv
    <2> QED BY <2>4, <2>5, <1>1 DEF TypeOK
  <1>6. TypeOK'
    <2>1. DOMAIN mbox' = Downlinks /\ mbox' = [d \in Downlinks |-> mbox'[d]]
      BY DEF Publish
    <2>2. mbox' \in [Downlinks -> Seq(Messages)]
      BY <1>5, <2>1
    <2>3. missed' = [d \in Downlinks |-> IF subscribed[d] THEN missed[d] ELSE p]
      BY <1>1 DEF Publish
    <2>4. missed' \in [Downlinks -> 0..p]
      <3>1. p \in 0..p /\ \A x \in 0..published : x \in 0..p
        BY <1>1 DEF p
      <3> QED BY <2>3, <3>1 DEF TypeOK
    <2>5. lost' \in [Downlinks -> SUBSET (1..p)]
      BY <1>1 DEF TypeOK
    <2> QED BY <1>1, <2>2, <2>4, <2>5 DEF TypeOK
  <1> QED BY <1>5, <1>6

LEMMA InvStep == Inv /\ [Next]_vars => Inv'
  <1> SUFFICES ASSUME Inv, [Next]_vars PROVE Inv'
    OBVIOUS
  <1>1. CASE ConnectOnce \/ Idle \/ UNCHANGED vars
    <2>1. /\ UNCHANGED <<receiver, wait, sender, subscribed, mbox, sending, history>>
          /\ started' \in BOOLEAN
      BY <1>1 DEF ConnectOnce, Idle, vars, Inv, TypeOK
    <2>2. TypeOK'
      BY <2>1 DEF Inv, TypeOK, history
    <2>3. ASSUME NEW d \in Downlinks PROVE ActorInv(d)'
      BY <2>1 DEF Inv, ActorInv, PacketsInOrder, Accounted, Connected, Budgeted, Armed,
                  Known, Gone, InFlight, history
    <2> QED BY <2>2, <2>3 DEF Inv
  <1>2. ASSUME NEW d \in Downlinks, Actor(d) \/ ReceiverUp(d) \/ ReceiverDown(d) PROVE Inv'
    BY <1>2, WaitStep, GenHandleStep, GenHandleFailsStep, SendOkStep, SendFailsStep DEF Actor
  <1> QED BY <1>1, <1>2, PublishStep DEF Next

-----------------------------------------------------------------------------
(* The theorems.                                                            *)

\* What an actor holds is what it sends and what is in its mailbox.
LEMMA HeldIs ==
    ASSUME Inv, NEW d \in Downlinks
    PROVE  /\ Held(d) \in Seq(Messages)
           /\ Packets(Held(d)) = InFlight(d) \cup Packets(mbox[d])
           /\ InOrder(got[d] \o Held(d))
  <1> DEFINE q == mbox[d]
             g == got[d]
             h == Held(d)
  <1>1. /\ q \in Seq(Messages) /\ g \in Seq(Nat) /\ PacketsInOrder(d)
        /\ sending[d] # None => sending[d] \in Messages
    BY ActorTypes DEF Inv, ActorInv
  <1>2. /\ h \in Seq(Messages) /\ Packets(h) = InFlight(d) \cup Packets(q)
        /\ InOrder(h) /\ Before(ToSet(g), Packets(h))
    <2>1. CASE sending[d] = None
      <3>1. h = q /\ InFlight(d) = {}
        BY <2>1 DEF Held, InFlight
      <3> QED BY <1>1, <3>1 DEF PacketsInOrder
    <2>2. CASE sending[d] # None
      <3> DEFINE x == sending[d]
      <3>1. h = <<x>> \o q /\ InFlight(d) = {x} \ {Log} /\ x \in Messages
        BY <1>1, <2>2 DEF Held, InFlight
      <3> HIDE DEF x, h, q
      <3>2. <<x>> \in Seq(Messages) /\ Len(<<x>>) = 1 /\ <<x>>[1] = x
        BY <3>1
      <3>3. /\ h \in Seq(Messages) /\ Len(h) = 1 + Len(q) /\ Len(q) \in Nat
            /\ \A i \in 1..(1 + Len(q)) : h[i] = IF i <= 1 THEN x ELSE q[i - 1]
            /\ DOMAIN h = 1..(1 + Len(q)) /\ DOMAIN q = 1..Len(q)
        BY <1>1, <3>1, <3>2, ConcatProperties
      <3>4. h # <<>> /\ Head(h) = x /\ Tail(h) = q
        BY <1>1, <3>1
      <3>5. Packets(h) = ({x} \ {Log}) \cup Packets(q)
        BY <3>3, <3>4, HoldsTake DEF Packets
      <3>6. /\ InOrder(q) /\ Before({x} \ {Log}, Packets(q)) /\ Before(ToSet(g), {x} \ {Log})
            /\ Before(ToSet(g), Packets(q))
        BY <1>1, <3>1 DEF PacketsInOrder, q
      <3>7. InOrder(h)
        <4> SUFFICES ASSUME NEW i \in 1..(1 + Len(q)), NEW j \in 1..(1 + Len(q)), i < j,
                            h[i] # Log, h[j] # Log
                     PROVE  h[i] < h[j]
          BY <3>3 DEF InOrder
        <4>1. j - 1 \in 1..Len(q) /\ h[j] = q[j - 1] /\ h[j] \in Packets(q)
          BY <3>3 DEF Packets, ToSet
        <4>2. CASE i = 1
          BY <3>3, <3>6, <4>1, <4>2 DEF Before
        <4>3. CASE i # 1
          <5>1. i - 1 \in 1..Len(q) /\ h[i] = q[i - 1] /\ i - 1 < j - 1
            BY <3>3, <4>3
          <5> QED BY <3>3, <3>6, <4>1, <5>1 DEF InOrder
        <4> QED BY <4>2, <4>3
      <3>8. Before(ToSet(g), Packets(h))
        BY <3>5, <3>6 DEF Before
      <3> QED BY <3>1, <3>3, <3>5, <3>7, <3>8
    <2> QED BY <2>1, <2>2
  <1> HIDE DEF h, q
  <1>3. InOrder(g \o h)
    <2>1. g \in Seq(Messages)
      BY <1>1, SeqMonotonic DEF Messages
    <2>2. /\ DOMAIN (g \o h) = 1..(Len(g) + Len(h)) /\ Len(g) \in Nat /\ Len(h) \in Nat
          /\ \A i \in 1..(Len(g) + Len(h)) :
               (g \o h)[i] = IF i <= Len(g) THEN g[i] ELSE h[i - Len(g)]
      BY <1>2, <2>1, ConcatProperties, LenProperties
    <2>3. DOMAIN g = 1..Len(g) /\ DOMAIN h = 1..Len(h)
      BY <1>2, <2>1, LenProperties
    <2> DEFINE r == g \o h
    <2> HIDE DEF r
    <2> SUFFICES ASSUME NEW i \in 1..(Len(g) + Len(h)), NEW j \in 1..(Len(g) + Len(h)), i < j,
                        r[i] # Log, r[j] # Log
                 PROVE  r[i] < r[j]
      BY <2>2 DEF InOrder, r
    <2>4. CASE j <= Len(g)
      <3>1. i \in DOMAIN g /\ j \in DOMAIN g /\ r[i] = g[i] /\ r[j] = g[j]
        BY <2>2, <2>3, <2>4 DEF r
      <3> QED BY <1>1, <3>1 DEF PacketsInOrder, Ordered
    <2>5. CASE ~(j <= Len(g))
      <3>1. j - Len(g) \in DOMAIN h /\ r[j] = h[j - Len(g)] /\ r[j] \in Packets(h)
        <4>1. j - Len(g) \in DOMAIN h /\ r[j] = h[j - Len(g)]
          BY <2>2, <2>3, <2>5 DEF r
        <4> QED BY <4>1 DEF Packets, ToSet
      <3>2. CASE i <= Len(g)
        <4>1. r[i] \in ToSet(g)
          BY <2>2, <2>3, <3>2 DEF r, ToSet
        <4> QED BY <1>2, <3>1, <4>1 DEF Before
      <3>3. CASE ~(i <= Len(g))
        <4>1. /\ i - Len(g) \in DOMAIN h /\ r[i] = h[i - Len(g)]
              /\ i - Len(g) < j - Len(g)
          BY <2>2, <2>3, <3>3 DEF r
        <4> QED BY <1>2, <3>1, <4>1 DEF InOrder
      <3> QED BY <3>2, <3>3
    <2> QED BY <2>4, <2>5
  <1> QED BY <1>2, <1>3 DEF h, q

\* Every receiver gets the packets in the order of publication, none twice, and an
\* actor that handles a message has a socket to send it with.
THEOREM EchoIsOrdered == Spec => []EchoInv
  <1>1. Inv => EchoInv
    BY HeldIs DEF Inv, ActorInv, Connected, EchoInv, EchoesInOrder, HandlerHasSender
  <1> QED BY <1>1, InvInit, InvStep, PTL DEF Spec

\* A failed send or serialisation costs the message it was about, and nothing else
\* is lost after the actor has subscribed.
THEOREM FaultCostsOne == Spec => []OneLossPerFault
  <1>1. Inv => OneLossPerFault
    BY HeldIs DEF Inv, ActorInv, Accounted, Known, Gone, OneLossPerFault
  <1> QED BY <1>1, InvInit, InvStep, PTL DEF Spec

\* The socket of a failed send, which the actor keeps, is not used again: an
\* outage makes one send fail.
THEOREM OutageCostsOne == Spec => []OneFaultPerOutage
  <1>1. Inv => OneFaultPerOutage
    <2> SUFFICES ASSUME Inv, NEW d \in Downlinks PROVE faults[d] <= outages + bad
      BY DEF OneFaultPerOutage
    <2>1. Budgeted(d) /\ faults[d] \in Nat /\ outages \in Nat /\ bad \in Nat
      BY ActorTypes DEF Inv, ActorInv
    <2> QED BY <2>1 DEF Budgeted
  <1> QED BY <1>1, InvInit, InvStep, PTL DEF Spec

-----------------------------------------------------------------------------
(* Every actor's echo is a queue that loses only its head.                  *)

\* The queues that LossyEcho sees.
Waiting == [d \in Downlinks |-> Packets(Held(d))]

\* What is sent comes before what is in the mailbox.
LEMMA HeldPackets ==
    ASSUME NEW x \in Messages \cup {None}, NEW q \in Seq(Messages)
    PROVE  Packets(IF x = None THEN q ELSE <<x>> \o q) = ({x} \ {None, Log}) \cup Packets(q)
  <1>1. CASE x = None
    BY <1>1
  <1>2. CASE x # None
    <2> DEFINE h == <<x>> \o q
    <2>1. h \in Seq(Messages) /\ h # <<>> /\ Head(h) = x /\ Tail(h) = q
      BY <1>2
    <2> HIDE DEF h
    <2>2. ToSet(h) = {x} \cup ToSet(q)
      BY <2>1, HoldsTake
    <2> QED BY <1>2, <2>2 DEF Packets, h
  <1> QED BY <1>1, <1>2

\* In this state, and in the next.
LEMMA WaitingIs ==
    ASSUME Inv, Inv', NEW d \in Downlinks
    PROVE  /\ Waiting[d] = InFlight(d) \cup Packets(mbox[d])
           /\ Waiting'[d] = InFlight(d)' \cup Packets(mbox'[d])
  <1>1. sending[d] \in Messages \cup {None} /\ mbox[d] \in Seq(Messages)
    BY DEF Inv, TypeOK
  <1>2. sending'[d] \in Messages \cup {None} /\ mbox'[d] \in Seq(Messages)
    BY DEF Inv, TypeOK
  <1>3. Packets(Held(d)) = InFlight(d) \cup Packets(mbox[d])
    BY <1>1, HeldPackets DEF Held, InFlight
  <1>4. Packets(Held(d))' = InFlight(d)' \cup Packets(mbox'[d])
    BY <1>2, HeldPackets DEF Held, InFlight
  <1> QED BY <1>3, <1>4 DEF Waiting

\* Log messages are nothing to LossyEcho.
LEMMA WaitingStays ==
    ASSUME Inv, Inv', NEW d \in Downlinks, sending'[d] = sending[d],
           mbox'[d] = mbox[d] \/ mbox'[d] = Append(mbox[d], Log)
    PROVE  Waiting'[d] = Waiting[d]
  <1>1. mbox[d] \in Seq(Messages)
    BY DEF Inv, TypeOK
  <1>2. Packets(mbox'[d]) = Packets(mbox[d]) /\ InFlight(d)' = InFlight(d)
    BY <1>1, LogPut DEF InFlight
  <1> QED BY <1>2, WaitingIs

\* The first packet leaves one of the queues.
LEMMA FirstTaken ==
    ASSUME NEW d \in Downlinks, NEW m \in Nat, NEW Q \in SUBSET Nat, Before({m}, Q),
           Waiting[d] = {m} \cup Q, Waiting'[d] = Q,
           \A e \in Downlinks : e # d => Waiting'[e] = Waiting[e]
    PROVE  /\ m \in {p \in Waiting[d] : \A q \in Waiting[d] : p <= q}
           /\ Waiting' = [Waiting EXCEPT ![d] = @ \ {m}]
  <1>1. m \notin Q /\ \A q \in Q : m <= q
    BY DEF Before
  <1>2. m \in {p \in Waiting[d] : \A q \in Waiting[d] : p <= q}
    <2>1. m \in Waiting[d] /\ \A q \in Waiting[d] : q = m \/ q \in Q
      OBVIOUS
    <2>2. m <= m
      OBVIOUS
    <2>3. \A q \in Waiting[d] : m <= q
      BY <1>1, <2>1, <2>2, Zenon
    <2> QED BY <2>1, <2>3
  <1>3. Waiting[d] \ {m} = Q
    BY <1>1
  <1>4. /\ Waiting' = [e \in Downlinks |-> Waiting'[e]]
        /\ [Waiting EXCEPT ![d] = @ \ {m}]
             = [e \in Downlinks |-> IF e = d THEN Waiting[d] \ {m} ELSE Waiting[e]]
    BY DEF Waiting
  <1>5. [e \in Downlinks |-> Waiting'[e]]
          = [e \in Downlinks |-> IF e = d THEN Waiting[d] \ {m} ELSE Waiting[e]]
    BY <1>3
  <1> QED BY <1>2, <1>4, <1>5

\* No queue changes.
LEMMA NoneTaken ==
    ASSUME \A e \in Downlinks : Waiting'[e] = Waiting[e]
    PROVE  Waiting' = Waiting
  BY DEF Waiting

\* The log messages of a step.
LEMMA EventsAreLogs ==
    ASSUME Inv, NEW d \in Downlinks, NEW b \in Seq(Messages),
           mbox' = [mbox EXCEPT ![d] = b] \/ mbox' = OnEvent([mbox EXCEPT ![d] = b])
    PROVE  /\ Packets(mbox'[d]) = Packets(b)
           /\ \A e \in Downlinks : e # d => mbox'[e] = mbox[e] \/ mbox'[e] = Append(mbox[e], Log)
  <1> DEFINE boxes == [mbox EXCEPT ![d] = b]
  <1>1. /\ boxes \in [Downlinks -> Seq(Messages)] /\ boxes[d] = b
        /\ \A e \in Downlinks : e # d => boxes[e] = mbox[e]
    BY DEF Inv, TypeOK
  <1> HIDE DEF boxes
  <1>2. \A e \in Downlinks : mbox'[e] = boxes[e] \/ mbox'[e] = Append(boxes[e], Log)
    BY <1>1, EventPut DEF boxes
  <1>3. Packets(mbox'[d]) = Packets(b)
    BY <1>1, <1>2, LogPut
  <1> QED BY <1>1, <1>2, <1>3

\* A step is a step of the echo that LossyEcho describes, or nothing to it.
LEMMA StepEchoes ==
    ASSUME Inv, Inv', [Next]_vars
    PROVE  [Echo!Next]_(Echo!vars)
  <1> DEFINE Joined == {d \in Downlinks : subscribed[d]}
  <1>1. ASSUME UNCHANGED <<published, got, faults, subscribed>>,
               \A e \in Downlinks : Waiting'[e] = Waiting[e]
        PROVE  UNCHANGED Echo!vars
    <2>1. Waiting' = Waiting /\ Joined' = Joined
      BY <1>1, NoneTaken
    <2> QED BY <1>1, <2>1 DEF Echo!vars, Waiting
  <1>2. CASE ConnectOnce \/ Idle \/ UNCHANGED vars
    <2>1. UNCHANGED <<published, got, faults, subscribed, sending, mbox>>
      BY <1>2 DEF ConnectOnce, Idle, vars, history
    <2> QED BY <1>1, <2>1, WaitingStays
  <1>3. ASSUME NEW d \in Downlinks, Wake(d) \/ ReceiverUp(d) \/ ReceiverDown(d)
        PROVE  UNCHANGED Echo!vars
    <2>1. UNCHANGED <<published, got, faults, subscribed, sending, mbox>>
      BY <1>3 DEF Wake, ReceiverUp, ReceiverDown, history
    <2> QED BY <1>1, <2>1, WaitingStays
  <1>4. ASSUME NEW d \in Downlinks, OpenOk(d) \/ OpenFails(d)
        PROVE  Echo!Join(d) \/ UNCHANGED Echo!vars
    <2>1. /\ mbox' = OnEvent(mbox) /\ UNCHANGED <<published, got, faults>>
          /\ sending' = sending
      <3>1. OpenFails(d) => sending[d] = None
        BY DEF OpenFails, Inv, ActorInv, Connected
      <3>2. sending \in [Downlinks -> Messages \cup {None}]
        BY DEF Inv, TypeOK
      <3> QED BY <1>4, <3>1, <3>2 DEF OpenOk, OpenFails, Restart, history
    <2>2. \A e \in Downlinks : mbox'[e] = mbox[e] \/ mbox'[e] = Append(mbox[e], Log)
      BY <2>1, EventPut DEF Inv, TypeOK
    <2>3. \A e \in Downlinks : Waiting'[e] = Waiting[e]
      BY <2>1, <2>2, WaitingStays
    <2>4. CASE OpenFails(d)
      BY <1>1, <2>1, <2>3, <2>4 DEF OpenFails
    <2>5. CASE OpenOk(d)
      <3>1. Joined' = Joined \cup {d}
        BY <2>5 DEF OpenOk, Inv, TypeOK
      <3>2. Waiting' = Waiting
        BY <2>3, NoneTaken
      <3> QED BY <2>1, <3>1, <3>2 DEF Echo!Join, Waiting
    <2> QED BY <1>4, <2>4, <2>5
  <1>5. ASSUME NEW d \in Downlinks, GenHandle(d) PROVE UNCHANGED Echo!vars
    <2> DEFINE m == Head(mbox[d])  t == Tail(mbox[d])
    <2>1. mbox[d] # <<>> /\ mbox[d] \in Seq(Messages) /\ InOrder(mbox[d]) /\ sending[d] = None
      BY <1>5 DEF GenHandle, Polled, Inv, TypeOK, ActorInv, PacketsInOrder
    <2>2. /\ m \in Messages /\ t \in Seq(Messages)
          /\ Packets(mbox[d]) = ({m} \ {Log}) \cup Packets(t)
      BY <2>1, MessageTake
    <2> HIDE DEF m, t
    <2>3. /\ UNCHANGED <<published, got, faults, subscribed>>
          /\ sending' = [sending EXCEPT ![d] = m] /\ mbox' = [mbox EXCEPT ![d] = t]
      BY <1>5 DEF GenHandle, history, m, t
    <2>4. /\ sending'[d] = m /\ mbox'[d] = t
          /\ \A e \in Downlinks : e # d => sending'[e] = sending[e] /\ mbox'[e] = mbox[e]
      BY <2>3 DEF Inv, TypeOK
    <2>5. m # None
      BY <2>2, NamesAssumption DEF Messages
    <2>6. InFlight(d) = {} /\ InFlight(d)' = {m} \ {Log}
      BY <2>1, <2>4, <2>5 DEF InFlight
    <2>7. Waiting'[d] = Waiting[d]
      BY <2>2, <2>4, <2>6, WaitingIs
    <2> QED BY <1>1, <2>3, <2>4, <2>7, WaitingStays
  <1>6. ASSUME NEW d \in Downlinks, GenHandleFails(d) PROVE Echo!Fail(d)
    <2> DEFINE m == Head(mbox[d])  t == Tail(mbox[d])
    <2>1. mbox[d] # <<>> /\ mbox[d] \in Seq(Messages) /\ InOrder(mbox[d]) /\ sending[d] = None
      BY <1>6 DEF GenHandleFails, Polled, Inv, TypeOK, ActorInv, PacketsInOrder
    <2>2. /\ m \in Messages /\ t \in Seq(Messages)
          /\ Packets(mbox[d]) = ({m} \ {Log}) \cup Packets(t)
          /\ m # Log => Before({m}, Packets(t))
      BY <2>1, MessageTake
    <2> HIDE DEF m, t
    <2>3. /\ UNCHANGED <<published, got, subscribed, sending>>
          /\ faults' = [faults EXCEPT ![d] = @ + 1] /\ mbox' = OnEvent([mbox EXCEPT ![d] = t])
      BY <1>6 DEF GenHandleFails, LosePacket, t
    <2>4. /\ Packets(mbox'[d]) = Packets(t)
          /\ \A e \in Downlinks : e # d => mbox'[e] = mbox[e] \/ mbox'[e] = Append(mbox[e], Log)
      BY <2>2, <2>3, EventsAreLogs
    <2>5. \A e \in Downlinks : e # d => Waiting'[e] = Waiting[e]
      BY <2>3, <2>4, WaitingStays
    <2>6. InFlight(d) = {} /\ InFlight(d)' = {}
      BY <2>1, <2>3 DEF InFlight
    <2>7. Waiting[d] = ({m} \ {Log}) \cup Packets(t) /\ Waiting'[d] = Packets(t)
      BY <2>2, <2>4, <2>6, WaitingIs
    <2>8. \/ Waiting' = Waiting
          \/ \E p \in Echo!Oldest(d) : Waiting' = [Waiting EXCEPT ![d] = @ \ {p}]
      <3>1. CASE m = Log
        BY <2>5, <2>7, <3>1, NoneTaken
      <3>2. CASE m # Log
        <4>1. m \in Nat /\ Packets(t) \subseteq Nat
          BY <2>2, <3>2, HoldsElements DEF Messages, Packets
        <4>2. Waiting[d] = {m} \cup Packets(t)
          BY <2>7, <3>2
        <4>3. /\ m \in {p \in Waiting[d] : \A q \in Waiting[d] : p <= q}
              /\ Waiting' = [Waiting EXCEPT ![d] = @ \ {m}]
          BY <2>2, <2>5, <2>7, <3>2, <4>1, <4>2, FirstTaken
        <4> QED BY <4>3 DEF Echo!Oldest, Waiting
      <3> QED BY <3>1, <3>2
    <2>9. Joined' = Joined
      BY <2>3
    <2> QED BY <2>3, <2>8, <2>9 DEF Echo!Fail, Waiting
  <1>7. ASSUME NEW d \in Downlinks, SendOk(d) \/ SendFails(d)
        PROVE  /\ sending[d] \in Messages /\ Joined' = Joined /\ published' = published
               /\ sending[d] = Log => Waiting' = Waiting
               /\ sending[d] # Log =>
                    /\ sending[d] \in Echo!Oldest(d)
                    /\ Waiting' = [Waiting EXCEPT ![d] = @ \ {sending[d]}]
    <2> DEFINE m == sending[d]  Q == Packets(mbox[d])
    <2>1. /\ m # None /\ m \in Messages /\ mbox[d] \in Seq(Messages)
          /\ Before(InFlight(d), Q) /\ Q \subseteq Nat
      BY <1>7, ActorTypes DEF SendOk, SendFails, Inv, ActorInv, PacketsInOrder
    <2>2. /\ UNCHANGED <<published, subscribed>> /\ sending' = [sending EXCEPT ![d] = None]
          /\ mbox' = mbox \/ mbox' = OnEvent(mbox)
      BY <1>7 DEF SendOk, SendFails, Restart
    <2>3. /\ sending'[d] = None /\ \A e \in Downlinks : e # d => sending'[e] = sending[e]
          /\ \A e \in Downlinks : mbox'[e] = mbox[e] \/ mbox'[e] = Append(mbox[e], Log)
      BY <2>2, EventPut DEF Inv, TypeOK
    <2>4. \A e \in Downlinks : e # d => Waiting'[e] = Waiting[e]
      BY <2>3, WaitingStays
    <2>5. Packets(mbox'[d]) = Q
      BY <2>1, <2>3, LogPut
    <2>6. InFlight(d) = {m} \ {Log} /\ InFlight(d)' = {}
      BY <2>1, <2>3 DEF InFlight
    <2>7. Waiting[d] = ({m} \ {Log}) \cup Q /\ Waiting'[d] = Q
      BY <2>5, <2>6, WaitingIs
    <2>8. ASSUME m = Log PROVE Waiting' = Waiting
      BY <2>4, <2>7, <2>8, NoneTaken
    <2>9. ASSUME m # Log
          PROVE  m \in Echo!Oldest(d) /\ Waiting' = [Waiting EXCEPT ![d] = @ \ {m}]
      <3> HIDE DEF m, Q
      <3>1. m \in Nat /\ Before({m}, Q) /\ Waiting[d] = {m} \cup Q
        BY <2>1, <2>6, <2>7, <2>9 DEF Messages
      <3>2. /\ m \in {p \in Waiting[d] : \A q \in Waiting[d] : p <= q}
            /\ Waiting' = [Waiting EXCEPT ![d] = @ \ {m}]
        BY <2>1, <2>4, <2>7, <3>1, FirstTaken
      <3> QED BY <3>2 DEF Echo!Oldest, Waiting
    <2>10. Joined' = Joined
      BY <2>2
    <2> QED BY <2>1, <2>2, <2>8, <2>9, <2>10
  <1> HIDE DEF Joined
  <1>8. ASSUME NEW d \in Downlinks, SendOk(d) PROVE Echo!Deliver(d) \/ UNCHANGED Echo!vars
    <2>1. /\ got' = [got EXCEPT ![d] = IF sending[d] = Log THEN @ ELSE Append(@, sending[d])]
          /\ faults' = faults
      BY <1>8 DEF SendOk
    <2>2. CASE sending[d] = Log
      <3>1. got' = got
        BY <2>1, <2>2 DEF Inv, TypeOK
      <3> QED BY <1>7, <1>8, <2>1, <2>2, <3>1 DEF Echo!vars, Waiting, Joined
    <2>3. CASE sending[d] # Log
      <3>1. got' = [got EXCEPT ![d] = Append(@, sending[d])]
        BY <2>1, <2>3
      <3> QED BY <1>7, <1>8, <2>1, <2>3, <3>1 DEF Echo!Deliver, Waiting, Joined
    <2> QED BY <2>2, <2>3
  <1>9. ASSUME NEW d \in Downlinks, SendFails(d) PROVE Echo!Fail(d)
    <2>1. got' = got /\ faults' = [faults EXCEPT ![d] = @ + 1]
      BY <1>9 DEF SendFails, LosePacket
    <2> QED BY <1>7, <1>9, <2>1 DEF Echo!Fail, Waiting, Joined
  <1>10. ASSUME Publish PROVE Echo!Offer
    <2> DEFINE p == published + 1
    <2>1. /\ published' = p /\ UNCHANGED <<got, faults, subscribed, sending>>
          /\ mbox' = [d \in Downlinks |-> IF subscribed[d] THEN Append(mbox[d], p) ELSE mbox[d]]
      BY <1>10 DEF Publish
    <2>2. p \in Messages /\ p # Log
      BY NamesAssumption DEF Inv, TypeOK, Messages
    <2> HIDE DEF p
    <2>3. ASSUME NEW d \in Downlinks
          PROVE  Waiting'[d] = IF subscribed[d] THEN Waiting[d] \cup {p} ELSE Waiting[d]
      <3>1. mbox[d] \in Seq(Messages) /\ InFlight(d)' = InFlight(d)
        BY <2>1 DEF Inv, TypeOK, InFlight
      <3>2. Packets(Append(mbox[d], p)) = Packets(mbox[d]) \cup {p}
        BY <2>2, <3>1, HoldsPut DEF Packets
      <3> QED BY <2>1, <3>1, <3>2, WaitingIs
    <2>4. Waiting' = [d \in Downlinks |-> IF d \in Joined THEN Waiting[d] \cup {p} ELSE Waiting[d]]
      <3>1. Waiting' = [d \in Downlinks |-> Waiting'[d]]
        BY DEF Waiting
      <3>2. [d \in Downlinks |-> Waiting'[d]]
              = [d \in Downlinks |-> IF d \in Joined THEN Waiting[d] \cup {p} ELSE Waiting[d]]
        BY <2>3 DEF Joined
      <3> QED BY <3>1, <3>2
    <2>5. Joined' = Joined
      BY <2>1 DEF Joined
    <2> QED BY <2>1, <2>4, <2>5 DEF Echo!Offer, Waiting, Joined, p
  <1>11. ASSUME NEW d \in Downlinks, Actor(d) \/ ReceiverUp(d) \/ ReceiverDown(d)
         PROVE  [Echo!Next]_(Echo!vars)
    BY <1>3, <1>4, <1>5, <1>6, <1>8, <1>9, <1>11 DEF Actor, Echo!Next
  <1>12. Publish => Echo!Next
    BY <1>10 DEF Echo!Next
  <1> QED BY <1>2, <1>11, <1>12 DEF Next

\* The downlinks do what the echo promises: each receiver gets what was published since
\* its actor subscribed, in that order, but for the packet at the head of its queue
\* when something fails.
THEOREM EchoIsImplemented == Spec => ImplementsEcho
  <1>1. Init => Echo!Init
    <2> SUFFICES ASSUME Init PROVE Echo!Init
      OBVIOUS
    <2>1. \A d \in Downlinks : Held(d) = <<>>
      BY DEF Init, Held
    <2>2. Packets(<<>>) = {}
      BY HoldsNone DEF Packets
    <2>3. [d \in Downlinks |-> Packets(Held(d))] = [d \in Downlinks |-> {}]
      BY <2>1, <2>2
    <2> QED BY <2>3 DEF Init, Echo!Init
  <1>2. Inv /\ Inv' /\ [Next]_vars => [Echo!Next]_(Echo!vars)
    BY StepEchoes
  <1> QED BY <1>1, <1>2, InvInit, InvStep, PTL DEF Spec, ImplementsEcho, Echo!Spec

=============================================================================
