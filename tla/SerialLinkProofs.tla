-------------------------- MODULE SerialLinkProofs --------------------------
(***************************************************************************)
(* Proofs about SerialLink and the RawIO below it, for any number of       *)
(* packets, frames and failures of the device: packets are never forgotten *)
(* or sent twice, a running actor is connected, what comes back is what    *)
(* the peer sent, and the port implements the lossy queue of LossyFifo.    *)
(***************************************************************************)
EXTENDS SerialLink, Integers, SequencesExt, SequenceTheorems, TLAPS

-----------------------------------------------------------------------------
(* Sequences as queues and as histories: what they hold, and its order.     *)

\* Numbers that only grow.
Ordered(s) == \A i, j \in DOMAIN s : i < j => s[i] < s[j]

\* All numbers of one set are smaller than those of another.
Before(A, B) == \A a \in A, b \in B : a < b

LEMMA HoldsNone == ToSet(<<>>) = {}
  BY DEF ToSet

LEMMA HoldsElements ==
    ASSUME NEW S, NEW s \in Seq(S)
    PROVE  /\ ToSet(s) \subseteq S
           /\ ToSet(s) = {s[i] : i \in 1..Len(s)}
           /\ \A i \in DOMAIN s : s[i] \in ToSet(s)
           /\ \A x \in ToSet(s) : \E i \in DOMAIN s : s[i] = x
  BY DEF ToSet

\* Putting an element at the end.
LEMMA HoldsPut ==
    ASSUME NEW S, NEW s \in Seq(S), NEW e \in S
    PROVE  /\ Append(s, e) \in Seq(S)
           /\ ToSet(Append(s, e)) = ToSet(s) \cup {e}
  <1> DEFINE t == Append(s, e)
  <1>1. /\ t \in Seq(S) /\ Len(t) = Len(s) + 1 /\ Len(s) \in Nat
        /\ \A i \in 1..Len(s) : t[i] = s[i]
        /\ t[Len(s) + 1] = e
    BY AppendProperties
  <1> HIDE DEF t
  <1>2. DOMAIN t = 1..(Len(s) + 1) /\ DOMAIN s = 1..Len(s)
    BY <1>1
  <1>3. ToSet(t) \subseteq ToSet(s) \cup {e}
    BY <1>1, <1>2 DEF ToSet
  <1>4. ToSet(s) \cup {e} \subseteq ToSet(t)
    BY <1>1, <1>2 DEF ToSet
  <1> QED BY <1>1, <1>3, <1>4 DEF t

\* Taking the first element.
LEMMA HoldsTake ==
    ASSUME NEW S, NEW s \in Seq(S), s # <<>>
    PROVE  /\ Head(s) \in S /\ Tail(s) \in Seq(S)
           /\ ToSet(s) = {Head(s)} \cup ToSet(Tail(s))
  <1> DEFINE t == Tail(s)
  <1>1. /\ t \in Seq(S) /\ Len(s) = Len(t) + 1 /\ Len(t) \in Nat
        /\ \A i \in 1..Len(t) : t[i] = s[i + 1]
        /\ Head(s) = s[1] /\ Head(s) \in S
    BY HeadTailProperties
  <1> HIDE DEF t
  <1>2. DOMAIN t = 1..Len(t) /\ DOMAIN s = 1..(Len(t) + 1)
    BY <1>1
  <1>3. ToSet(s) \subseteq {Head(s)} \cup ToSet(t)
    <2> SUFFICES ASSUME NEW i \in 1..(Len(t) + 1) PROVE s[i] \in {Head(s)} \cup ToSet(t)
      BY <1>2 DEF ToSet
    <2>1. CASE i = 1
      BY <1>1, <2>1
    <2>2. CASE i # 1
      <3>1. i - 1 \in 1..Len(t) /\ t[i - 1] = s[i]
        BY <1>1, <2>2
      <3> QED BY <1>2, <3>1 DEF ToSet
    <2> QED BY <2>1, <2>2
  <1>4. {Head(s)} \cup ToSet(t) \subseteq ToSet(s)
    <2>1. Head(s) \in ToSet(s)
      BY <1>1, <1>2 DEF ToSet
    <2>2. ASSUME NEW i \in 1..Len(t) PROVE t[i] \in ToSet(s)
      BY <1>1, <1>2 DEF ToSet
    <2> QED BY <1>2, <2>1, <2>2 DEF ToSet
  <1> QED BY <1>1, <1>3, <1>4 DEF t

LEMMA OrderedNone == Ordered(<<>>)
  BY DEF Ordered

LEMMA OrderedPut ==
    ASSUME NEW s \in Seq(Nat), NEW e \in Nat, Ordered(s), Before(ToSet(s), {e})
    PROVE  Ordered(Append(s, e))
  <1> DEFINE t == Append(s, e)
  <1>1. /\ DOMAIN t = 1..(Len(s) + 1) /\ DOMAIN s = 1..Len(s) /\ Len(s) \in Nat
        /\ \A i \in 1..Len(s) : t[i] = s[i] /\ s[i] < e
        /\ t[Len(s) + 1] = e
    BY AppendProperties DEF Before, ToSet
  <1> HIDE DEF t
  <1>2. Ordered(t)
    BY <1>1 DEF Ordered
  <1> QED BY <1>2 DEF t

LEMMA OrderedTake ==
    ASSUME NEW s \in Seq(Nat), s # <<>>, Ordered(s)
    PROVE  Ordered(Tail(s)) /\ Before({Head(s)}, ToSet(Tail(s)))
  <1> DEFINE t == Tail(s)
  <1>1. /\ DOMAIN t = 1..Len(t) /\ DOMAIN s = 1..(Len(t) + 1) /\ Len(t) \in Nat
        /\ \A i \in 1..Len(t) : t[i] = s[i + 1]
        /\ Head(s) = s[1]
    BY HeadTailProperties
  <1> HIDE DEF t
  <1>2. Ordered(t)
    <2> SUFFICES ASSUME NEW i \in 1..Len(t), NEW j \in 1..Len(t), i < j PROVE t[i] < t[j]
      BY <1>1 DEF Ordered
    <2>1. i + 1 \in DOMAIN s /\ j + 1 \in DOMAIN s /\ i + 1 < j + 1
      BY <1>1
    <2> QED BY <1>1, <2>1 DEF Ordered
  <1>3. Before({Head(s)}, ToSet(t))
    BY <1>1 DEF Ordered, Before, ToSet
  <1> QED BY <1>2, <1>3 DEF t

-----------------------------------------------------------------------------
(* Queues in a row.                                                         *)

\* An element put at the end of the second is put at the end of both.
LEMMA RowPut ==
    ASSUME NEW S, NEW s \in Seq(S), NEW t \in Seq(S), NEW e \in S
    PROVE  s \o Append(t, e) = Append(s \o t, e)
  OBVIOUS

\* An element that goes from the second to the first stays where it was.
LEMMA RowMove ==
    ASSUME NEW S, NEW s \in Seq(S), NEW t \in Seq(S), t # <<>>
    PROVE  Append(s, Head(t)) \o Tail(t) = s \o t
  <1> DEFINE u == Tail(t)
  <1>1. /\ u \in Seq(S) /\ Len(t) = Len(u) + 1 /\ Len(u) \in Nat
        /\ \A i \in 1..Len(u) : u[i] = t[i + 1]
        /\ Head(t) = t[1] /\ Head(t) \in S /\ Len(t) \in Nat
    BY HeadTailProperties
  <1> HIDE DEF u
  <1>2. \A i \in 1..Len(t) : i # 1 => i - 1 \in 1..Len(u) /\ u[i - 1] = t[i]
    BY <1>1
  <1> DEFINE a == Append(s, Head(t))
  <1>3. /\ a \in Seq(S) /\ Len(a) = Len(s) + 1 /\ Len(s) \in Nat
        /\ \A i \in 1..Len(s) : a[i] = s[i]
        /\ a[Len(s) + 1] = t[1]
    BY <1>1, AppendProperties
  <1> HIDE DEF a
  <1>4. /\ a \o u \in Seq(S) /\ Len(a \o u) = Len(s) + Len(t)
        /\ \A i \in 1..(Len(s) + Len(t)) :
             (a \o u)[i] = IF i <= Len(s) + 1 THEN a[i] ELSE u[i - (Len(s) + 1)]
    <2>1. /\ a \o u \in Seq(S) /\ Len(a \o u) = Len(a) + Len(u)
          /\ \A i \in 1..(Len(a) + Len(u)) :
               (a \o u)[i] = IF i <= Len(a) THEN a[i] ELSE u[i - Len(a)]
      BY <1>1, <1>3, ConcatProperties
    <2>2. Len(a) + Len(u) = Len(s) + Len(t)
      BY <1>1, <1>3
    <2> QED BY <1>3, <2>1, <2>2
  <1>5. /\ s \o t \in Seq(S) /\ Len(s \o t) = Len(s) + Len(t)
        /\ \A i \in 1..(Len(s) + Len(t)) :
             (s \o t)[i] = IF i <= Len(s) THEN s[i] ELSE t[i - Len(s)]
    BY ConcatProperties
  <1>6. ASSUME NEW i \in 1..(Len(s) + Len(t)) PROVE (a \o u)[i] = (s \o t)[i]
    <2>1. CASE i <= Len(s)
      BY <1>3, <1>4, <1>5, <2>1
    <2>2. CASE i = Len(s) + 1
      BY <1>3, <1>4, <1>5, <2>2
    <2>3. CASE i > Len(s) + 1
      <3>1. i - Len(s) \in 1..Len(t) /\ i - Len(s) # 1 /\ (i - Len(s)) - 1 = i - (Len(s) + 1)
        BY <1>3, <2>3
      <3>2. u[i - (Len(s) + 1)] = t[i - Len(s)]
        BY <1>2, <3>1
      <3> QED BY <1>3, <1>4, <1>5, <2>3, <3>2
    <2> QED BY <1>1, <1>3, <2>1, <2>2, <2>3
  <1>7. a \o u = s \o t
    BY <1>4, <1>5, <1>6, SeqEqual
  <1> QED BY <1>7 DEF a, u

\* Taking the first of both is taking the first of the first one.
LEMMA RowTake ==
    ASSUME NEW S, NEW s \in Seq(S), NEW t \in Seq(S), s # <<>>
    PROVE  /\ s \o t # <<>> /\ Head(s \o t) = Head(s) /\ Tail(s \o t) = Tail(s) \o t
           /\ Tail(s) \o t = SubSeq(s \o t, 2, Len(s \o t))
  <1>1. s \o t # <<>> /\ Head(s \o t) = Head(s) /\ Tail(s \o t) = Tail(s) \o t
    OBVIOUS
  <1>2. s \o t \in Seq(S)
    OBVIOUS
  <1> QED BY <1>1, <1>2, TailIsSubSeq

\* Leaving out the first queue.
LEMMA RowDrop ==
    ASSUME NEW S, NEW s \in Seq(S), NEW t \in Seq(S)
    PROVE  t = SubSeq(s \o t, Len(s) + 1, Len(s \o t))
  <1> DEFINE u == s \o t
             v == SubSeq(u, Len(s) + 1, Len(u))
  <1>1. /\ u \in Seq(S) /\ Len(u) = Len(s) + Len(t) /\ Len(s) \in Nat /\ Len(t) \in Nat
        /\ \A i \in 1..(Len(s) + Len(t)) : u[i] = IF i <= Len(s) THEN s[i] ELSE t[i - Len(s)]
    BY ConcatProperties
  <1> HIDE DEF u
  <1>2. \A i \in (Len(s) + 1)..Len(u) : u[i] \in S
    BY <1>1
  <1>3. /\ v \in Seq(S) /\ Len(v) = Len(t)
        /\ \A i \in 1..Len(t) : v[i] = u[Len(s) + 1 + i - 1]
    BY <1>1, <1>2, SubSeqProperties
  <1> HIDE DEF v
  <1>4. ASSUME NEW i \in 1..Len(t) PROVE v[i] = t[i]
    <2>1. /\ Len(s) + 1 + i - 1 = Len(s) + i /\ Len(s) + i \in 1..(Len(s) + Len(t))
          /\ ~(Len(s) + i <= Len(s)) /\ (Len(s) + i) - Len(s) = i
      BY <1>1
    <2>2. v[i] = u[Len(s) + i] /\ u[Len(s) + i] = t[(Len(s) + i) - Len(s)]
      BY <1>1, <1>3, <2>1
    <2> QED BY <2>1, <2>2
  <1>5. v = t
    BY <1>3, <1>4, SeqEqual
  <1> QED BY <1>5 DEF u, v

-----------------------------------------------------------------------------
(* The inductive invariant.                                                 *)

\* Packets are heard, queued in the channel and queued in the mailbox in the
\* order of their numbers, so none is in two of these places.
PacketsInOrder ==
    /\ Ordered(heard) /\ Ordered(chan) /\ Ordered(mbox)
    /\ Before(ToSet(heard), ToSet(chan))
    /\ Before(ToSet(heard), ToSet(mbox))
    /\ Before(ToSet(chan), ToSet(mbox))

\* Until the port is open there is no channel that could hold anything; from
\* then on there is one with somebody at each end.
OpenIsConnected ==
    alive => IF "open" \in wait THEN chan = <<>>
             ELSE tx /\ writer /\ (reader = "ended" => port = "gone")

\* Frames on the line follow those that were read.
FramesInOrder ==
    /\ InOrder(received) /\ InOrder(line)
    /\ \A f \in ToSet(received) : f.n <= sent /\ \A g \in ToSet(line) : f.n < g.n
    /\ \A g \in ToSet(line) : g.n <= sent

RawInv == TypeOK /\ Accounted /\ PacketsInOrder /\ OpenIsConnected /\ FramesInOrder

\* A relayed acknowledgement is published before AntDecode can see it.
RelaysAreAcked ==
    \A f \in ToSet(downMessages) : f.kind = "relay" => f \in ToSet(ackMessages)

Inv == RawInv /\ LayersTypeOK /\ AnswersFollowFrames /\ RelaysAreAcked

-----------------------------------------------------------------------------
(* Frames.                                                                  *)

LEMMA InOrderPut ==
    ASSUME NEW s \in Seq(Frames), NEW e \in Frames, InOrder(s), \A f \in ToSet(s) : f.n < e.n
    PROVE  InOrder(Append(s, e))
  <1> DEFINE t == Append(s, e)
  <1>1. /\ DOMAIN t = 1..(Len(s) + 1) /\ DOMAIN s = 1..Len(s) /\ Len(s) \in Nat
        /\ \A i \in 1..Len(s) : t[i] = s[i] /\ s[i].n < e.n
        /\ t[Len(s) + 1] = e
    BY AppendProperties DEF ToSet
  <1> HIDE DEF t
  <1>2. InOrder(t)
    BY <1>1 DEF InOrder
  <1> QED BY <1>2 DEF t

LEMMA InOrderTake ==
    ASSUME NEW s \in Seq(Frames), s # <<>>, InOrder(s)
    PROVE  InOrder(Tail(s)) /\ \A f \in ToSet(Tail(s)) : Head(s).n < f.n
  <1> DEFINE t == Tail(s)
  <1>1. /\ DOMAIN t = 1..Len(t) /\ DOMAIN s = 1..(Len(t) + 1) /\ Len(t) \in Nat
        /\ \A i \in 1..Len(t) : t[i] = s[i + 1]
        /\ Head(s) = s[1]
    BY HeadTailProperties
  <1> HIDE DEF t
  <1>2. InOrder(t)
    <2> SUFFICES ASSUME NEW i \in 1..Len(t), NEW j \in 1..Len(t), i < j PROVE t[i].n < t[j].n
      BY <1>1 DEF InOrder
    <2>1. i + 1 \in DOMAIN s /\ j + 1 \in DOMAIN s /\ i + 1 < j + 1
      BY <1>1
    <2> QED BY <1>1, <2>1 DEF InOrder
  <1>3. ASSUME NEW i \in 1..Len(t) PROVE Head(s).n < t[i].n
    <2>1. 1 \in DOMAIN s /\ i + 1 \in DOMAIN s /\ 1 < i + 1
      BY <1>1
    <2> QED BY <1>1, <2>1 DEF InOrder
  <1> QED BY <1>1, <1>2, <1>3 DEF t, ToSet

-----------------------------------------------------------------------------
(* RawIO.                                                                   *)

LEMMA RawInit0 == RawInit => RawInv
  <1> SUFFICES ASSUME RawInit PROVE RawInv
    OBVIOUS
  <1> USE DEF RawInit
  <1>1. TypeOK
    <2>1. chan \in Seq(Nat) /\ mbox \in Seq(Nat) /\ heard \in Seq(Nat)
      BY EmptySeq
    <2>2. line \in Seq(Frames) /\ received \in Seq(Frames)
      BY EmptySeq
    <2> QED BY <2>1, <2>2 DEF TypeOK
  <1>2. Accounted
    <2>1. 1..0 = {}
      OBVIOUS
    <2> QED BY <2>1, HoldsNone DEF Accounted
  <1>3. PacketsInOrder
    BY HoldsNone, OrderedNone DEF PacketsInOrder, Before
  <1>4. OpenIsConnected /\ FramesInOrder
    BY HoldsNone DEF OpenIsConnected, FramesInOrder, InOrder
  <1> QED BY <1>1, <1>2, <1>3, <1>4 DEF RawInv

\* A connection is given up: what the channel held is lost.
LEMMA RestartStep ==
    RawInv /\ alive /\ Restart /\ torn' \in BOOLEAN => RawInv'
  <1> SUFFICES ASSUME RawInv, alive, Restart, torn' \in BOOLEAN PROVE RawInv'
    OBVIOUS
  <1> USE DEF RawInv, TypeOK
  <1>1. TypeOK'
    <2>1. lost' \subseteq 1..published'
      BY DEF Restart, Accounted
    <2>2. chan' \in Seq(Nat)
      BY EmptySeq DEF Restart
    <2>3. line' \in Seq(Frames)
      BY EmptySeq DEF Restart
    <2>4. /\ alive' \in BOOLEAN /\ subscribed' \in BOOLEAN /\ tx' \in BOOLEAN
          /\ writer' \in BOOLEAN /\ wait' \subseteq {"open", "sleep"}
          /\ reader' \in {"none", "reading", "ended"} /\ port' \in {"closed", "up", "gone"}
          /\ mbox' \in Seq(Nat) /\ heard' \in Seq(Nat) /\ received' \in Seq(Frames)
          /\ published' \in Nat /\ sent' \in Nat /\ hangups' \in Nat
      BY DEF Restart
    <2> QED BY <2>1, <2>2, <2>3, <2>4
  <1>2. Accounted'
    <2>1. ToSet(chan)' = {}
      BY HoldsNone DEF Restart
    <2>2. ToSet(heard) \subseteq Nat /\ ToSet(chan) \subseteq Nat /\ ToSet(mbox) \subseteq Nat
      BY HoldsElements
    <2>3. ToSet(heard) \cap ToSet(chan) = {} /\ ToSet(chan) \cap ToSet(mbox) = {}
      BY <2>2 DEF PacketsInOrder, Before
    <2>4. /\ heard' = heard /\ mbox' = mbox /\ lost' = lost \cup ToSet(chan)
          /\ published' = published
      BY DEF Restart
    <2> QED BY <2>1, <2>3, <2>4 DEF Accounted
  <1>3. PacketsInOrder'
    BY HoldsNone, OrderedNone DEF Restart, PacketsInOrder, Before
  <1>4. OpenIsConnected'
    BY DEF Restart, OpenIsConnected
  <1>5. FramesInOrder'
    BY HoldsNone DEF Restart, FramesInOrder, InOrder
  <1> QED BY <1>1, <1>2, <1>3, <1>4, <1>5

\* A step that leaves packets and frames alone.
LEMMA KeepsQueues ==
    ASSUME RawInv, UNCHANGED <<up, down>>, TypeOK', OpenIsConnected'
    PROVE  RawInv'
  BY DEF RawInv, up, down, Accounted, PacketsInOrder, FramesInOrder, InOrder

\* A packet is offered to the port.
LEMMA PublishStep == RawInv /\ Publish => RawInv'
  <1> SUFFICES ASSUME RawInv, Publish PROVE RawInv'
    OBVIOUS
  <1> USE DEF RawInv, TypeOK
  <1> DEFINE p == published + 1
  <1>1. /\ p \in Nat /\ published' = p /\ heard' = heard /\ chan' = chan
        /\ line' = line /\ received' = received /\ sent' = sent /\ UNCHANGED <<alive, conn>>
    BY DEF Publish, down
  <1>2. /\ ToSet(heard) \subseteq 1..published /\ ToSet(chan) \subseteq 1..published
        /\ ToSet(mbox) \subseteq 1..published /\ lost \subseteq 1..published
    BY DEF Accounted
  <1>3. 1..p = (1..published) \cup {p} /\ p \notin 1..published
    BY <1>1
  <1>4. OpenIsConnected' /\ FramesInOrder'
    BY <1>1 DEF OpenIsConnected, FramesInOrder, InOrder, conn
  <1>5. CASE alive /\ subscribed
    <2>1. mbox' = Append(mbox, p) /\ lost' = lost
      BY <1>1, <1>5 DEF Publish
    <2> HIDE DEF p
    <2>2. ToSet(mbox)' = ToSet(mbox) \cup {p} /\ mbox' \in Seq(Nat)
      BY <1>1, <2>1, HoldsPut
    <2>3. Accounted'
      BY <1>1, <1>2, <1>3, <2>1, <2>2 DEF Accounted
    <2>4. Before(ToSet(mbox), {p}) /\ Before(ToSet(heard), {p}) /\ Before(ToSet(chan), {p})
      BY <1>2 DEF Before, p
    <2>5. PacketsInOrder'
      BY <1>1, <2>1, <2>2, <2>4, OrderedPut DEF PacketsInOrder, Before
    <2>6. TypeOK'
      BY <1>1, <1>2, <1>3, <2>1, <2>2 DEF Publish, conn, down
    <2> QED BY <1>4, <2>3, <2>5, <2>6
  <1>6. CASE ~(alive /\ subscribed)
    <2>1. mbox' = mbox /\ lost' = lost \cup {p}
      BY <1>1, <1>6 DEF Publish
    <2> HIDE DEF p
    <2>2. Accounted'
      BY <1>1, <1>2, <1>3, <2>1 DEF Accounted
    <2>3. PacketsInOrder'
      BY <1>1, <2>1 DEF PacketsInOrder
    <2>4. TypeOK'
      BY <1>1, <1>2, <1>3, <2>1 DEF Publish, conn, down
    <2> QED BY <1>4, <2>2, <2>3, <2>4
  <1> QED BY <1>5, <1>6

\* The handler gives a packet to the channel.
LEMMA HandleUpPacketStep == RawInv /\ HandleUpPacket => RawInv' /\ lost' = lost
  <1> SUFFICES ASSUME RawInv, HandleUpPacket PROVE RawInv' /\ lost' = lost
    OBVIOUS
  <1> USE DEF RawInv, TypeOK
  <1>1. /\ mbox # <<>> /\ mbox' = Tail(mbox)
        /\ chan' = Append(chan, Head(mbox)) /\ lost' = lost
        /\ UNCHANGED <<alive, subscribed, conn, torn, published, heard, down, hangups>>
        /\ "open" \notin wait
    BY DEF HandleUpPacket, Polled, OpenIsConnected
  <1>2. /\ Head(mbox) \in Nat /\ Tail(mbox) \in Seq(Nat) /\ chan' \in Seq(Nat)
        /\ ToSet(mbox) = {Head(mbox)} \cup ToSet(mbox')
        /\ ToSet(chan') = ToSet(chan) \cup {Head(mbox)}
    BY <1>1, HoldsTake, HoldsPut
  <1>3. TypeOK'
    BY <1>1, <1>2 DEF conn, down
  <1>4. Accounted'
    BY <1>1, <1>2 DEF Accounted
  <1>5. PacketsInOrder'
    <2>1. Before(ToSet(chan), {Head(mbox)}) /\ Before(ToSet(heard), {Head(mbox)})
      BY <1>2 DEF PacketsInOrder, Before
    <2>2. Ordered(chan') /\ Ordered(mbox') /\ Before({Head(mbox)}, ToSet(mbox'))
      BY <1>1, <1>2, <2>1, OrderedPut, OrderedTake DEF PacketsInOrder
    <2> QED BY <1>1, <1>2, <2>1, <2>2 DEF PacketsInOrder, Before
  <1>6. OpenIsConnected' /\ FramesInOrder'
    BY <1>1 DEF OpenIsConnected, FramesInOrder, InOrder, conn, down
  <1> QED BY <1>1, <1>3, <1>4, <1>5, <1>6

\* A frame is written, or lost behind a torn one.
LEMMA WriteStep == RawInv /\ Write => RawInv'
  <1> SUFFICES ASSUME RawInv, Write PROVE RawInv'
    OBVIOUS
  <1> USE DEF RawInv, TypeOK
  <1>1. /\ chan # <<>> /\ chan' = Tail(chan)
        /\ UNCHANGED <<alive, subscribed, conn, mbox, published, down, hangups>>
        /\ "open" \notin wait /\ alive /\ torn' = FALSE
    BY DEF Write, Polled
  <1>2. /\ Head(chan) \in Nat /\ Tail(chan) \in Seq(Nat)
        /\ ToSet(chan) = {Head(chan)} \cup ToSet(chan')
        /\ Ordered(chan') /\ Before({Head(chan)}, ToSet(chan'))
    BY <1>1, HoldsTake, OrderedTake DEF PacketsInOrder
  <1>3. /\ Before(ToSet(heard), {Head(chan)}) /\ Before({Head(chan)}, ToSet(mbox))
        /\ Before(ToSet(chan'), ToSet(mbox)) /\ Before(ToSet(heard), ToSet(chan'))
    BY <1>2 DEF PacketsInOrder, Before
  <1>4. OpenIsConnected' /\ FramesInOrder'
    BY <1>1 DEF OpenIsConnected, FramesInOrder, InOrder, conn, down
  <1>5. CASE torn
    <2>1. heard' = heard /\ lost' = lost \cup {Head(chan)}
      BY <1>5 DEF Write
    <2>2. Head(chan) \notin ToSet(heard) \cup ToSet(chan') \cup ToSet(mbox)
      BY <1>2, <1>3 DEF Before
    <2>3. Accounted'
      BY <1>1, <1>2, <2>1, <2>2 DEF Accounted
    <2>4. PacketsInOrder'
      BY <1>1, <1>2, <1>3, <2>1 DEF PacketsInOrder
    <2>5. TypeOK'
      <3>1. lost' \subseteq 1..published'
        BY <2>3 DEF Accounted
      <3> QED BY <1>1, <1>2, <2>1, <3>1 DEF conn, down
    <2> QED BY <1>4, <2>3, <2>4, <2>5
  <1>6. CASE ~torn
    <2>1. heard' = Append(heard, Head(chan)) /\ lost' = lost
      BY <1>6 DEF Write
    <2>2. heard' \in Seq(Nat) /\ ToSet(heard') = ToSet(heard) \cup {Head(chan)}
      BY <1>2, <2>1, HoldsPut
    <2>3. Accounted'
      BY <1>1, <1>2, <2>1, <2>2 DEF Accounted
    <2>4. Ordered(heard')
      BY <1>2, <1>3, <2>1, OrderedPut DEF PacketsInOrder
    <2>5. PacketsInOrder'
      BY <1>1, <1>2, <1>3, <2>2, <2>4 DEF PacketsInOrder, Before
    <2>6. TypeOK'
      BY <1>1, <1>2, <2>1, <2>2 DEF conn, down
    <2> QED BY <1>4, <2>3, <2>5, <2>6
  <1> QED BY <1>5, <1>6

\* The actor is gone with all it held.
LEMMA ReadFailsStep == RawInv /\ ReadFails => RawInv'
  <1> SUFFICES ASSUME RawInv, ReadFails PROVE RawInv'
    OBVIOUS
  <1> USE DEF RawInv, TypeOK
  <1>1. /\ chan' = <<>> /\ mbox' = <<>> /\ line' = <<>> /\ alive' = FALSE
        /\ lost' = lost \cup ToSet(chan) \cup ToSet(mbox)
        /\ UNCHANGED <<wait, subscribed, torn, published, heard, sent, received, hangups>>
        /\ tx' = FALSE /\ writer' = FALSE /\ reader' = "none" /\ port' = "closed"
    BY DEF ReadFails
  <1>2. ToSet(heard) \cap ToSet(chan) = {} /\ ToSet(heard) \cap ToSet(mbox) = {}
    <2>1. ToSet(heard) \subseteq Nat /\ ToSet(chan) \subseteq Nat /\ ToSet(mbox) \subseteq Nat
      BY HoldsElements
    <2> QED BY <2>1 DEF PacketsInOrder, Before
  <1>3. ToSet(chan') = {} /\ ToSet(mbox') = {} /\ ToSet(line') = {}
    BY <1>1, HoldsNone
  <1>4. Accounted'
    BY <1>1, <1>2, <1>3 DEF Accounted
  <1>5. TypeOK'
    <2>1. lost' \subseteq 1..published'
      BY <1>4 DEF Accounted
    <2>2. chan' \in Seq(Nat) /\ mbox' \in Seq(Nat)
      BY <1>1, EmptySeq
    <2>3. line' \in Seq(Frames)
      BY <1>1, EmptySeq
    <2>4. /\ alive' \in BOOLEAN /\ subscribed' \in BOOLEAN /\ tx' \in BOOLEAN
          /\ writer' \in BOOLEAN /\ torn' \in BOOLEAN /\ wait' \subseteq {"open", "sleep"}
          /\ reader' \in {"none", "reading", "ended"} /\ port' \in {"closed", "up", "gone"}
          /\ heard' \in Seq(Nat) /\ received' \in Seq(Frames)
          /\ published' \in Nat /\ sent' \in Nat /\ hangups' \in Nat
      BY <1>1
    <2> QED BY <2>1, <2>2, <2>3, <2>4
  <1>6. PacketsInOrder'
    BY <1>1, <1>3, OrderedNone DEF PacketsInOrder, Before
  <1>7. OpenIsConnected' /\ FramesInOrder'
    BY <1>1, <1>3 DEF OpenIsConnected, FramesInOrder, InOrder
  <1> QED BY <1>4, <1>5, <1>6, <1>7

\* A frame is read, or comes in.
LEMMA FrameStep ==
    RawInv /\ (ReadFrame \/ \E k \in Kinds \cup {"garbled"} : PeerSends(k)) => RawInv'
  <1> SUFFICES ASSUME RawInv, ReadFrame \/ \E k \in Kinds \cup {"garbled"} : PeerSends(k)
               PROVE  RawInv'
    OBVIOUS
  <1> USE DEF RawInv, TypeOK
  <1>1. /\ UNCHANGED <<alive, subscribed, conn, up, hangups>>
        /\ Accounted' /\ PacketsInOrder' /\ OpenIsConnected'
    <2>1. UNCHANGED <<alive, subscribed, conn, up, hangups>>
      BY DEF ReadFrame, PeerSends
    <2> QED BY <2>1 DEF conn, up, Accounted, PacketsInOrder, OpenIsConnected
  <1>2. CASE ReadFrame
    <2>1. /\ line # <<>> /\ line' = Tail(line) /\ sent' = sent
          /\ received' = IF Head(line).kind = "garbled" THEN received
                         ELSE Append(received, Head(line))
      BY <1>2 DEF ReadFrame
    <2>2. /\ Head(line) \in Frames /\ Tail(line) \in Seq(Frames)
          /\ ToSet(line) = {Head(line)} \cup ToSet(line')
          /\ InOrder(line') /\ \A f \in ToSet(line') : Head(line).n < f.n
      BY <2>1, HoldsTake, InOrderTake DEF FramesInOrder
    <2>3. /\ Append(received, Head(line)) \in Seq(Frames)
          /\ ToSet(Append(received, Head(line))) = ToSet(received) \cup {Head(line)}
          /\ InOrder(Append(received, Head(line)))
      BY <2>2, HoldsPut, InOrderPut DEF FramesInOrder
    <2>4. TypeOK'
      BY <1>1, <2>1, <2>2, <2>3 DEF conn, up
    <2>5. FramesInOrder'
      BY <2>1, <2>2, <2>3 DEF FramesInOrder
    <2> QED BY <1>1, <2>4, <2>5
  <1>3. ASSUME NEW k \in Kinds \cup {"garbled"}, PeerSends(k) PROVE RawInv'
    <2> DEFINE f == [n |-> sent + 1, kind |-> k]
    <2>1. /\ sent' = sent + 1 /\ line' = Append(line, f) /\ received' = received
          /\ f \in Frames /\ f.n = sent + 1
      BY <1>3 DEF PeerSends, Frames
    <2> HIDE DEF f
    <2>2. ToSet(line) \subseteq Frames /\ ToSet(received) \subseteq Frames
      BY HoldsElements
    <2>3. \A g \in Frames : g.n \in Nat
      BY DEF Frames
    <2>4. \A g \in ToSet(line) \cup ToSet(received) : g.n < f.n /\ g.n <= sent + 1
      BY <2>1, <2>2, <2>3 DEF FramesInOrder
    <2>5. /\ line' \in Seq(Frames) /\ ToSet(line') = ToSet(line) \cup {f} /\ InOrder(line')
      BY <2>1, <2>4, HoldsPut, InOrderPut DEF FramesInOrder
    <2>6. TypeOK'
      BY <1>1, <2>1, <2>5 DEF conn, up
    <2>7. FramesInOrder'
      BY <2>1, <2>4, <2>5 DEF FramesInOrder
    <2> QED BY <1>1, <2>6, <2>7
  <1> QED BY <1>2, <1>3

\* The port itself and its packets: every step keeps the invariant.
LEMMA RawInvStep == RawInv /\ (RawStep \/ Publish \/ UNCHANGED rawVars) => RawInv'
  <1> SUFFICES ASSUME RawInv, RawStep \/ Publish \/ UNCHANGED rawVars PROVE RawInv'
    OBVIOUS
  <1>1. CASE OpenOk \/ Wake \/ ReadEof \/ Hangup \/ UNCHANGED rawVars
    <2>1. UNCHANGED <<up, down>>
      BY <1>1 DEF OpenOk, Wake, ReadEof, Hangup, rawVars
    <2>2. TypeOK' /\ OpenIsConnected'
      <3> USE DEF RawInv, TypeOK, OpenIsConnected, up, down
      <3>1. CASE OpenOk
        BY <3>1 DEF OpenOk
      <3>2. CASE Wake
        BY <3>2 DEF Wake
      <3>3. CASE ReadEof
        BY <3>3 DEF ReadEof
      <3>4. CASE Hangup
        BY <3>4 DEF Hangup
      <3>5. CASE UNCHANGED rawVars
        BY <3>5 DEF rawVars, conn
      <3> QED BY <1>1, <3>1, <3>2, <3>3, <3>4, <3>5
    <2> QED BY <2>1, <2>2, KeepsQueues
  <1>2. CASE OpenFails \/ WriteFails
    <2>1. alive /\ Restart /\ torn' \in BOOLEAN
      BY <1>2 DEF OpenFails, WriteFails, Polled, RawInv, TypeOK
    <2> QED BY <2>1, RestartStep
  <1> QED BY <1>1, <1>2, HandleUpPacketStep, WriteStep, ReadFailsStep, FrameStep, PublishStep
          DEF RawStep

-----------------------------------------------------------------------------
(* The layers above.                                                        *)

LEMMA InvInit == Init => Inv
  <1> SUFFICES ASSUME Init PROVE Inv
    OBVIOUS
  <1> USE DEF Init
  <1>1. RawInv
    BY RawInit0
  <1>2. received = <<>>
    BY DEF RawInit
  <1>3. LayersTypeOK
    <2>1. \A s \in {downMessages, ackMessages, antMessages} : s \in Seq(Frames)
      BY EmptySeq
    <2>2. Len(received) = 0 /\ Len(downMessages) = 0
      BY <1>2
    <2> QED BY <1>1, <2>1, <2>2 DEF LayersTypeOK, RawInv
  <1>4. AnswersFollowFrames /\ RelaysAreAcked
    <2>1. {received[i] : i \in 1..unpacked} = {}
      OBVIOUS
    <2> QED BY <1>2, <2>1, HoldsNone DEF AnswersFollowFrames, RelaysAreAcked, InOrder
  <1> QED BY <1>1, <1>3, <1>4 DEF Inv

\* What was received stays, and at most one frame is added.
LEMMA ReceivedGrows ==
    ASSUME RawInv, RawStep \/ Publish \/ UNCHANGED rawVars
    PROVE  /\ Len(received) <= Len(received')
           /\ \A i \in 1..Len(received) : received'[i] = received[i]
  <1> USE DEF RawInv, TypeOK
  <1>1. CASE received' = received
    <2>1. Len(received) \in Nat
      BY LenProperties
    <2> QED BY <1>1, <2>1
  <1>2. CASE ReadFrame
    <2>1. Head(line) \in Frames
      BY <1>2, HoldsTake DEF ReadFrame
    <2>2. received' = received \/ received' = Append(received, Head(line))
      BY <1>2 DEF ReadFrame
    <2>3. Len(received) \in Nat /\ received \in Seq(Frames)
      BY LenProperties
    <2>4. CASE received' = Append(received, Head(line))
      <3>1. /\ Len(received') = Len(received) + 1
            /\ \A i \in 1..Len(received) : received'[i] = received[i]
        BY <2>1, <2>3, <2>4, AppendProperties
      <3> QED BY <2>3, <3>1
    <2> QED BY <1>1, <2>2, <2>4
  <1>3. CASE Publish \/ UNCHANGED rawVars
    BY <1>1, <1>3 DEF Publish, rawVars, down
  <1>4. CASE RawStep /\ ~ReadFrame
    <2>1. received' = received
      BY <1>4 DEF RawStep, OpenOk, OpenFails, Wake, HandleUpPacket, Write, WriteFails, Restart,
                  ReadEof, ReadFails, PeerSends, Hangup, down
    <2> QED BY <1>1, <2>1
  <1> QED BY <1>2, <1>3, <1>4

\* The port works; the layers keep what they have.
LEMMA BelowStep ==
    Inv /\ (RawStep \/ Publish \/ UNCHANGED rawVars)
        /\ UNCHANGED <<unpacked, decoded, downMessages, ackMessages, antMessages>>
        /\ requested' \in Nat /\ packed' \in 0..requested'
    => Inv'
  <1> SUFFICES ASSUME Inv, RawStep \/ Publish \/ UNCHANGED rawVars,
                      UNCHANGED <<unpacked, decoded, downMessages, ackMessages, antMessages>>,
                      requested' \in Nat, packed' \in 0..requested'
               PROVE  Inv'
    OBVIOUS
  <1> USE DEF Inv
  <1>1. RawInv'
    BY RawInvStep
  <1>2. /\ Len(received) <= Len(received')
        /\ \A i \in 1..Len(received) : received'[i] = received[i]
    BY ReceivedGrows
  <1>3. Len(received) \in Nat /\ Len(received') \in Nat /\ unpacked \in 0..Len(received)
    <2>1. received \in Seq(Frames) /\ received' \in Seq(Frames)
      BY <1>1 DEF RawInv, TypeOK
    <2>2. unpacked \in 0..Len(received)
      BY DEF LayersTypeOK
    <2> QED BY <2>1, <2>2, LenProperties
  <1>4. LayersTypeOK'
    BY <1>1, <1>2, <1>3 DEF LayersTypeOK, RawInv
  <1>5. {received'[i] : i \in 1..unpacked} = {received[i] : i \in 1..unpacked}
    BY <1>2, <1>3
  <1>6. AnswersFollowFrames'
    <2>1. InOrder(received') /\ InOrder(ackMessages')
      BY <1>1 DEF RawInv, FramesInOrder, AnswersFollowFrames
    <2>2. ToSet(ackMessages') = {f \in {received'[i] : i \in 1..unpacked'} : HasSource(f.kind)}
      BY <1>5 DEF AnswersFollowFrames
    <2> QED BY <2>1, <2>2 DEF AnswersFollowFrames
  <1>7. RelaysAreAcked'
    BY DEF RelaysAreAcked
  <1> QED BY <1>1, <1>4, <1>6, <1>7

\* Serial unpacks a packet.
LEMMA HandleDownPacketStep == Inv /\ HandleDownPacket => Inv'
  <1> SUFFICES ASSUME Inv, HandleDownPacket PROVE Inv'
    OBVIOUS
  <1> USE DEF Inv
  <1> DEFINE f == received[unpacked + 1]
  <1>1. /\ unpacked' = unpacked + 1 /\ unpacked + 1 \in 1..Len(received) /\ unpacked \in Nat
        /\ received \in Seq(Frames) /\ downMessages \in Seq(Frames)
        /\ ackMessages \in Seq(Frames) /\ f \in Frames
    BY DEF HandleDownPacket, LayersTypeOK, TypeOK
  <1>2. /\ UNCHANGED <<rawVars, requested, packed, decoded, antMessages>>
        /\ received' = received
        /\ IF f.kind = "junk" THEN UNCHANGED <<downMessages, ackMessages>>
           ELSE downMessages' = Append(downMessages, f) /\ TryIssueAck(f)
    BY DEF HandleDownPacket, rawVars, down
  <1>3. RawInv'
    BY <1>2, RawInvStep
  <1>4. /\ ackMessages' = IF HasSource(f.kind) THEN Append(ackMessages, f) ELSE ackMessages
        /\ downMessages' = downMessages \/ downMessages' = Append(downMessages, f)
    BY <1>2 DEF TryIssueAck, HasSource
  <1>5. {received[i] : i \in 1..(unpacked + 1)} = {received[i] : i \in 1..unpacked} \cup {f}
    <2>1. 1..(unpacked + 1) = (1..unpacked) \cup {unpacked + 1}
      BY <1>1
    <2> QED BY <2>1
  <1>6. \A g \in {received[i] : i \in 1..unpacked} : g.n < f.n
    <2> SUFFICES ASSUME NEW i \in 1..unpacked PROVE received[i].n < received[unpacked + 1].n
      OBVIOUS
    <2>1. i \in DOMAIN received /\ unpacked + 1 \in DOMAIN received /\ i < unpacked + 1
      BY <1>1
    <2> QED BY <2>1 DEF AnswersFollowFrames, InOrder
  <1> HIDE DEF f
  <1>7. /\ Append(ackMessages, f) \in Seq(Frames) /\ Append(downMessages, f) \in Seq(Frames)
        /\ ToSet(Append(ackMessages, f)) = ToSet(ackMessages) \cup {f}
        /\ ToSet(Append(downMessages, f)) = ToSet(downMessages) \cup {f}
        /\ Len(Append(downMessages, f)) = Len(downMessages) + 1
    BY <1>1, HoldsPut
  <1>8. LayersTypeOK'
    <2>1. requested' \in Nat /\ packed' \in 0..requested' /\ unpacked' \in 0..Len(received')
      BY <1>1, <1>2 DEF LayersTypeOK
    <2>2. decoded' \in 0..Len(downMessages')
      <3>1. Len(downMessages) \in Nat /\ decoded \in 0..Len(downMessages) /\ decoded' = decoded
        BY <1>1, <1>2, LenProperties DEF LayersTypeOK
      <3> QED BY <1>4, <1>7, <3>1
    <2>3. /\ downMessages' \in Seq(Frames) /\ ackMessages' \in Seq(Frames)
          /\ antMessages' \in Seq(Frames)
      BY <1>1, <1>2, <1>4, <1>7 DEF LayersTypeOK
    <2> QED BY <1>3, <2>1, <2>2, <2>3 DEF LayersTypeOK, RawInv
  <1>9. ToSet(ackMessages) \subseteq ToSet(ackMessages')
    BY <1>4, <1>7
  <1>10. AnswersFollowFrames'
    <2>1. InOrder(ackMessages')
      <3>1. \A g \in ToSet(ackMessages) : g.n < f.n
        BY <1>6 DEF AnswersFollowFrames
      <3> QED BY <1>1, <1>4, <3>1, InOrderPut DEF AnswersFollowFrames
    <2>2. ToSet(ackMessages') = {g \in {received[i] : i \in 1..(unpacked + 1)} : HasSource(g.kind)}
      BY <1>4, <1>5, <1>7 DEF AnswersFollowFrames
    <2>3. \A g \in ToSet(antMessages') :
             /\ g.kind \in {"relay", "emptyRelay"}
             /\ g.kind = "relay" => g \in ToSet(ackMessages')
      BY <1>2, <1>9 DEF AnswersFollowFrames
    <2> QED BY <1>1, <1>2, <2>1, <2>2, <2>3 DEF AnswersFollowFrames
  <1>11. RelaysAreAcked'
    <2> SUFFICES ASSUME NEW g \in ToSet(downMessages'), g.kind = "relay"
                 PROVE  g \in ToSet(ackMessages')
      BY DEF RelaysAreAcked
    <2>1. g \in ToSet(downMessages) \/ g = f
      BY <1>4, <1>7
    <2>2. HasSource("relay")
      BY DEF HasSource
    <2> QED BY <1>4, <1>7, <1>9, <2>1, <2>2 DEF RelaysAreAcked
  <1> QED BY <1>3, <1>8, <1>10, <1>11

\* AntDecode publishes what is in a relayed acknowledgement.
LEMMA HandleDownMessageStep == Inv /\ HandleDownMessage => Inv'
  <1> SUFFICES ASSUME Inv, HandleDownMessage PROVE Inv'
    OBVIOUS
  <1> USE DEF Inv
  <1> DEFINE f == downMessages[decoded + 1]
  <1>1. /\ decoded + 1 \in 1..Len(downMessages) /\ decoded' = decoded + 1 /\ decoded \in Nat
        /\ downMessages \in Seq(Frames) /\ antMessages \in Seq(Frames)
        /\ f \in Frames /\ f \in ToSet(downMessages)
    BY HoldsElements DEF HandleDownMessage, LayersTypeOK
  <1>2. /\ UNCHANGED <<rawVars, requested, packed, unpacked, downMessages, ackMessages>>
        /\ received' = received
        /\ antMessages' = IF f.kind \in {"relay", "emptyRelay"}
                          THEN Append(antMessages, f) ELSE antMessages
    BY DEF HandleDownMessage, rawVars, down
  <1>3. RawInv'
    BY <1>2, RawInvStep
  <1> HIDE DEF f
  <1>4. /\ Append(antMessages, f) \in Seq(Frames)
        /\ ToSet(Append(antMessages, f)) = ToSet(antMessages) \cup {f}
    BY <1>1, HoldsPut
  <1>5. LayersTypeOK'
    BY <1>1, <1>2, <1>3, <1>4 DEF LayersTypeOK, RawInv
  <1>6. AnswersFollowFrames'
    <2>1. \A g \in ToSet(antMessages') :
             /\ g.kind \in {"relay", "emptyRelay"}
             /\ g.kind = "relay" => g \in ToSet(ackMessages)
      BY <1>1, <1>2, <1>4 DEF AnswersFollowFrames, RelaysAreAcked
    <2> QED BY <1>2, <2>1 DEF AnswersFollowFrames, InOrder
  <1> QED BY <1>2, <1>3, <1>5, <1>6 DEF RelaysAreAcked

LEMMA InvStep == Inv /\ [Next]_vars => Inv'
  <1> SUFFICES ASSUME Inv, [Next]_vars PROVE Inv'
    OBVIOUS
  <1>1. requested \in Nat /\ packed \in 0..requested
    BY DEF Inv, LayersTypeOK
  <1>2. CASE RawStep /\ UNCHANGED layers
    BY <1>1, <1>2, BelowStep DEF layers
  <1>3. CASE Request
    BY <1>1, <1>3, BelowStep DEF Request
  <1>4. CASE HandleUpMessage
    BY <1>1, <1>4, BelowStep DEF HandleUpMessage
  <1>5. CASE Idle \/ UNCHANGED vars
    BY <1>1, <1>5, BelowStep DEF Idle, vars, layers
  <1> QED BY <1>2, <1>3, <1>4, <1>5, HandleDownPacketStep, HandleDownMessageStep DEF Next

-----------------------------------------------------------------------------
(* The theorems.                                                            *)

\* No packet is forgotten, sent after it was given up or sent twice, through any
\* number of failures and restarts of the port, and an actor that handles a packet
\* has a channel with its writer at the other end.
THEOREM LinkIsSafe == Spec => []LinkInv
  <1>1. Inv => LinkInv
    BY DEF Inv, RawInv, OpenIsConnected, Polled, RunningIsConnected, LinkInv
  <1> QED BY <1>1, InvInit, InvStep, PTL DEF Spec

\* Acknowledgements published by Serial are those of the frames read, in the order
\* the peer sent them, each once, and what AntDecode takes for a packet of the ant
\* has its acknowledgement published before.
THEOREM AnswersAreFrames == Spec => []AnswersFollowFrames
  <1>1. Inv => AnswersFollowFrames
    BY DEF Inv
  <1> QED BY <1>1, InvInit, InvStep, PTL DEF Spec

\* What a step of the system is to the port.
LEMMA StepBelow == [Next]_vars => RawStep \/ Publish \/ UNCHANGED rawVars
  BY DEF Next, Request, HandleUpMessage, HandleDownPacket, HandleDownMessage, Idle, vars

\* While the port works, a packet is lost only before the first connection and
\* behind a frame that was cut off.
THEOREM LossIsExplained == Spec => LossNeedsFailure
  <1> DEFINE Explained == lost' # lost => ~alive \/ ~subscribed \/ torn \/ port = "gone"
  <1>1. ASSUME Inv, [Next]_vars PROVE [Explained]_rawVars
    <2> USE DEF Inv
    <2>1. RawStep \/ Publish \/ UNCHANGED rawVars
      BY <1>1, StepBelow
    <2>2. CASE lost' = lost
      BY <2>2
    <2>3. CASE Publish \/ Write \/ WriteFails \/ ReadFails
      BY <2>3 DEF Publish, Write, WriteFails, ReadFails
    <2>4. CASE HandleUpPacket
      BY <1>1, <2>2, <2>4, HandleUpPacketStep
    <2>5. CASE OpenFails
      <3>1. chan = <<>> /\ lost' = lost \cup ToSet(chan)
        BY <1>1, <2>5 DEF OpenFails, Restart, RawInv, OpenIsConnected
      <3> QED BY <2>2, <3>1, HoldsNone
    <2>6. CASE OpenOk \/ Wake \/ ReadFrame \/ ReadEof \/ Hangup
                \/ \E k \in Kinds \cup {"garbled"} : PeerSends(k)
      BY <2>2, <2>6 DEF OpenOk, Wake, ReadFrame, ReadEof, Hangup, PeerSends, up
    <2> QED BY <2>1, <2>3, <2>4, <2>5, <2>6 DEF RawStep
  <1> QED BY <1>1, InvInit, InvStep, PTL DEF Spec, LossNeedsFailure

-----------------------------------------------------------------------------
(* The port implements LossyFifo: its queue is the channel, then the        *)
(* mailbox.                                                                 *)

\* The packets the port holds.
Held == chan \o mbox

\* A step of the port is one of the lossy queue, or none.
LEMMA StepImplements ==
    ASSUME Inv, RawStep \/ Publish \/ UNCHANGED rawVars
    PROVE  Fifo!Next \/ UNCHANGED Fifo!vars
  <1> USE DEF Inv, RawInv, TypeOK
  <1>1. chan \in Seq(Nat) /\ mbox \in Seq(Nat) /\ Held \in Seq(Nat) /\ published \in Nat
    <2>1. chan \in Seq(Nat) /\ mbox \in Seq(Nat) /\ published \in Nat
      OBVIOUS
    <2> QED BY <2>1, ConcatProperties DEF Held
  <1>2. ASSUME published' = published, heard' = heard, Held' = Held
        PROVE  UNCHANGED Fifo!vars
    BY <1>2 DEF Fifo!vars, Held
  <1>3. ASSUME published' = published, heard' = heard,
               NEW k \in 0..Len(Held), Held' = SubSeq(Held, k + 1, Len(Held))
        PROVE  Fifo!Next \/ UNCHANGED Fifo!vars
    <2>1. CASE k = 0
      <3>1. Held' = Held
        BY <1>1, <1>3, <2>1, SubSeqFull
      <3> QED BY <1>2, <1>3, <3>1
    <2>2. CASE k # 0
      <3>1. k \in 1..Len(Held)
        BY <2>2
      <3>2. Fifo!Drop
        BY <1>3, <3>1 DEF Fifo!Drop, Held
      <3> QED BY <3>2 DEF Fifo!Next
    <2> QED BY <2>1, <2>2
  <1>4. Len(chan) \in 0..Len(Held) /\ Len(Held) \in Nat
    <2>1. Len(Held) = Len(chan) + Len(mbox) /\ Len(chan) \in Nat /\ Len(mbox) \in Nat
      BY <1>1, ConcatProperties, LenProperties DEF Held
    <2> QED BY <2>1
  <1>5. CASE Publish
    <2>1. /\ published' = published + 1 /\ heard' = heard /\ chan' = chan
          /\ mbox' = Append(mbox, published + 1) \/ mbox' = mbox
      BY <1>5 DEF Publish
    <2>2. published + 1 \in Nat
      BY <1>1
    <2>3. chan' \o mbox' \in {chan \o mbox, Append(chan \o mbox, published + 1)}
      <3>1. chan \o Append(mbox, published + 1) = Append(chan \o mbox, published + 1)
        BY <1>1, <2>2, RowPut
      <3> QED BY <2>1, <3>1
    <2>4. Fifo!Offer
      BY <2>1, <2>3 DEF Fifo!Offer
    <2> QED BY <2>4 DEF Fifo!Next
  <1>6. CASE HandleUpPacket
    <2>1. /\ mbox # <<>> /\ mbox' = Tail(mbox) /\ chan' = Append(chan, Head(mbox))
          /\ published' = published /\ heard' = heard
      BY <1>6 DEF HandleUpPacket, Polled, OpenIsConnected
    <2>2. Held' = Held
      BY <1>1, <2>1, RowMove DEF Held
    <2> QED BY <1>2, <2>1, <2>2
  <1>7. CASE Write
    <2>1. chan # <<>> /\ chan' = Tail(chan) /\ mbox' = mbox /\ published' = published
      BY <1>7 DEF Write
    <2>2. /\ Held # <<>> /\ Head(Held) = Head(chan) /\ Held' = Tail(Held)
          /\ Held' = SubSeq(Held, 2, Len(Held))
      BY <1>1, <2>1, RowTake DEF Held
    <2>3. CASE torn
      <3>1. heard' = heard
        BY <1>7, <2>3 DEF Write
      <3>2. 1 \in 0..Len(Held) /\ 1 + 1 = 2
        BY <1>1, <2>2, EmptySeq
      <3>3. Held' = SubSeq(Held, 1 + 1, Len(Held))
        BY <2>2, <3>2
      <3> QED BY <1>3, <2>1, <3>1, <3>2, <3>3
    <2>4. CASE ~torn
      <3>1. heard' = Append(heard, Head(chan))
        BY <1>7, <2>4 DEF Write
      <3>2. Fifo!Deliver
        BY <2>1, <2>2, <3>1 DEF Fifo!Deliver, Held
      <3> QED BY <3>2 DEF Fifo!Next
    <2> QED BY <2>3, <2>4
  <1>8. CASE OpenFails \/ WriteFails
    <2>1. chan' = <<>> /\ mbox' = mbox /\ published' = published /\ heard' = heard
      BY <1>8 DEF OpenFails, WriteFails, Restart
    <2>2. Held' = mbox /\ mbox = SubSeq(Held, Len(chan) + 1, Len(Held))
      BY <1>1, <2>1, ConcatEmptySeq, RowDrop DEF Held
    <2> QED BY <1>3, <1>4, <2>1, <2>2
  <1>9. CASE ReadFails
    <2>1. chan' = <<>> /\ mbox' = <<>> /\ published' = published /\ heard' = heard
      BY <1>9 DEF ReadFails
    <2>2. Held' = <<>> /\ Len(Held) \in 0..Len(Held) /\ Len(Held) < Len(Held) + 1
      BY <1>4, <2>1, ConcatEmptySeq, EmptySeq DEF Held
    <2>3. SubSeq(Held, Len(Held) + 1, Len(Held)) = <<>>
      BY <1>4, <2>2, SubSeqEmpty
    <2> QED BY <1>3, <2>1, <2>2, <2>3
  <1>10. CASE \/ OpenOk \/ Wake \/ ReadFrame \/ ReadEof \/ Hangup
              \/ \E k \in Kinds \cup {"garbled"} : PeerSends(k)
              \/ UNCHANGED rawVars
    <2>1. UNCHANGED up
      BY <1>10 DEF OpenOk, Wake, ReadFrame, ReadEof, Hangup, PeerSends, rawVars
    <2> QED BY <1>2, <2>1 DEF up, Held
  <1> QED BY <1>5, <1>6, <1>7, <1>8, <1>9, <1>10 DEF RawStep

\* Through any number of failures and reconnects packets come out in the order
\* they were published, none twice, and only the oldest held are dropped.
THEOREM PortIsFifo == Spec => ImplementsFifo
  <1>1. Init => Fifo!Init
    <2>1. <<>> \o <<>> = <<>>
      BY ConcatEmptySeq, EmptySeq
    <2> QED BY <2>1 DEF Init, RawInit, Fifo!Init
  <1>2. Inv /\ [Next]_vars => [Fifo!Next]_(Fifo!vars)
    BY StepBelow, StepImplements
  <1> QED BY <1>1, <1>2, InvInit, InvStep, PTL DEF Spec, ImplementsFifo, Fifo!Spec

=============================================================================
