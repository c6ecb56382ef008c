---------------------------- MODULE UplinkProofs ----------------------------
(***************************************************************************)
(* Proofs about Uplink, for any number of consoles, datagrams, sockets and *)
(* restarts of the process: what is published is well formed and in order, *)
(* and only the last datagrams of a socket are lost with it.               *)
(***************************************************************************)
EXTENDS Uplink, Integers, SequencesExt, SequenceTheorems, TLAPS

-----------------------------------------------------------------------------
(* Sequences as queues and as histories: what they hold, and its order.     *)

\* Numbers that only grow.
Ordered(s) == \A i, j \in DOMAIN s : i < j => s[i] < s[j]

\* All numbers of one set are smaller than those of another.
Before(A, B) == \A a \in A, b \in B : a < b

LEMMA HoldsNone == ToSet(<<>>) = {}
  BY DEF ToSet

LEMMA HoldsElements ==
    ASSUME NEW S, NEW s \in Seq(S)
    PROVE  /\ ToSet(s) \subseteq S
           /\ ToSet(s) = {s[i] : i \in 1..Len(s)}
           /\ \A i \in DOMAIN s : s[i] \in ToSet(s)
           /\ \A x \in ToSet(s) : \E i \in DOMAIN s : s[i] = x
  BY DEF ToSet

\* Putting an element at the end.
LEMMA HoldsPut ==
    ASSUME NEW S, NEW s \in Seq(S), NEW e \in S
    PROVE  /\ Append(s, e) \in Seq(S)
           /\ ToSet(Append(s, e)) = ToSet(s) \cup {e}
  <1> DEFINE t == Append(s, e)
  <1>1. /\ t \in Seq(S) /\ Len(t) = Len(s) + 1 /\ Len(s) \in Nat
        /\ \A i \in 1..Len(s) : t[i] = s[i]
        /\ t[Len(s) + 1] = e
    BY AppendProperties
  <1> HIDE DEF t
  <1>2. DOMAIN t = 1..(Len(s) + 1) /\ DOMAIN s = 1..Len(s)
    BY <1>1
  <1>3. ToSet(t) \subseteq ToSet(s) \cup {e}
    BY <1>1, <1>2 DEF ToSet
  <1>4. ToSet(s) \cup {e} \subseteq ToSet(t)
    BY <1>1, <1>2 DEF ToSet
  <1> QED BY <1>1, <1>3, <1>4 DEF t

\* Taking the first element.
LEMMA HoldsTake ==
    ASSUME NEW S, NEW s \in Seq(S), s # <<>>
    PROVE  /\ Head(s) \in S /\ Tail(s) \in Seq(S)
           /\ ToSet(s) = {Head(s)} \cup ToSet(Tail(s))
  <1> DEFINE t == Tail(s)
  <1>1. /\ t \in Seq(S) /\ Len(s) = Len(t) + 1 /\ Len(t) \in Nat
        /\ \A i \in 1..Len(t) : t[i] = s[i + 1]
        /\ Head(s) = s[1] /\ Head(s) \in S
    BY HeadTailProperties
  <1> HIDE DEF t
  <1>2. DOMAIN t = 1..Len(t) /\ DOMAIN s = 1..(Len(t) + 1)
    BY <1>1
  <1>3. ToSet(s) \subseteq {Head(s)} \cup ToSet(t)
    <2> SUFFICES ASSUME NEW i \in 1..(Len(t) + 1) PROVE s[i] \in {Head(s)} \cup ToSet(t)
      BY <1>2 DEF ToSet
    <2>1. CASE i = 1
      BY <1>1, <2>1
    <2>2. CASE i # 1
      <3>1. i - 1 \in 1..Len(t) /\ t[i - 1] = s[i]
        BY <1>1, <2>2
      <3> QED BY <1>2, <3>1 DEF ToSet
    <2> QED BY <2>1, <2>2
  <1>4. {Head(s)} \cup ToSet(t) \subseteq ToSet(s)
    <2>1. Head(s) \in ToSet(s)
      BY <1>1, <1>2 DEF ToSet
    <2>2. ASSUME NEW i \in 1..Len(t) PROVE t[i] \in ToSet(s)
      BY <1>1, <1>2 DEF ToSet
    <2> QED BY <1>2, <2>1, <2>2 DEF ToSet
  <1> QED BY <1>1, <1>3, <1>4 DEF t

LEMMA OrderedPut ==
    ASSUME NEW s \in Seq(Nat), NEW e \in Nat, Ordered(s), Before(ToSet(s), {e})
    PROVE  Ordered(Append(s, e))
  <1> DEFINE t == Append(s, e)
  <1>1. /\ DOMAIN t = 1..(Len(s) + 1) /\ DOMAIN s = 1..Len(s) /\ Len(s) \in Nat
        /\ \A i \in 1..Len(s) : t[i] = s[i] /\ s[i] < e
        /\ t[Len(s) + 1] = e
    BY AppendProperties DEF Before, ToSet
  <1> HIDE DEF t
  <1>2. Ordered(t)
    BY <1>1 DEF Ordered
  <1> QED BY <1>2 DEF t

LEMMA OrderedTake ==
    ASSUME NEW s \in Seq(Nat), s # <<>>, Ordered(s)
    PROVE  Ordered(Tail(s)) /\ Before({Head(s)}, ToSet(Tail(s)))
  <1> DEFINE t == Tail(s)
  <1>1. /\ DOMAIN t = 1..Len(t) /\ DOMAIN s = 1..(Len(t) + 1) /\ Len(t) \in Nat
        /\ \A i \in 1..Len(t) : t[i] = s[i + 1]
        /\ Head(s) = s[1]
    BY HeadTailProperties
  <1> HIDE DEF t
  <1>2. Ordered(t)
    <2> SUFFICES ASSUME NEW i \in 1..Len(t), NEW j \in 1..Len(t), i < j PROVE t[i] < t[j]
      BY <1>1 DEF Ordered
    <2>1. i + 1 \in DOMAIN s /\ j + 1 \in DOMAIN s /\ i + 1 < j + 1
      BY <1>1
    <2> QED BY <1>1, <2>1 DEF Ordered
  <1>3. Before({Head(s)}, ToSet(t))
    BY <1>1 DEF Ordered, Before, ToSet
  <1> QED BY <1>2, <1>3 DEF t

-----------------------------------------------------------------------------
(* The inductive invariant.                                                 *)

Datagrams == [socket : Nat, valid : BOOLEAN]

\* Datagrams that something was published of; Seen are those whose packet was.
Touched == {m[2] : m \in ToSet(published)}

\* What was handled came before what waits; a command comes after its packet.
HandledFirst ==
    /\ Touched \subseteq Seen
    /\ Before(Seen, ToSet(queue))
    /\ Ordered(queue)

\* Sockets are bound one after the other, so their datagrams come one after
\* the other.
SocketsInTurn ==
    \A i, j \in DOMAIN accepted : i < j => accepted[i].socket <= accepted[j].socket

Inv ==
    /\ TypeOK /\ CommandsFollowPackets /\ LostAreLast
    /\ HandledFirst /\ SocketsInTurn

\* The parts of a type-correct state that the proofs use.
LEMMA Types ==
    ASSUME TypeOK
    PROVE  /\ Len(accepted) \in Nat /\ DOMAIN accepted = 1..Len(accepted)
           /\ sockets \in Nat
           /\ \A n \in DOMAIN accepted :
                accepted[n].socket \in 1..sockets /\ accepted[n].valid \in BOOLEAN
           /\ queue \in Seq(Nat) /\ ToSet(queue) \subseteq DOMAIN accepted
           /\ published \in Seq({"UpPacket", "UpCommand"} \X Nat)
           /\ Seen \subseteq DOMAIN accepted
           /\ \A i \in DOMAIN published :
                /\ published[i][1] \in {"UpPacket", "UpCommand"}
                /\ published[i][2] \in DOMAIN accepted
                /\ published[i] = <<published[i][1], published[i][2]>>
  <1>1. /\ Len(accepted) \in Nat /\ DOMAIN accepted = 1..Len(accepted) /\ sockets \in Nat
        /\ \A n \in DOMAIN accepted : accepted[n] \in [socket : 1..sockets, valid : BOOLEAN]
    <2>1. accepted \in Seq([socket : 1..sockets, valid : BOOLEAN]) /\ sockets \in Nat
      BY DEF TypeOK
    <2>2. Len(accepted) \in Nat /\ DOMAIN accepted = 1..Len(accepted)
      BY <2>1, LenProperties
    <2> QED BY <2>1, <2>2, ElementOfSeq
  <1>2. DOMAIN accepted \subseteq Nat
    BY <1>1
  <1>3. queue \in Seq(Nat) /\ ToSet(queue) \subseteq DOMAIN accepted
    <2>1. queue \in Seq(DOMAIN accepted)
      BY DEF TypeOK
    <2> QED BY <1>2, <2>1, SeqMonotonic, HoldsElements
  <1>4. published \in Seq({"UpPacket", "UpCommand"} \X DOMAIN accepted)
    BY DEF TypeOK
  <1>5. ({"UpPacket", "UpCommand"} \X DOMAIN accepted) \subseteq ({"UpPacket", "UpCommand"} \X Nat)
    BY <1>2
  <1>6. published \in Seq({"UpPacket", "UpCommand"} \X Nat)
    BY <1>4, <1>5, SeqMonotonic
  <1>7. ToSet(published) \subseteq {"UpPacket", "UpCommand"} \X DOMAIN accepted
    BY <1>4, HoldsElements
  <1>8. Seen \subseteq DOMAIN accepted
    BY <1>7 DEF Seen
  <1>9. \A i \in DOMAIN published : published[i] \in {"UpPacket", "UpCommand"} \X DOMAIN accepted
    BY <1>4, <1>7, HoldsElements
  <1>10. \A i \in DOMAIN published :
           /\ published[i][1] \in {"UpPacket", "UpCommand"}
           /\ published[i][2] \in DOMAIN accepted
           /\ published[i] = <<published[i][1], published[i][2]>>
    BY <1>9
  <1> QED BY <1>1, <1>3, <1>6, <1>8, <1>10

LEMMA InvInit == Init => Inv
  <1> SUFFICES ASSUME Init PROVE Inv
    OBVIOUS
  <1> USE DEF Init
  <1>1. TypeOK
    <2>1. queue \in Seq(DOMAIN accepted)
      BY EmptySeq
    <2>2. accepted \in Seq([socket : 1..sockets, valid : BOOLEAN])
      BY EmptySeq
    <2>3. published \in Seq({"UpPacket", "UpCommand"} \X (DOMAIN accepted))
      BY EmptySeq
    <2>4. /\ uplink \in {"exited", "binding", "unlinked", "listening"}
          /\ sockets \in Nat /\ path \in 0..sockets
          /\ console \in [Consoles -> {"connecting", "probed", "ready", "gone"}]
          /\ peer \in [Consoles -> 0..sockets]
      OBVIOUS
    <2> QED BY <2>1, <2>2, <2>3, <2>4 DEF TypeOK
  <1>2. DOMAIN accepted = {} /\ DOMAIN published = {} /\ DOMAIN queue = {}
    OBVIOUS
  <1>3. ToSet(queue) = {} /\ Seen = {} /\ Touched = {}
    BY HoldsNone DEF Seen, Touched
  <1> QED BY <1>1, <1>2, <1>3 DEF Inv, CommandsFollowPackets, LostAreLast, HandledFirst,
          SocketsInTurn, Ordered, Before

-----------------------------------------------------------------------------
(* The steps.                                                               *)

\* Steps of consoles, and of the actor while it has no socket.
LEMMA QuietStep ==
    ASSUME Inv, UNCHANGED <<sockets, queue, accepted, published>>, Open' = Open,
           uplink' \in {"exited", "binding", "unlinked", "listening"},
           path' \in 0..sockets,
           console' \in [Consoles -> {"connecting", "probed", "ready", "gone"}],
           peer' \in [Consoles -> 0..sockets]
    PROVE  Inv'
  <1>1. TypeOK'
    BY DEF Inv, TypeOK
  <1>2. Seen' = Seen /\ Touched' = Touched
    BY DEF Seen, Touched
  <1> QED BY <1>1, <1>2 DEF Inv, CommandsFollowPackets, LostAreLast, HandledFirst,
          SocketsInTurn, Ordered

\* The socket is closed, or a new one is opened: what the old one held is lost.
LEMMA SocketStep ==
    ASSUME Inv, UNCHANGED <<console, peer, accepted, published>>,
           queue' = <<>>, uplink' \in {"exited", "binding", "listening"},
           sockets' \in {sockets, sockets + 1}, path' \in 0..sockets',
           Open' \notin 1..sockets
    PROVE  Inv'
  <1> USE DEF Inv
  <1>1. /\ sockets \in Nat /\ sockets' \in Nat
        /\ \A i \in 0..sockets : i \in 0..sockets'
        /\ \A i \in 1..sockets : i \in 1..sockets'
    BY DEF TypeOK
  <1>2. TypeOK'
    <2>1. queue' \in Seq(DOMAIN accepted')
      BY EmptySeq
    <2>2. [socket : 1..sockets, valid : BOOLEAN] \subseteq [socket : 1..sockets', valid : BOOLEAN]
      BY <1>1
    <2>3. accepted' \in Seq([socket : 1..sockets', valid : BOOLEAN])
      BY <2>2, SeqMonotonic DEF TypeOK
    <2>4. published' \in Seq({"UpPacket", "UpCommand"} \X (DOMAIN accepted'))
      BY DEF TypeOK
    <2>5. /\ console' \in [Consoles -> {"connecting", "probed", "ready", "gone"}]
          /\ peer' \in [Consoles -> 0..sockets']
      BY <1>1 DEF TypeOK
    <2> QED BY <1>1, <2>1, <2>3, <2>4, <2>5 DEF TypeOK
  <1>3. Seen' = Seen /\ Touched' = Touched
    BY DEF Seen, Touched
  <1>4. ToSet(queue') = {} /\ DOMAIN queue' = {}
    BY HoldsNone
  <1>5. \A n \in DOMAIN accepted : accepted[n].socket # Open'
    BY Types
  <1>6. LostAreLast'
    BY <1>3, <1>4, <1>5 DEF LostAreLast
  <1>7. HandledFirst' /\ SocketsInTurn'
    BY <1>3, <1>4 DEF HandledFirst, SocketsInTurn, Before, Ordered
  <1> QED BY <1>2, <1>6, <1>7 DEF CommandsFollowPackets

\* A datagram comes in.
LEMMA AcceptStep ==
    ASSUME Inv, NEW s, NEW v \in BOOLEAN, Accept(s, v),
           UNCHANGED <<actor, console, peer, published>>
    PROVE  Inv'
  <1> USE DEF Inv
  <1> DEFINE n == Len(accepted) + 1
             x == [socket |-> s, valid |-> v]
  <1>1. /\ s = Open /\ s \in 1..sockets /\ s = sockets /\ Open' = Open
        /\ accepted' = Append(accepted, x)
        /\ UNCHANGED <<uplink, path, sockets>>
    BY DEF Accept, Open, actor, TypeOK
  <1>2. /\ x \in [socket : 1..sockets, valid : BOOLEAN] /\ x.socket = s
    BY <1>1
  <1> HIDE DEF x
  <1>3. /\ accepted \in Seq([socket : 1..sockets, valid : BOOLEAN])
        /\ Len(accepted) \in Nat /\ DOMAIN accepted = 1..Len(accepted)
    BY Types DEF TypeOK
  <1>4. /\ accepted' \in Seq([socket : 1..sockets, valid : BOOLEAN])
        /\ Len(accepted') = n /\ accepted'[n] = x
        /\ \A i \in DOMAIN accepted : accepted'[i] = accepted[i]
        /\ DOMAIN accepted' = 1..n
    BY <1>1, <1>2, <1>3, AppendProperties
  <1>5. /\ n \in Nat /\ 1..n = (DOMAIN accepted) \cup {n} /\ n \notin DOMAIN accepted
        /\ \A i \in DOMAIN accepted : i < n
    BY <1>3
  <1>6. queue' = Append(queue, n) /\ queue \in Seq(Nat) /\ ToSet(queue) \subseteq DOMAIN accepted
    BY <1>4, Types DEF Accept
  <1> HIDE DEF n
  <1>7. ToSet(queue') = ToSet(queue) \cup {n} /\ Ordered(queue')
    <2>1. Before(ToSet(queue), {n})
      BY <1>5, <1>6 DEF Before
    <2> QED BY <1>5, <1>6, <2>1, HoldsPut, OrderedPut DEF HandledFirst
  <1>8. Seen' = Seen /\ Touched' = Touched /\ Seen \subseteq DOMAIN accepted
    BY Types DEF Seen, Touched
  <1>9. TypeOK'
    <2>1. queue' \in Seq(1..n)
      <3>1. queue \in Seq(1..n)
        BY <1>5, SeqMonotonic DEF TypeOK
      <3> QED BY <1>5, <1>6, <3>1, HoldsPut
    <2>2. published' \in Seq({"UpPacket", "UpCommand"} \X (1..n))
      <3>1. ({"UpPacket", "UpCommand"} \X (DOMAIN accepted)) \subseteq ({"UpPacket", "UpCommand"} \X (1..n))
        BY <1>5
      <3> QED BY <3>1, SeqMonotonic DEF TypeOK
    <2>3. /\ uplink' \in {"exited", "binding", "unlinked", "listening"}
          /\ sockets' \in Nat /\ path' \in 0..sockets'
          /\ console' \in [Consoles -> {"connecting", "probed", "ready", "gone"}]
          /\ peer' \in [Consoles -> 0..sockets']
      BY <1>1 DEF TypeOK
    <2>4. accepted' \in Seq([socket : 1..sockets', valid : BOOLEAN])
      BY <1>1, <1>4
    <2> QED BY <1>4, <2>1, <2>2, <2>3, <2>4 DEF TypeOK
  <1>10. LostAreLast'
    <2>1. ASSUME NEW i \in Seen, NEW m \in DOMAIN accepted',
                 m < i, accepted'[m].socket = accepted'[i].socket
          PROVE  m \in Seen
      <3>1. m \in DOMAIN accepted /\ i \in DOMAIN accepted
        BY <1>3, <1>4, <1>5, <1>8, <2>1
      <3> QED BY <1>4, <2>1, <3>1 DEF LostAreLast
    <2>2. {i \in 1..n : accepted'[i].socket = Open} =
            {i \in DOMAIN accepted : accepted[i].socket = Open} \cup {n}
      BY <1>1, <1>2, <1>4, <1>5
    <2>3. ToSet(queue') = {i \in DOMAIN accepted' : accepted'[i].socket = Open'} \ Seen
      <3>1. ToSet(queue) = {i \in DOMAIN accepted : accepted[i].socket = Open} \ Seen
        BY DEF LostAreLast
      <3>2. n \notin Seen
        BY <1>5, <1>8
      <3>3. ToSet(queue') = {i \in 1..n : accepted'[i].socket = Open} \ Seen
        BY <1>7, <2>2, <3>1, <3>2
      <3> QED BY <1>1, <1>4, <3>3
    <2>4. \A j, k \in DOMAIN published :
             j < k /\ published[j][1] = published[k][1] => published[j][2] < published[k][2]
      BY DEF LostAreLast
    <2> QED BY <1>7, <1>8, <2>1, <2>3, <2>4 DEF LostAreLast, Ordered
  <1>11. HandledFirst'
    <2>1. Before(Seen, {n})
      BY <1>5, <1>8 DEF Before
    <2> QED BY <1>7, <1>8, <2>1 DEF HandledFirst, Before
  <1>12. SocketsInTurn'
    <2> SUFFICES ASSUME NEW i \in 1..n, NEW j \in 1..n, i < j
                 PROVE  accepted'[i].socket <= accepted'[j].socket
      BY <1>4 DEF SocketsInTurn
    <2>1. i \in DOMAIN accepted
      BY <1>3, <1>5
    <2>2. CASE j = n
      <3>1. accepted[i].socket \in 1..sockets
        BY <2>1, Types
      <3> QED BY <1>1, <1>2, <1>4, <2>1, <2>2, <3>1
    <2>3. CASE j # n
      BY <1>4, <1>5, <2>1, <2>3 DEF SocketsInTurn
    <2> QED BY <2>2, <2>3
  <1> QED BY <1>9, <1>10, <1>11, <1>12 DEF CommandsFollowPackets

\* What the handler of a datagram adds to what was published.
LEMMA HandledAdds ==
    ASSUME TypeOK, NEW h \in DOMAIN accepted, NEW p, p = published \o Handled(h)
    PROVE  /\ p \in Seq({"UpPacket", "UpCommand"} \X (DOMAIN accepted))
           /\ DOMAIN published = 1..Len(published) /\ Len(published) \in Nat
           /\ DOMAIN p = 1..Len(p) /\ Len(p) \in {Len(published) + 1, Len(published) + 2}
           /\ \A j \in DOMAIN published : p[j] = published[j]
           /\ p[Len(published) + 1] = <<"UpPacket", h>>
           /\ Len(p) = Len(published) + 2 => p[Len(published) + 2] = <<"UpCommand", h>>
  <1> DEFINE M == {"UpPacket", "UpCommand"} \X (DOMAIN accepted)
  <1>1. published \in Seq(M) /\ Len(published) \in Nat /\ DOMAIN published = 1..Len(published)
    BY LenProperties DEF TypeOK
  <1>2. <<"UpPacket", h>> \in M /\ <<"UpCommand", h>> \in M
    OBVIOUS
  <1> HIDE DEF M
  <1>3. /\ Handled(h) \in Seq(M) /\ Len(Handled(h)) \in {1, 2}
        /\ Handled(h)[1] = <<"UpPacket", h>>
        /\ Len(Handled(h)) = 2 => Handled(h)[2] = <<"UpCommand", h>>
    BY <1>2 DEF Handled
  <1>4. /\ p \in Seq(M) /\ Len(p) = Len(published) + Len(Handled(h))
        /\ \A i \in 1..(Len(published) + Len(Handled(h))) :
             p[i] = IF i <= Len(published) THEN published[i] ELSE Handled(h)[i - Len(published)]
    BY <1>1, <1>3, ConcatProperties
  <1>5. DOMAIN p = 1..Len(p)
    BY <1>4, LenProperties
  <1>6. Len(p) \in {Len(published) + 1, Len(published) + 2}
    BY <1>1, <1>3, <1>4
  <1>7. \A j \in DOMAIN published : p[j] = published[j]
    BY <1>1, <1>3, <1>4
  <1>8. p[Len(published) + 1] = <<"UpPacket", h>>
    <2>1. /\ Len(published) + 1 \in 1..(Len(published) + Len(Handled(h)))
          /\ ~(Len(published) + 1 <= Len(published)) /\ (Len(published) + 1) - Len(published) = 1
      BY <1>1, <1>3
    <2> QED BY <1>3, <1>4, <2>1
  <1>9. Len(p) = Len(published) + 2 => p[Len(published) + 2] = <<"UpCommand", h>>
    <2> SUFFICES ASSUME Len(p) = Len(published) + 2
                 PROVE  p[Len(published) + 2] = <<"UpCommand", h>>
      OBVIOUS
    <2>1. /\ Len(published) + 2 \in 1..(Len(published) + Len(Handled(h))) /\ Len(Handled(h)) = 2
          /\ ~(Len(published) + 2 <= Len(published)) /\ (Len(published) + 2) - Len(published) = 2
      BY <1>1, <1>3, <1>4
    <2> QED BY <1>3, <1>4, <2>1
  <1> QED BY <1>1, <1>4, <1>5, <1>6, <1>7, <1>8, <1>9 DEF M

\* The actor handles the first datagram in its socket.
LEMMA ReceiveStep == ASSUME Inv, Receive PROVE Inv'
  <1> USE DEF Inv
  <1> DEFINE h == Head(queue)
             n == Len(published)
             k == Len(published')
  <1>1. /\ queue # <<>> /\ queue' = Tail(queue) /\ published' = published \o Handled(h)
        /\ UNCHANGED <<actor, console, peer, accepted>>
    BY DEF Receive
  <1>2. /\ h \in DOMAIN accepted /\ queue' \in Seq(DOMAIN accepted)
        /\ ToSet(queue) = {h} \cup ToSet(queue')
    BY <1>1, HoldsTake DEF TypeOK
  <1>3. Ordered(queue') /\ Before({h}, ToSet(queue'))
    BY <1>1, Types, OrderedTake DEF HandledFirst
  <1> HIDE DEF h
  <1>4. /\ published' \in Seq({"UpPacket", "UpCommand"} \X (DOMAIN accepted))
        /\ DOMAIN published = 1..n /\ DOMAIN published' = 1..k
        /\ n \in Nat /\ (k = n + 1 \/ k = n + 2)
        /\ \A j \in DOMAIN published : published'[j] = published[j]
        /\ published'[n + 1] = <<"UpPacket", h>>
        /\ k = n + 2 => published'[n + 2] = <<"UpCommand", h>>
    BY <1>1, <1>2, HandledAdds
  <1> HIDE DEF n, k
  <1>5. \A j \in DOMAIN published' :
          \/ j \in DOMAIN published /\ j <= n
          \/ j = n + 1
          \/ j = n + 2 /\ k = n + 2
    BY <1>4
  <1>6. TypeOK'
    BY <1>1, <1>2, <1>4 DEF TypeOK, actor
  <1>7. CommandsFollowPackets'
    <2> SUFFICES ASSUME NEW i \in DOMAIN published', published'[i][1] = "UpCommand"
                 PROVE  i > 1 /\ published'[i - 1] = <<"UpPacket", published'[i][2]>>
      BY DEF CommandsFollowPackets
    <2>1. CASE i \in DOMAIN published
      <3>1. published[i][1] = "UpCommand" /\ i > 1 /\ published[i - 1] = <<"UpPacket", published[i][2]>>
        BY <1>4, <2>1 DEF CommandsFollowPackets
      <3>2. i - 1 \in DOMAIN published
        BY <1>4, <2>1, <3>1
      <3> QED BY <1>4, <2>1, <3>1, <3>2
    <2>2. CASE i = n + 1
      BY <1>4, <2>2
    <2>3. CASE i = n + 2 /\ k = n + 2
      <3>1. i > 1 /\ i - 1 = n + 1
        BY <1>4, <2>3
      <3> QED BY <1>4, <2>3, <3>1
    <2> QED BY <1>5, <2>1, <2>2, <2>3
  <1>8. Seen' = Seen \cup {h} /\ Touched' \subseteq Touched \cup {h}
    <2>1. ToSet(published') = ToSet(published) \cup {published'[j] : j \in (n + 1)..k}
      <3>1. DOMAIN published' = DOMAIN published \cup ((n + 1)..k)
        BY <1>4
      <3> QED BY <1>4, <3>1 DEF ToSet
    <2>2. \A j \in (n + 1)..k : j = n + 1 \/ (j = n + 2 /\ k = n + 2)
      BY <1>4
    <2>3. n + 1 \in (n + 1)..k
      BY <1>4
    <2>4. /\ <<"UpPacket", h>> \in ToSet(published')
          /\ ToSet(published) \subseteq ToSet(published')
          /\ \A m \in ToSet(published') :
               m \in ToSet(published) \/ m = <<"UpPacket", h>> \/ m = <<"UpCommand", h>>
      BY <1>4, <2>1, <2>2, <2>3
    <2> QED BY <2>4 DEF Seen, Touched
  <1>9. /\ h \notin Seen /\ h \notin ToSet(queue') /\ accepted[h].socket = Open /\ Open' = Open
        /\ Before(Seen, {h})
    <2>1. h \notin Seen /\ accepted[h].socket = Open
      BY <1>2 DEF LostAreLast
    <2>2. h \notin ToSet(queue') /\ Before(Seen, {h})
      BY <1>1, <1>2, <1>3, Types DEF HandledFirst, Before
    <2> QED BY <1>1, <2>1, <2>2 DEF Open, actor
  <1>10. HandledFirst'
    BY <1>2, <1>3, <1>8, <1>9 DEF HandledFirst, Before
  <1>11. LostAreLast'
    <2>1. ASSUME NEW j \in DOMAIN published', NEW l \in DOMAIN published', j < l,
                 published'[j][1] = published'[l][1]
          PROVE  published'[j][2] < published'[l][2]
      <3>1. CASE l \in DOMAIN published
        <4>1. j \in DOMAIN published
          BY <1>4, <1>5, <2>1, <3>1
        <4> QED BY <1>4, <2>1, <3>1, <4>1 DEF LostAreLast
      <3>2. CASE l \notin DOMAIN published /\ j \in DOMAIN published
        <4>1. published'[l][2] = h
          BY <1>4, <1>5, <3>2
        <4>2. published'[j][2] \in Touched
          BY <1>4, <3>2 DEF Touched, ToSet
        <4> QED BY <1>9, <4>1, <4>2 DEF HandledFirst, Before
      <3>3. CASE l \notin DOMAIN published /\ j \notin DOMAIN published
        <4>1. j = n + 1 /\ l = n + 2 /\ k = n + 2
          BY <1>4, <1>5, <2>1, <3>3
        <4> QED BY <1>4, <2>1, <4>1
      <3> QED BY <3>1, <3>2, <3>3
    <2>2. ASSUME NEW i \in Seen', NEW m \in DOMAIN accepted,
                 m < i, accepted[m].socket = accepted[i].socket
          PROVE  m \in Seen'
      <3>1. CASE i \in Seen
        BY <1>8, <2>2, <3>1 DEF LostAreLast
      <3>2. CASE i = h
        <4>1. m \in Seen \/ m \in ToSet(queue)
          BY <1>9, <2>2, <3>2 DEF LostAreLast
        <4>2. m \notin ToSet(queue')
          BY <1>2, <1>3, <2>2, <3>2, Types DEF Before
        <4> QED BY <1>2, <1>8, <4>1, <4>2
      <3> QED BY <1>8, <3>1, <3>2
    <2>3. ToSet(queue') = {i \in DOMAIN accepted : accepted[i].socket = Open} \ Seen'
      <3>1. ToSet(queue) = {i \in DOMAIN accepted : accepted[i].socket = Open} \ Seen
        BY DEF LostAreLast
      <3> QED BY <1>2, <1>8, <1>9, <3>1
    <2> QED BY <1>1, <1>3, <1>9, <2>1, <2>2, <2>3 DEF LostAreLast, Ordered
  <1> QED BY <1>1, <1>6, <1>7, <1>10, <1>11 DEF SocketsInTurn

LEMMA InvStep == Inv /\ [Next]_vars => Inv'
  <1> SUFFICES ASSUME Inv, [Next]_vars PROVE Inv'
    OBVIOUS
  <1> USE DEF Inv, actor
  <1>1. CASE ProcessStart \/ Unlink \/ BindFails
    BY <1>1, QuietStep DEF ProcessStart, Unlink, BindFails, Open, TypeOK
  <1>2. CASE ProcessExit \/ RecvFails
    BY <1>2, SocketStep DEF ProcessExit, RecvFails, Close, Open, TypeOK
  <1>3. CASE BindOk
    BY <1>3, SocketStep DEF BindOk, Close, Open, TypeOK
  <1>4. CASE Stray
    BY <1>4, AcceptStep DEF Stray
  <1>5. ASSUME NEW c \in Consoles, Send(c) PROVE Inv'
    BY <1>5, AcceptStep DEF Send
  <1>6. ASSUME NEW c \in Consoles,
               \/ Probe(c) \/ ConnectOk(c) \/ ConnectFails(c)
               \/ SendFails(c) \/ ExecSelf(c) \/ Quit(c) \/ Launch(c)
        PROVE  Inv'
    <2>1. UNCHANGED <<actor, queue, accepted, published>>
      BY <1>6 DEF Probe, ConnectOk, ConnectFails, SendFails, ExecSelf, Quit, Launch
    <2>2. console' \in [Consoles -> {"connecting", "probed", "ready", "gone"}]
      BY <1>6 DEF Probe, ConnectOk, ConnectFails, SendFails, ExecSelf, Quit, Launch, Goes, TypeOK
    <2>3. peer' \in [Consoles -> 0..sockets]
      <3>1. path \in 0..sockets /\ 0 \in 0..sockets /\ peer \in [Consoles -> 0..sockets]
        BY DEF TypeOK
      <3>2. \/ peer' = peer
            \/ \E p \in 0..sockets : peer' = [peer EXCEPT ![c] = p]
        BY <1>6, <3>1 DEF Probe, ConnectOk, ConnectFails, SendFails, ExecSelf, Quit, Launch
      <3> QED BY <3>1, <3>2
    <2> QED BY <2>1, <2>2, <2>3, QuietStep DEF Open, TypeOK
  <1>7. CASE UNCHANGED vars
    BY <1>7, QuietStep DEF vars, Open, TypeOK
  <1> QED BY <1>1, <1>2, <1>3, <1>4, <1>5, <1>6, <1>7, ReceiveStep DEF Next

-----------------------------------------------------------------------------
(* The theorems.                                                            *)

\* Each command is published right after the datagram it came in, whatever is
\* received and however often the socket and the process go.
THEOREM UplinkIsSafe == Spec => []UplinkInv
  <1>1. Inv => UplinkInv
    BY DEF Inv, UplinkInv
  <1> QED BY <1>1, InvInit, InvStep, PTL DEF Spec

\* Datagrams are published in the order they were accepted and none twice, and
\* only a socket that is closed loses any, the last it accepted.
THEOREM LossIsAtTheEnd == Spec => []LostAreLast
  <1>1. Inv => LostAreLast
    BY DEF Inv
  <1> QED BY <1>1, InvInit, InvStep, PTL DEF Spec

=============================================================================
