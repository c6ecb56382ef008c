---------------------------- MODULE CodecsProofs ----------------------------
(***************************************************************************)
(* Proofs about Codecs, for any streams of frames and of items, however    *)
(* many, in whatever pieces their bytes arrive.  COBS gives back every     *)
(* message that was encoded, and every frame gives its message once; the   *)
(* delimiter codec splits a stream at its delimiters and gives back the    *)
(* items that were encoded.                                                *)
(***************************************************************************)
EXTENDS Codecs, Integers, SequenceTheorems, WellFoundedInduction, TLAPS

-----------------------------------------------------------------------------
(* Least elements.                                                          *)

\* Every set of naturals that is not empty has a least element.
LEMMA LeastOf ==
    ASSUME NEW T, T \subseteq Nat, T # {}
    PROVE  \E x \in T : \A y \in T : x <= y
  <1> DEFINE R == OpToRel(<, Nat)
  <1>1. IsWellFoundedOn(R, Nat)
    BY NatLessThanWellFounded
  <1>2. \A m, n \in Nat : m < n => <<m, n>> \in R
    BY DEF OpToRel
  <1> HIDE DEF R
  <1>3. \E x \in T : \A y \in T : ~ (<<y, x>> \in R)
    BY <1>1, WFMin
  <1>4. PICK x \in T : \A y \in T : ~ (<<y, x>> \in R)
    BY <1>3
  <1>5. \A y \in T : ~(y < x)
    BY <1>2, <1>4
  <1>6. \A y \in T : x <= y
    BY <1>5
  <1> QED BY <1>6

\* Min gives that element.
LEMMA MinOf ==
    ASSUME NEW T, T \subseteq Nat, T # {}
    PROVE  Min(T) \in T /\ \A y \in T : Min(T) <= y
  BY LeastOf DEF Min

\* The first zero, if there is one.
LEMMA FirstZeroFacts ==
    ASSUME NEW s \in Seq(Nat)
    PROVE  /\ FirstZero(s) \in 0..Len(s)
           /\ FirstZero(s) = 0 <=> \A i \in 1..Len(s) : s[i] # 0
           /\ FirstZero(s) # 0 => /\ s[FirstZero(s)] = 0
                                  /\ \A i \in 1..FirstZero(s) - 1 : s[i] # 0
  <1> DEFINE Z == {i \in 1..Len(s) : s[i] = 0}
  <1>1. FirstZero(s) = IF Z # {} THEN Min(Z) ELSE 0
    BY DEF FirstZero, SelectInSeq
  <1>2. Z \subseteq Nat /\ Len(s) \in Nat
    OBVIOUS
  <1>3. Z = {} <=> \A i \in 1..Len(s) : s[i] # 0
    OBVIOUS
  <1>4. ASSUME Z # {}
        PROVE  /\ Min(Z) \in 1..Len(s) /\ s[Min(Z)] = 0
               /\ \A i \in 1..Min(Z) - 1 : s[i] # 0
    <2> DEFINE z == Min(Z)
    <2>1. z \in Z /\ \A y \in Z : z <= y
      BY <1>2, <1>4, MinOf
    <2> HIDE DEF z
    <2>2. z \in 1..Len(s) /\ s[z] = 0 /\ \A i \in 1..Len(s) : s[i] = 0 => z <= i
      BY <2>1
    <2>3. \A i \in 1..z - 1 : i \in 1..Len(s) /\ ~(z <= i)
      BY <1>2, <2>2
    <2> QED BY <2>2, <2>3 DEF z
  <1> HIDE DEF Z
  <1> QED BY <1>1, <1>2, <1>3, <1>4

-----------------------------------------------------------------------------
(* Parts of sequences.                                                      *)

\* What SubSeq gives.
LEMMA Part ==
    ASSUME NEW S, NEW s \in Seq(S), NEW m \in Nat, NEW n \in Nat, 0 < m, m <= n + 1, n <= Len(s)
    PROVE  /\ SubSeq(s, m, n) \in Seq(S) /\ Len(SubSeq(s, m, n)) = n - m + 1
           /\ \A i \in 1..n - m + 1 : SubSeq(s, m, n)[i] = s[m + i - 1]
  <1>1. \A i \in m..n : s[i] \in S
    OBVIOUS
  <1> QED BY <1>1, SubSeqProperties

\* What is left when the first n elements are gone.
LEMMA RestOf ==
    ASSUME NEW S, NEW s \in Seq(S), NEW n \in 0..Len(s)
    PROVE  /\ Rest(s, n) \in Seq(S) /\ Len(Rest(s, n)) = Len(s) - n
           /\ \A i \in 1..Len(s) - n : Rest(s, n)[i] = s[n + i]
  <1> DEFINE m == n + 1  k == Len(s)  t == SubSeq(s, m, k)
  <1>1. m \in Nat /\ k \in Nat /\ 0 < m /\ m <= k + 1 /\ k <= Len(s)
    OBVIOUS
  <1>2. /\ t \in Seq(S) /\ Len(t) = k - m + 1
        /\ \A i \in 1..k - m + 1 : t[i] = s[m + i - 1]
    BY <1>1, Part
  <1> HIDE DEF t
  <1>3. \A i \in 1..Len(s) - n : i \in 1..k - m + 1 /\ m + i - 1 = n + i
    OBVIOUS
  <1>4. t \in Seq(S) /\ Len(t) = Len(s) - n /\ \A i \in 1..Len(s) - n : t[i] = s[n + i]
    BY <1>2, <1>3
  <1> QED BY <1>4 DEF t, Rest

\* t is what is after the first p elements of W, up to the k-th.
IsPart(t, W, p, k) == t \in Seq(Nat) /\ Len(t) = k - p /\ \A j \in 1..k - p : t[j] = W[p + j]

\* As SubSeq gives it.
LEMMA PartAfter ==
    ASSUME NEW W \in Seq(Nat), NEW p \in Nat, NEW k \in Nat, p <= k, k <= Len(W)
    PROVE  IsPart(SubSeq(W, p + 1, k), W, p, k)
  <1> DEFINE m == p + 1  new == SubSeq(W, m, k)
  <1>1. m \in Nat /\ 0 < m /\ m <= k + 1 /\ k - m + 1 = k - p /\ \A j \in 1..k - p : m + j - 1 = p + j
    OBVIOUS
  <1> HIDE DEF m
  <1>2. new \in Seq(Nat) /\ Len(new) = k - m + 1 /\ \A j \in 1..k - m + 1 : new[j] = W[m + j - 1]
    BY <1>1, Part
  <1> HIDE DEF new
  <1>3. new \in Seq(Nat) /\ Len(new) = k - p /\ \A j \in 1..k - p : new[j] = W[p + j]
    BY <1>1, <1>2
  <1> QED BY <1>3 DEF new, m, IsPart

\* A block of a code and its data, and what comes after it.
LEMMA BlockOf ==
    ASSUME NEW S, NEW c \in S, NEW d \in Seq(S), NEW e \in Seq(S), NEW b, b = <<c>> \o d \o e
    PROVE  /\ b \in Seq(S) /\ Len(b) = 1 + Len(d) + Len(e) /\ b[1] = c
           /\ \A j \in 1..Len(d) : b[1 + j] = d[j]
           /\ \A j \in 1..Len(e) : b[1 + Len(d) + j] = e[j]
  <1> DEFINE h == <<c>>  a == h \o d  t == a \o e
  <1>0. b = t
    OBVIOUS
  <1>1. h \in Seq(S) /\ Len(h) = 1 /\ h[1] = c /\ Len(d) \in Nat /\ Len(e) \in Nat
    OBVIOUS
  <1> HIDE DEF h
  <1>2. /\ a \in Seq(S) /\ Len(a) = 1 + Len(d)
        /\ \A i \in 1..1 + Len(d) : a[i] = IF i <= 1 THEN h[i] ELSE d[i - 1]
    <2>1. /\ a \in Seq(S) /\ Len(a) = Len(h) + Len(d)
          /\ \A i \in 1..Len(h) + Len(d) : a[i] = IF i <= Len(h) THEN h[i] ELSE d[i - Len(h)]
      BY <1>1, ConcatProperties
    <2> QED BY <1>1, <2>1
  <1> HIDE DEF a
  <1>3. a[1] = c /\ \A j \in 1..Len(d) : a[1 + j] = d[j]
    <2>1. 1 \in 1..1 + Len(d) /\ \A j \in 1..Len(d) : 1 + j \in 1..1 + Len(d) /\ ~(1 + j <= 1) /\ (1 + j) - 1 = j
      BY <1>1
    <2> QED BY <1>1, <1>2, <2>1
  <1>4. /\ t \in Seq(S) /\ Len(t) = Len(a) + Len(e)
        /\ \A i \in 1..Len(a) + Len(e) : t[i] = IF i <= Len(a) THEN a[i] ELSE e[i - Len(a)]
    BY <1>2, ConcatProperties
  <1> HIDE DEF t
  <1>5. t[1] = c /\ \A j \in 1..Len(d) : t[1 + j] = d[j]
    <2>1. 1 \in 1..Len(a) + Len(e) /\ 1 <= Len(a)
      BY <1>1, <1>2
    <2>2. \A j \in 1..Len(d) : 1 + j \in 1..Len(a) + Len(e) /\ 1 + j <= Len(a)
      BY <1>1, <1>2
    <2> QED BY <1>3, <1>4, <2>1, <2>2
  <1>6. \A j \in 1..Len(e) : t[1 + Len(d) + j] = e[j]
    <2>1. \A j \in 1..Len(e) : /\ 1 + Len(d) + j \in 1..Len(a) + Len(e) /\ ~(1 + Len(d) + j <= Len(a))
                               /\ (1 + Len(d) + j) - Len(a) = j
      BY <1>1, <1>2
    <2> QED BY <1>4, <2>1
  <1>7. Len(t) = 1 + Len(d) + Len(e)
    BY <1>2, <1>4
  <1> QED BY <1>0, <1>4, <1>5, <1>6, <1>7

-----------------------------------------------------------------------------
(* Recursion from the end of a sequence to its beginning.                   *)

\* What holds at a place if it does at all later ones holds everywhere.
LEMMA Backwards ==
    ASSUME NEW N \in Nat, NEW S,
           \A i \in 1..N + 1 : (\A j \in 1..N + 1 : i < j => j \in S) => i \in S
    PROVE  \A i \in 1..N + 1 : i \in S
  <1> DEFINE T == {k \in 0..N : N + 1 - k \notin S}
  <1>1. T \subseteq Nat
    OBVIOUS
  <1>2. SUFFICES ASSUME T # {} PROVE FALSE
    <2> SUFFICES ASSUME T = {}, NEW i \in 1..N + 1 PROVE i \in S
      OBVIOUS
    <2> DEFINE k == N + 1 - i
    <2>1. k \in 0..N /\ N + 1 - k = i
      OBVIOUS
    <2>2. k \notin T
      OBVIOUS
    <2> HIDE DEF k
    <2> QED BY <2>1, <2>2
  <1>3. PICK k \in T : \A y \in T : k <= y
    BY <1>1, <1>2, LeastOf
  <1>4. ASSUME NEW j \in 1..N + 1, N + 1 - k < j PROVE j \in S
    <2>1. N + 1 - j \in 0..N /\ N + 1 - (N + 1 - j) = j /\ ~(k <= N + 1 - j)
      BY <1>3, <1>4
    <2> QED BY <1>3, <2>1
  <1>5. N + 1 - k \in 1..N + 1
    BY <1>3
  <1> QED BY <1>3, <1>4, <1>5

-----------------------------------------------------------------------------
(* The crate.                                                               *)

Report == [ok : BOOLEAN, msg : Seq(Nat)]

\* What a code says of the bytes that follow.
DecodeZero(b, i) == IF b[i] = MaxCode \/ i + b[i] > Len(b) THEN <<>> ELSE <<0>>
DecodeBlock(b, g, i) ==
    IF i > Len(b) THEN [ok |-> TRUE, msg |-> <<>>]
    ELSE IF i + b[i] > Len(b) + 1
    THEN [ok |-> FALSE, msg |-> Rest(b, i)]
    ELSE LET next == i + b[i]
             zero == IF b[i] = MaxCode \/ next > Len(b) THEN <<>> ELSE <<0>>
         IN  Prefixed(SubSeq(b, i + 1, next - 1) \o zero, g[next])

\* The three cases of what is decoded at a place.
LEMMA DecodeCases ==
    ASSUME NEW b, NEW g, NEW i
    PROVE  /\ i > Len(b) => DecodeBlock(b, g, i) = [ok |-> TRUE, msg |-> <<>>]
           /\ ~(i > Len(b)) /\ i + b[i] > Len(b) + 1 =>
                DecodeBlock(b, g, i) = [ok |-> FALSE, msg |-> Rest(b, i)]
           /\ ~(i > Len(b)) /\ ~(i + b[i] > Len(b) + 1) =>
                DecodeBlock(b, g, i) =
                  Prefixed(SubSeq(b, i + 1, (i + b[i]) - 1) \o DecodeZero(b, i), g[i + b[i]])
  BY DEF DecodeBlock, DecodeZero

\* Reports of bytes.
LEMMA ReportOf ==
    ASSUME NEW m \in Seq(Nat)
    PROVE  [ok |-> TRUE, msg |-> m] \in Report /\ [ok |-> FALSE, msg |-> m] \in Report
  BY DEF Report

\* What Prefixed changes.
LEMMA PrefixedReport ==
    ASSUME NEW r \in Report, NEW d \in Seq(Nat)
    PROVE  Prefixed(d, r) \in Report /\ Prefixed(d, r) = [ok |-> r.ok, msg |-> d \o r.msg]
  <1> DEFINE m == d \o r.msg
  <1>1. m \in Seq(Nat)
    BY ConcatProperties DEF Report
  <1>2. Prefixed(d, r) = [r EXCEPT !.msg = m]
    BY DEF Prefixed
  <1> HIDE DEF m
  <1>3. [r EXCEPT !.msg = m] = [ok |-> r.ok, msg |-> m] /\ [ok |-> r.ok, msg |-> m] \in Report
    BY <1>1 DEF Report
  <1> QED BY <1>2, <1>3 DEF m

\* What the bytes decode to at a place depends on the places after it only.
LEMMA DecodeLooksAhead ==
    ASSUME NEW b \in Seq(Nat \ {0}), NEW g, NEW h, NEW i \in 1..Len(b) + 1,
           \A j \in 1..Len(b) + 1 : i < j => g[j] = h[j]
    PROVE  DecodeBlock(b, g, i) = DecodeBlock(b, h, i)
  <1>1. CASE i > Len(b)
    BY <1>1 DEF DecodeBlock
  <1>2. CASE i <= Len(b)
    <2>1. b[i] \in Nat /\ b[i] > 0 /\ Len(b) \in Nat
      BY <1>2, ElementOfSeq
    <2>2. CASE i + b[i] > Len(b) + 1
      BY <1>2, <2>2 DEF DecodeBlock
    <2>3. CASE ~(i + b[i] > Len(b) + 1)
      <3>1. i + b[i] \in 1..Len(b) + 1 /\ i < i + b[i]
        BY <2>1, <2>3
      <3>2. g[i + b[i]] = h[i + b[i]]
        BY <3>1
      <3>3. ~(i > Len(b))
        BY <1>2, <2>1
      <3> QED BY <2>3, <3>2, <3>3 DEF DecodeBlock
    <2> QED BY <2>2, <2>3
  <1> QED BY <1>1, <1>2

\* DecodeFrom is what its definition says, since each block is followed by later ones.
LEMMA DecodeIsDefined ==
    ASSUME NEW b \in Seq(Nat \ {0})
    PROVE  DecodeFrom(b) = [i \in 1..Len(b) + 1 |-> DecodeBlock(b, DecodeFrom(b), i)]
  <1> DEFINE N == Len(b)
             S == {n \in 1..N + 1 : \E g : g = [i \in n..N + 1 |-> DecodeBlock(b, g, i)]}
  <1>1. N \in Nat
    OBVIOUS
  <1>2. ASSUME NEW n \in 1..N + 1, \A j \in 1..N + 1 : n < j => j \in S
        PROVE  n \in S
    <2>1. \E g : \A i \in n + 1..N + 1 : g[i] = DecodeBlock(b, g, i)
      <3>1. CASE n = N + 1
        BY <1>1, <3>1
      <3>2. CASE n # N + 1
        <4>1. n + 1 \in 1..N + 1 /\ n < n + 1
          BY <1>1, <3>2
        <4>2. PICK g : g = [i \in n + 1..N + 1 |-> DecodeBlock(b, g, i)]
          BY <1>2, <4>1
        <4>3. \A i \in n + 1..N + 1 : g[i] = DecodeBlock(b, g, i)
          BY <4>2
        <4> QED BY <4>3
      <3> QED BY <3>1, <3>2
    <2>2. PICK g : \A i \in n + 1..N + 1 : g[i] = DecodeBlock(b, g, i)
      BY <2>1
    <2> DEFINE h == [i \in n..N + 1 |-> DecodeBlock(b, g, i)]
    <2>3. \A i \in n + 1..N + 1 : h[i] = g[i]
      BY <1>1, <2>2
    <2>4. ASSUME NEW i \in n..N + 1 PROVE DecodeBlock(b, g, i) = DecodeBlock(b, h, i)
      <3> HIDE DEF h
      <3>1. i \in 1..Len(b) + 1 /\ \A j \in 1..Len(b) + 1 : i < j => g[j] = h[j]
        BY <1>1, <2>3
      <3> QED BY <3>1, DecodeLooksAhead
    <2>5. h = [i \in n..N + 1 |-> DecodeBlock(b, h, i)]
      BY <2>4
    <2> HIDE DEF h
    <2> QED BY <2>5
  <1>3. 1 \in S
    <2> HIDE DEF S
    <2>1. \A i \in 1..N + 1 : i \in S
      BY <1>1, <1>2, Backwards
    <2> QED BY <1>1, <2>1
  <1>4. \E g : g = [i \in 1..N + 1 |-> DecodeBlock(b, g, i)]
    BY <1>3
  <1>5. DecodeFrom(b) = CHOOSE g : g = [i \in 1..N + 1 |-> DecodeBlock(b, g, i)]
    BY DEF DecodeFrom, DecodeBlock
  <1> QED BY <1>4, <1>5

\* Whatever the bytes, a report says whether they are a frame, and gives bytes.
LEMMA DecodeTypes ==
    ASSUME NEW b \in Seq(Nat \ {0})
    PROVE  \A i \in 1..Len(b) + 1 : DecodeFrom(b)[i] \in Report
  <1> DEFINE N == Len(b)  D == DecodeFrom(b)  S == {i \in 1..N + 1 : D[i] \in Report}
  <1>1. N \in Nat /\ b \in Seq(Nat)
    BY SeqMonotonic
  <1>2. \A i \in 1..N + 1 : D[i] = DecodeBlock(b, D, i)
    BY DecodeIsDefined
  <1> HIDE DEF D
  <1>3. ASSUME NEW i \in 1..N + 1, \A j \in 1..N + 1 : i < j => j \in S
        PROVE  D[i] \in Report
    <2>0. D[i] = DecodeBlock(b, D, i)
      BY <1>2
    <2>1. CASE i > N
      <3>1. D[i] = [ok |-> TRUE, msg |-> <<>>]
        BY <2>0, <2>1, DecodeCases
      <3>2. <<>> \in Seq(Nat)
        BY EmptySeq
      <3> QED BY <3>1, <3>2, ReportOf
    <2>2. CASE ~(i > N)
      <3>1. b[i] \in Nat /\ b[i] > 0 /\ i <= N
        BY <1>1, <2>2, ElementOfSeq
      <3>2. CASE i + b[i] > N + 1
        <4>1. D[i] = [ok |-> FALSE, msg |-> Rest(b, i)]
          BY <2>0, <2>2, <3>2, DecodeCases
        <4>2. i \in 0..Len(b)
          BY <1>1, <3>1
        <4>3. Rest(b, i) \in Seq(Nat)
          BY <1>1, <4>2, RestOf
        <4> QED BY <4>1, <4>3, ReportOf
      <3>3. CASE ~(i + b[i] > N + 1)
        <4> DEFINE next == i + b[i]
                   zero == DecodeZero(b, i)
                   data == SubSeq(b, i + 1, next - 1)
        <4>1. next \in 1..N + 1 /\ i < next
          BY <1>1, <3>1, <3>3
        <4>2. D[next] \in Report
          BY <1>3, <4>1
        <4>3. data \in Seq(Nat)
          <5>1. i + 1 \in Nat /\ next - 1 \in Nat /\ 0 < i + 1 /\ i + 1 <= next - 1 + 1 /\ next - 1 <= Len(b)
            BY <1>1, <4>1, SMTT(30)
          <5> QED BY <1>1, <5>1, Part
        <4>4. zero \in Seq(Nat)
          BY EmptySeq DEF DecodeZero
        <4>5. D[i] = Prefixed(data \o zero, D[next])
          BY <2>0, <2>2, <3>3, DecodeCases
        <4> HIDE DEF next, zero, data
        <4>6. data \o zero \in Seq(Nat)
          BY <4>3, <4>4, ConcatProperties
        <4> QED BY <4>2, <4>5, <4>6, PrefixedReport
      <3> QED BY <3>2, <3>3
    <2> QED BY <2>1, <2>2
  <1>4. \A i \in 1..N + 1 : (\A j \in 1..N + 1 : i < j => j \in S) => i \in S
    BY <1>3
  <1> HIDE DEF S
  <1>5. \A i \in 1..N + 1 : i \in S
    BY <1>1, <1>4, Backwards
  <1> QED BY <1>5 DEF S, D

\* The block at a place: none of its bytes is zero, and why it ends where it does.
LEMMA BlockFacts ==
    ASSUME NEW msg \in Seq(Byte), NEW i \in 1..Len(msg) + 1
    PROVE  /\ BlockLen(msg, i) \in 0..MaxCode - 1 /\ i + BlockLen(msg, i) <= Len(msg) + 1
           /\ \A j \in 0..BlockLen(msg, i) - 1 : i + j \in 1..Len(msg) /\ msg[i + j] # 0
           /\ \/ BlockLen(msg, i) = MaxCode - 1
              \/ i + BlockLen(msg, i) > Len(msg)
              \/ msg[i + BlockLen(msg, i)] = 0
  <1> DEFINE N == Len(msg)
             B == {n \in 0..MaxCode - 1 : n = MaxCode - 1 \/ i + n > N \/ msg[i + n] = 0}
             n == Min(B)
  <1>1. N \in Nat /\ MaxCode \in Nat /\ MaxCode > 1
    BY CodeAssumption
  <1>2. B \subseteq Nat /\ MaxCode - 1 \in B
    BY <1>1
  <1>3. n \in B /\ \A y \in B : n <= y
    BY <1>2, MinOf
  <1>4. n = BlockLen(msg, i)
    BY DEF BlockLen
  <1> HIDE DEF n
  <1>5. n \in 0..MaxCode - 1 /\ (n = MaxCode - 1 \/ i + n > N \/ msg[i + n] = 0)
    BY <1>3
  <1>6. \A j \in 0..n - 1 : j \in 0..MaxCode - 1 /\ ~(n <= j)
    BY <1>1, <1>5
  <1>7. \A j \in 0..n - 1 : j \notin B
    BY <1>3, <1>6
  <1>8. \A j \in 0..n - 1 : ~(i + j > N) /\ msg[i + j] # 0
    BY <1>6, <1>7
  <1>9. \A j \in 0..n - 1 : i + j \in 1..N /\ msg[i + j] # 0
    BY <1>1, <1>8
  <1>10. i + n <= N + 1
    <2>1. CASE n = 0
      BY <1>1, <2>1
    <2>2. CASE n # 0
      <3>1. n - 1 \in 0..n - 1
        BY <1>5, <2>2
      <3>2. i + (n - 1) \in 1..N
        BY <1>9, <3>1
      <3> QED BY <1>1, <1>5, <3>2
    <2> QED BY <2>1, <2>2
  <1> QED BY <1>4, <1>5, <1>9, <1>10

EncodeNext(msg, i) ==
    IF BlockLen(msg, i) = MaxCode - 1 THEN i + BlockLen(msg, i) ELSE i + BlockLen(msg, i) + 1
EncodeBlock(msg, g, i) ==
    LET n == BlockLen(msg, i) IN
    IF n < MaxCode - 1 /\ i + n > Len(msg)
    THEN <<n + 1>> \o SubSeq(msg, i, Len(msg))
    ELSE <<n + 1>> \o SubSeq(msg, i, (i + n) - 1)
             \o g[IF n = MaxCode - 1 THEN i + n ELSE i + n + 1]

\* The last block and any other.
LEMMA EncodeCases ==
    ASSUME NEW msg, NEW g, NEW i
    PROVE  /\ BlockLen(msg, i) < MaxCode - 1 /\ i + BlockLen(msg, i) > Len(msg) =>
                EncodeBlock(msg, g, i) = <<BlockLen(msg, i) + 1>> \o SubSeq(msg, i, Len(msg))
           /\ ~(BlockLen(msg, i) < MaxCode - 1 /\ i + BlockLen(msg, i) > Len(msg)) =>
                EncodeBlock(msg, g, i) = <<BlockLen(msg, i) + 1>>
                    \o SubSeq(msg, i, (i + BlockLen(msg, i)) - 1) \o g[EncodeNext(msg, i)]
  BY DEF EncodeBlock, EncodeNext

\* The block after a block begins later.
LEMMA EncodeGoesOn ==
    ASSUME NEW msg \in Seq(Byte), NEW i \in 1..Len(msg) + 1,
           ~(BlockLen(msg, i) < MaxCode - 1 /\ i + BlockLen(msg, i) > Len(msg))
    PROVE  EncodeNext(msg, i) \in 1..Len(msg) + 1 /\ i < EncodeNext(msg, i)
  <1> DEFINE n == BlockLen(msg, i)
  <1>1. n \in 0..MaxCode - 1 /\ i + n <= Len(msg) + 1
    BY BlockFacts
  <1>2. EncodeNext(msg, i) = IF n = MaxCode - 1 THEN i + n ELSE i + n + 1
    BY DEF EncodeNext
  <1>3. ~(n < MaxCode - 1 /\ i + n > Len(msg))
    OBVIOUS
  <1> HIDE DEF n
  <1>4. Len(msg) \in Nat /\ MaxCode \in Nat /\ MaxCode > 1
    BY CodeAssumption
  <1> QED BY <1>1, <1>2, <1>3, <1>4

\* What a message encodes to at a place depends on the places after it only.
LEMMA EncodeLooksAhead ==
    ASSUME NEW msg \in Seq(Byte), NEW g, NEW h, NEW i \in 1..Len(msg) + 1,
           \A j \in 1..Len(msg) + 1 : i < j => g[j] = h[j]
    PROVE  EncodeBlock(msg, g, i) = EncodeBlock(msg, h, i)
  <1> DEFINE n == BlockLen(msg, i)
  <1>1. CASE n < MaxCode - 1 /\ i + n > Len(msg)
    BY <1>1, EncodeCases, ZenonT(40)
  <1>2. CASE ~(n < MaxCode - 1 /\ i + n > Len(msg))
    <2>1. EncodeNext(msg, i) \in 1..Len(msg) + 1 /\ i < EncodeNext(msg, i)
      BY <1>2, EncodeGoesOn
    <2>2. g[EncodeNext(msg, i)] = h[EncodeNext(msg, i)]
      BY <2>1
    <2> DEFINE block == <<n + 1>> \o SubSeq(msg, i, (i + n) - 1)
    <2>3. /\ EncodeBlock(msg, g, i) = block \o g[EncodeNext(msg, i)]
          /\ EncodeBlock(msg, h, i) = block \o h[EncodeNext(msg, i)]
      BY <1>2, EncodeCases
    <2> HIDE DEF block
    <2> QED BY <2>2, <2>3
  <1> QED BY <1>1, <1>2

\* EncodeFrom is what its definition says, since each block is followed by later ones.
LEMMA EncodeIsDefined ==
    ASSUME NEW msg \in Seq(Byte)
    PROVE  EncodeFrom(msg) = [i \in 1..Len(msg) + 1 |-> EncodeBlock(msg, EncodeFrom(msg), i)]
  <1> DEFINE N == Len(msg)
             S == {n \in 1..N + 1 : \E g : g = [i \in n..N + 1 |-> EncodeBlock(msg, g, i)]}
  <1>1. N \in Nat
    OBVIOUS
  <1>2. ASSUME NEW n \in 1..N + 1, \A j \in 1..N + 1 : n < j => j \in S
        PROVE  n \in S
    <2>1. \E g : \A i \in n + 1..N + 1 : g[i] = EncodeBlock(msg, g, i)
      <3>1. CASE n = N + 1
        BY <1>1, <3>1
      <3>2. CASE n # N + 1
        <4>1. n + 1 \in 1..N + 1 /\ n < n + 1
          BY <1>1, <3>2
        <4>2. PICK g : g = [i \in n + 1..N + 1 |-> EncodeBlock(msg, g, i)]
          BY <1>2, <4>1
        <4>3. \A i \in n + 1..N + 1 : g[i] = EncodeBlock(msg, g, i)
          BY <4>2
        <4> QED BY <4>3
      <3> QED BY <3>1, <3>2
    <2>2. PICK g : \A i \in n + 1..N + 1 : g[i] = EncodeBlock(msg, g, i)
      BY <2>1
    <2> DEFINE h == [i \in n..N + 1 |-> EncodeBlock(msg, g, i)]
    <2>3. \A i \in n + 1..N + 1 : h[i] = g[i]
      BY <1>1, <2>2
    <2>4. ASSUME NEW i \in n..N + 1 PROVE EncodeBlock(msg, g, i) = EncodeBlock(msg, h, i)
      <3> HIDE DEF h
      <3>1. i \in 1..Len(msg) + 1 /\ \A j \in 1..Len(msg) + 1 : i < j => g[j] = h[j]
        BY <1>1, <2>3
      <3> QED BY <3>1, EncodeLooksAhead
    <2>5. h = [i \in n..N + 1 |-> EncodeBlock(msg, h, i)]
      BY <2>4
    <2> HIDE DEF h
    <2> QED BY <2>5
  <1>3. 1 \in S
    <2> HIDE DEF S
    <2>1. \A i \in 1..N + 1 : i \in S
      BY <1>1, <1>2, Backwards
    <2> QED BY <1>1, <2>1
  <1>4. \E g : g = [i \in 1..N + 1 |-> EncodeBlock(msg, g, i)]
    BY <1>3
  <1>5. EncodeFrom(msg) = CHOOSE g : g = [i \in 1..N + 1 |-> EncodeBlock(msg, g, i)]
    BY DEF EncodeFrom, EncodeBlock
  <1> QED BY <1>4, <1>5

\* The data of a block, and its code.
LEMMA BlockData ==
    ASSUME NEW msg \in Seq(Byte), NEW i \in 1..Len(msg) + 1
    PROVE  /\ SubSeq(msg, i, (i + BlockLen(msg, i)) - 1) \in Seq(Byte \ {0})
           /\ Len(SubSeq(msg, i, (i + BlockLen(msg, i)) - 1)) = BlockLen(msg, i)
           /\ BlockLen(msg, i) + 1 \in Byte \ {0}
  <1> DEFINE n == BlockLen(msg, i)
  <1>1. /\ n \in 0..MaxCode - 1 /\ i + n <= Len(msg) + 1
        /\ \A j \in 0..n - 1 : i + j \in 1..Len(msg) /\ msg[i + j] # 0
    BY BlockFacts
  <1> HIDE DEF n
  <1>2. Len(msg) \in Nat /\ MaxCode \in Nat
    BY CodeAssumption
  <1> DEFINE k == (i + n) - 1  S == Byte \ {0}  d == SubSeq(msg, i, k)
  <1>3. k \in Int /\ i \in Int /\ (k - i) + 1 = n /\ (~(i <= k) => n = 0)
    BY <1>1, <1>2
  <1>4. ASSUME NEW x \in i..k PROVE msg[x] \in S
    <2>1. x - i \in 0..n - 1 /\ i + (x - i) = x
      BY <1>1, <1>2
    <2>2. x \in 1..Len(msg) /\ msg[x] # 0
      BY <1>1, <2>1
    <2> QED BY <2>2, ElementOfSeq
  <1>5. n + 1 \in S
    BY <1>1, <1>2 DEF Byte
  <1> HIDE DEF k, S
  <1>6. d \in Seq(S) /\ Len(d) = IF i <= k THEN (k - i) + 1 ELSE 0
    BY <1>3, <1>4, SubSeqProperties
  <1> HIDE DEF d
  <1>7. d \in Seq(S) /\ Len(d) = n
    BY <1>3, <1>6
  <1> QED BY <1>5, <1>7 DEF d, k, n, S

\* An encoded message has no zero.
LEMMA EncodeTypes ==
    ASSUME NEW msg \in Seq(Byte)
    PROVE  \A i \in 1..Len(msg) + 1 : EncodeFrom(msg)[i] \in Seq(Byte \ {0}) /\ EncodeFrom(msg)[i] # <<>>
  <1> DEFINE N == Len(msg)  E == EncodeFrom(msg)  B == Byte \ {0}
             S == {i \in 1..N + 1 : E[i] \in Seq(B) /\ E[i] # <<>>}
  <1>1. N \in Nat
    OBVIOUS
  <1>2. \A i \in 1..N + 1 : E[i] = EncodeBlock(msg, E, i)
    BY EncodeIsDefined
  <1> HIDE DEF E
  <1>3. ASSUME NEW i \in 1..N + 1, \A j \in 1..N + 1 : i < j => j \in S
        PROVE  E[i] \in Seq(B) /\ E[i] # <<>>
    <2> DEFINE n == BlockLen(msg, i)  c == n + 1  d == SubSeq(msg, i, (i + n) - 1)
    <2>1. c \in B /\ d \in Seq(B) /\ i + n <= N + 1 /\ n \in Nat
      BY BlockData, BlockFacts
    <2>2. E[i] = EncodeBlock(msg, E, i)
      BY <1>2
    <2>3. CASE n < MaxCode - 1 /\ i + n > N
      <3>1. (i + n) - 1 = N
        BY <1>1, <2>1, <2>3
      <3>2. E[i] = <<c>> \o d
        BY <2>2, <2>3, <3>1, EncodeCases
      <3> HIDE DEF c, d, B
      <3>3. <<c>> \o d = <<c>> \o d \o <<>>
        <4>1. <<c>> \in Seq(B)
          BY <2>1
        <4>2. <<c>> \o d \in Seq(B)
          BY <2>1, <4>1, ConcatProperties
        <4> QED BY <4>2, ConcatEmptySeq
      <3>4. <<>> \in Seq(B) /\ Len(<<>>) = 0
        BY EmptySeq
      <3>5. <<c>> \o d \o <<>> \in Seq(B) /\ Len(<<c>> \o d \o <<>>) = 1 + Len(d) + Len(<<>>)
        BY <2>1, <3>4, BlockOf
      <3>6. Len(d) \in Nat
        BY <2>1
      <3>7. Len(E[i]) # 0
        BY <3>2, <3>3, <3>4, <3>5, <3>6
      <3> QED BY <3>2, <3>3, <3>4, <3>5, <3>7
    <2>4. CASE ~(n < MaxCode - 1 /\ i + n > N)
      <3> DEFINE e == E[EncodeNext(msg, i)]
      <3>1. e \in Seq(B)
        <4>1. EncodeNext(msg, i) \in 1..N + 1 /\ i < EncodeNext(msg, i)
          BY <2>4, EncodeGoesOn
        <4> QED BY <1>3, <4>1
      <3>2. E[i] = <<c>> \o d \o e
        BY <2>2, <2>4, EncodeCases
      <3> HIDE DEF c, d, B, e
      <3>3. <<c>> \o d \o e \in Seq(B) /\ Len(<<c>> \o d \o e) = 1 + Len(d) + Len(e)
        BY <2>1, <3>1, BlockOf
      <3>4. Len(d) \in Nat /\ Len(e) \in Nat /\ Len(<<>>) = 0
        BY <2>1, <3>1, EmptySeq
      <3>5. Len(E[i]) # 0
        BY <3>2, <3>3, <3>4
      <3> QED BY <3>2, <3>3, <3>4, <3>5
    <2> QED BY <2>3, <2>4
  <1>4. \A i \in 1..N + 1 : (\A j \in 1..N + 1 : i < j => j \in S) => i \in S
    BY <1>3
  <1> HIDE DEF S
  <1>5. \A i \in 1..N + 1 : i \in S
    BY <1>1, <1>4, Backwards
  <1> QED BY <1>5 DEF S, E, B

\* Data found in a longer sequence.
LEMMA FoundIn ==
    ASSUME NEW S, NEW w \in Seq(S), NEW d \in Seq(S), NEW k \in Nat, k + Len(d) <= Len(w),
           \A j \in 1..Len(d) : w[k + j] = d[j]
    PROVE  SubSeq(w, k + 1, k + Len(d)) = d
  <1> DEFINE m == k + 1  n == k + Len(d)  t == SubSeq(w, m, n)
  <1>1. m \in Nat /\ n \in Nat /\ 0 < m /\ m <= n + 1 /\ n <= Len(w) /\ (n - m) + 1 = Len(d)
    OBVIOUS
  <1>2. \A j \in 1..Len(d) : (m + j) - 1 = k + j
    OBVIOUS
  <1> HIDE DEF m, n
  <1>3. t \in Seq(S) /\ Len(t) = Len(d) /\ \A j \in 1..Len(d) : t[j] = w[k + j]
    <2>1. t \in Seq(S) /\ Len(t) = n - m + 1 /\ \A j \in 1..n - m + 1 : t[j] = w[m + j - 1]
      BY <1>1, Part
    <2>2. n - m + 1 = Len(d) /\ \A j \in 1..Len(d) : m + j - 1 = k + j
      BY <1>1, <1>2
    <2> QED BY <2>1, <2>2
  <1> HIDE DEF t
  <1>4. t = d
    BY <1>3, SeqEqual
  <1> QED BY <1>4 DEF t, m, n

\* Where a code and p bytes of data leave q bytes of L.
LEMMA Places ==
    ASSUME NEW L \in Nat, NEW p \in Nat, NEW q \in Nat, NEW k \in 1..L, NEW c, c = p + 1,
           L - (k - 1) = 1 + p + q
    PROVE  /\ L = ((k - 1) + c) + q /\ k \in Nat /\ c \in Nat /\ k <= L /\ k + c <= L + 1
           /\ (k + c) - 1 = k + p /\ k + p <= L
  OBVIOUS

\* A code c and its data d are found in a frame from k on, and say of the rest e of it.
IsRead(w, k, c, d, e) ==
    /\ Len(w) = ((k - 1) + c) + Len(e)
    /\ \A j \in 1..Len(e) : w[((k - 1) + c) + j] = e[j]
    /\ DecodeZero(w, k) = IF c = MaxCode \/ k + c > Len(w) THEN <<>> ELSE <<0>>
    /\ DecodeFrom(w)[k] = Prefixed(d \o DecodeZero(w, k), DecodeFrom(w)[k + c])

\* A block in a frame is read as it was written.
LEMMA BlockRead ==
    ASSUME NEW w \in Seq(Byte \ {0}), NEW k \in 1..Len(w), NEW c \in Byte \ {0},
           NEW d \in Seq(Byte \ {0}), NEW e \in Seq(Byte \ {0})
    PROVE  c = Len(d) + 1 /\ Rest(w, k - 1) = <<c>> \o d \o e => IsRead(w, k, c, d, e)
  <1> DEFINE L == Len(w)  B == Byte \ {0}  t == Rest(w, k - 1)  p == Len(d)  q == Len(e)  D == DecodeFrom(w)
  <1> SUFFICES
        (c = p + 1 /\ t = <<c>> \o d \o e) =>
             /\ L = ((k - 1) + c) + q
             /\ \A j \in 1..q : w[((k - 1) + c) + j] = e[j]
             /\ DecodeZero(w, k) = IF c = MaxCode \/ k + c > L THEN <<>> ELSE <<0>>
             /\ D[k] = Prefixed(d \o DecodeZero(w, k), D[k + c])
    BY DEF IsRead
  <1>1. L \in Nat /\ p \in Nat /\ q \in Nat /\ k \in 1..L
    OBVIOUS
  <1>2. Byte \ {0} \subseteq Nat \ {0}
    BY CodeAssumption DEF Byte
  <1>3. w \in Seq(Nat \ {0})
    BY <1>2, SeqMonotonic
  <1>4. D[k] = DecodeBlock(w, D, k)
    BY <1>1, <1>3, DecodeIsDefined
  <1>5. ASSUME c = p + 1, t = <<c>> \o d \o e
        PROVE  /\ L = ((k - 1) + c) + q
               /\ \A j \in 1..q : w[((k - 1) + c) + j] = e[j]
               /\ DecodeZero(w, k) = IF c = MaxCode \/ k + c > L THEN <<>> ELSE <<0>>
               /\ D[k] = Prefixed(d \o DecodeZero(w, k), D[k + c])
    <2>1. Len(t) = L - (k - 1) /\ \A j \in 1..L - (k - 1) : t[j] = w[(k - 1) + j]
      <3>1. k - 1 \in 0..Len(w)
        BY <1>1
      <3> QED BY <3>1, RestOf
    <2>2. /\ Len(t) = 1 + p + q /\ t[1] = c
          /\ \A j \in 1..p : t[1 + j] = d[j]
          /\ \A j \in 1..q : t[1 + p + j] = e[j]
      <3>1. c \in B /\ d \in Seq(B) /\ e \in Seq(B)
        OBVIOUS
      <3> HIDE DEF t, B
      <3>2. /\ t \in Seq(B) /\ Len(t) = 1 + Len(d) + Len(e)
            /\ t[1] = c
            /\ \A j \in 1..Len(d) : t[1 + j] = d[j]
            /\ \A j \in 1..Len(e) : t[1 + Len(d) + j] = e[j]
        BY <1>5, <3>1, BlockOf
      <3> QED BY <3>2
    <2> HIDE DEF L, B, t, p, q, D
    <2>3. L - (k - 1) = 1 + p + q
      BY <2>1, <2>2
    <2>4. /\ L = ((k - 1) + c) + q /\ k \in Nat /\ c \in Nat /\ k <= L /\ k + c <= L + 1
          /\ (k + c) - 1 = k + p /\ k + p <= L
      BY <1>1, <1>5, <2>3, Places
    <2>5. w[k] = c
      <3>1. 1 \in 1..L - (k - 1) /\ (k - 1) + 1 = k
        BY <1>1, <2>3
      <3> QED BY <2>1, <2>2, <3>1
    <2>6. \A j \in 1..p : w[k + j] = d[j]
      <3>1. \A j \in 1..p : 1 + j \in 1..L - (k - 1) /\ (k - 1) + (1 + j) = k + j
        BY <1>1, <2>3
      <3> QED BY <2>1, <2>2, <3>1
    <2>7. \A j \in 1..q : w[((k - 1) + c) + j] = e[j]
      <3>1. \A j \in 1..q : /\ 1 + p + j \in 1..L - (k - 1)
                            /\ (k - 1) + (1 + p + j) = ((k - 1) + c) + j
        BY <1>1, <1>5, <2>3
      <3> QED BY <2>1, <2>2, <3>1
    <2>8. SubSeq(w, k + 1, k + Len(d)) = d
      <3>1. k \in Nat /\ k + Len(d) <= Len(w)
        BY <2>4 DEF L, p
      <3>2. \A j \in 1..Len(d) : w[k + j] = d[j]
        BY <2>6 DEF p
      <3> QED BY <3>1, <3>2, FoundIn
    <2>9. ~(k > Len(w)) /\ ~(k + w[k] > Len(w) + 1) /\ (k + w[k]) - 1 = k + Len(d)
      BY <1>1, <2>4, <2>5 DEF L, p
    <2>10. D[k] = Prefixed(d \o DecodeZero(w, k), D[k + c])
      <3>1. D[k] = Prefixed(SubSeq(w, k + 1, (k + w[k]) - 1) \o DecodeZero(w, k), D[k + w[k]])
        BY <1>4, <2>9, DecodeCases
      <3>2. SubSeq(w, k + 1, (k + w[k]) - 1) = d
        BY <2>8, <2>9
      <3> QED BY <2>5, <3>1, <3>2
    <2>11. DecodeZero(w, k) = IF c = MaxCode \/ k + c > L THEN <<>> ELSE <<0>>
      BY <2>5 DEF DecodeZero, L
    <2> QED BY <2>4, <2>7, <2>10, <2>11 DEF L, q, D
  <1> QED BY <1>5

\* What the decoder makes of the rest of a frame that is what a message encodes to
\* from some place on is the rest of that message.
LEMMA DecodeFollowsEncode ==
    ASSUME NEW msg \in Seq(Byte), NEW w \in Seq(Byte \ {0})
    PROVE  \A i \in 1..Len(msg) + 1, k \in 1..Len(w) :
             Rest(w, k - 1) = EncodeFrom(msg)[i] =>
                DecodeFrom(w)[k] = [ok |-> TRUE, msg |-> Rest(msg, i - 1)]
  <1> DEFINE N == Len(msg)  L == Len(w)  E == EncodeFrom(msg)  D == DecodeFrom(w)  B == Byte \ {0}
             S == {i \in 1..N + 1 : \A k \in 1..L :
                     Rest(w, k - 1) = E[i] => D[k] = [ok |-> TRUE, msg |-> Rest(msg, i - 1)]}
  <1>1. N \in Nat /\ L \in Nat /\ MaxCode \in Nat
    BY CodeAssumption
  <1>2. w \in Seq(Nat \ {0}) /\ B \subseteq Nat /\ Byte \subseteq Nat
    BY <1>1, SeqMonotonic DEF Byte
  <1>3. \A i \in 1..N + 1 : E[i] = EncodeBlock(msg, E, i) /\ E[i] \in Seq(B) /\ E[i] # <<>>
    BY EncodeIsDefined, EncodeTypes
  <1>4. \A k \in 1..L + 1 : D[k] = DecodeBlock(w, D, k)
    BY <1>2, DecodeIsDefined
  <1> HIDE DEF E, D
  <1>5. ASSUME NEW i \in 1..N + 1, \A j \in 1..N + 1 : i < j => j \in S,
               NEW k \in 1..L, Rest(w, k - 1) = E[i]
        PROVE  D[k] = [ok |-> TRUE, msg |-> Rest(msg, i - 1)]
    <2> DEFINE n == BlockLen(msg, i)  c == n + 1  d == SubSeq(msg, i, (i + n) - 1)
    <2>1. c \in B /\ d \in Seq(B) /\ Len(d) = n /\ i + n <= N + 1 /\ n \in 0..MaxCode - 1
      BY BlockData, BlockFacts
    <2>2. E[i] = EncodeBlock(msg, E, i)
      BY <1>3
    <2> HIDE DEF S
    <2>4. d \in Seq(Nat) /\ c \in Nat /\ c - 1 = n /\ Len(d) \in Nat
      <3>1. d \in Seq(Nat)
        <4> HIDE DEF d
        <4> QED BY <1>2, <2>1, SeqMonotonic
      <3>2. c \in Nat /\ c - 1 = n /\ Len(d) \in Nat
        <4> HIDE DEF d
        <4> QED BY <2>1
      <3> QED BY <3>1, <3>2
    <2>5. ASSUME NEW e \in Seq(B), E[i] = <<c>> \o d \o e
          PROVE  /\ L = ((k - 1) + c) + Len(e) /\ Len(e) \in Nat
                 /\ \A j \in 1..Len(e) : w[((k - 1) + c) + j] = e[j]
                 /\ DecodeZero(w, k) = IF c = MaxCode \/ k + c > L THEN <<>> ELSE <<0>>
                 /\ D[k] = Prefixed(d \o DecodeZero(w, k), D[k + c])
      <3>1. c = Len(d) + 1
        BY <2>1
      <3>2. Rest(w, k - 1) = <<c>> \o d \o e
        BY <1>5, <2>5
      <3> HIDE DEF c, d, n
      <3>3. Len(e) \in Nat
        OBVIOUS
      <3>4. IsRead(w, k, c, d, e)
        <4>1. c \in Byte \ {0} /\ d \in Seq(Byte \ {0})
          BY <2>1
        <4> QED BY <3>1, <3>2, <4>1, BlockRead
      <3> QED BY <3>3, <3>4 DEF D, IsRead
    <2> HIDE DEF L, N, n
    <2>6. CASE n < MaxCode - 1 /\ i + n > Len(msg)
      <3>1. (i + n) - 1 = Len(msg) /\ (i - 1) + 1 = i
        BY <1>1, <2>1, <2>6 DEF N
      <3>2. E[i] = <<c>> \o d /\ d = Rest(msg, i - 1)
        BY <2>2, <2>6, <3>1, EncodeCases DEF Rest, n, N
      <3> HIDE DEF c, d, B
      <3>3. <<>> \in Seq(B) /\ Len(<<>>) = 0 /\ <<>> \in Seq(Nat)
        BY EmptySeq
      <3>4. E[i] = <<c>> \o d \o <<>>
        <4>1. <<c>> \in Seq(B)
          BY <2>1
        <4>2. <<c>> \o d \in Seq(B)
          BY <2>1, <4>1, ConcatProperties
        <4> QED BY <3>2, <4>2, ConcatEmptySeq
      <3>5. /\ L = ((k - 1) + c) + Len(<<>>)
            /\ DecodeZero(w, k) = IF c = MaxCode \/ k + c > L THEN <<>> ELSE <<0>>
            /\ D[k] = Prefixed(d \o DecodeZero(w, k), D[k + c])
        BY <2>5, <3>3, <3>4
      <3>6. k + c = L + 1 /\ L + 1 \in 1..L + 1 /\ L + 1 > Len(w) /\ L + 1 > L
        BY <1>1, <2>4, <3>3, <3>5 DEF L
      <3>7. DecodeZero(w, k) = <<>>
        BY <3>5, <3>6
      <3>8. D[L + 1] = [ok |-> TRUE, msg |-> <<>>]
        <4>1. D[L + 1] = DecodeBlock(w, D, L + 1)
          BY <1>4, <3>6 DEF L
        <4> QED BY <3>6, <4>1, DecodeCases
      <3>9. d \o <<>> = d
        BY <2>4, ConcatEmptySeq
      <3>10. Prefixed(d, [ok |-> TRUE, msg |-> <<>>]) = [ok |-> TRUE, msg |-> d \o <<>>]
        <4> DEFINE r == [ok |-> TRUE, msg |-> <<>>]
        <4>1. r \in Report /\ r.ok = TRUE /\ r.msg = <<>>
          BY <3>3, ReportOf
        <4>2. Prefixed(d, r) = [ok |-> r.ok, msg |-> d \o r.msg]
          BY <2>4, <4>1, PrefixedReport
        <4> QED BY <4>1, <4>2
      <3>11. D[k] = Prefixed(d, [ok |-> TRUE, msg |-> <<>>])
        BY <3>5, <3>6, <3>7, <3>8, <3>9
      <3> QED BY <3>2, <3>9, <3>10, <3>11
    <2>7. CASE ~(n < MaxCode - 1 /\ i + n > Len(msg))
      <3> DEFINE next == EncodeNext(msg, i)  e == E[next]  x == k + c
      <3>1. next \in 1..N + 1 /\ i < next
        BY <2>7, EncodeGoesOn DEF n, N
      <3>2. e \in Seq(B) /\ e # <<>> /\ E[i] = <<c>> \o d \o e
        <4>1. e \in Seq(B) /\ e # <<>>
          BY <1>3, <3>1
        <4>2. E[i] = <<c>> \o d \o e
          BY <2>2, <2>7, EncodeCases DEF n, N
        <4> QED BY <4>1, <4>2
      <3>3. /\ L = ((k - 1) + c) + Len(e) /\ Len(e) \in Nat
            /\ \A j \in 1..Len(e) : w[((k - 1) + c) + j] = e[j]
            /\ DecodeZero(w, k) = IF c = MaxCode \/ k + c > L THEN <<>> ELSE <<0>>
            /\ D[k] = Prefixed(d \o DecodeZero(w, k), D[k + c])
        BY <2>5, <3>2
      <3>4. next = IF n = MaxCode - 1 THEN i + n ELSE i + n + 1
        BY DEF EncodeNext, n
      <3> HIDE DEF c, d, e, next
      <3>5. Len(e) # 0
        BY <3>2, EmptySeq
      <3>6. x \in 1..L /\ x - 1 = (k - 1) + c /\ Len(e) = L - (x - 1) /\ x - 1 \in 0..L
        <4> DEFINE q == Len(e)
        <4>1. q \in Nat /\ q # 0 /\ L = ((k - 1) + c) + q /\ L \in Nat /\ k \in 1..L /\ c \in Nat /\ c # 0
          BY <1>1, <2>1, <2>4, <3>3, <3>5
        <4> HIDE DEF q
        <4>2. x \in 1..L /\ x - 1 = (k - 1) + c /\ q = L - (x - 1) /\ x - 1 \in 0..L
          BY <4>1
        <4> QED BY <4>2 DEF q
      <3>7. Rest(w, x - 1) = e
        <4> DEFINE t == Rest(w, x - 1)
        <4>1. t \in Seq(B) /\ Len(t) = L - (x - 1) /\ \A j \in 1..L - (x - 1) : t[j] = w[(x - 1) + j]
          BY <3>6, RestOf DEF L, B
        <4> HIDE DEF t
        <4>2. \A j \in 1..Len(t) : t[j] = e[j]
          BY <3>3, <3>6, <4>1
        <4>3. t = e
          BY <3>2, <3>6, <4>1, <4>2, SeqEqual
        <4> QED BY <4>3 DEF t
      <3>8. D[x] = [ok |-> TRUE, msg |-> Rest(msg, next - 1)]
        BY <1>5, <3>1, <3>6, <3>7 DEF S, e
      <3> DEFINE m == Rest(msg, next - 1)  z == DecodeZero(w, k)
      <3>9. z = IF n = MaxCode - 1 THEN <<>> ELSE <<0>>
        <4>1. z = IF c = MaxCode \/ k + c > L THEN <<>> ELSE <<0>>
          BY <3>3
        <4>2. k + c \in 1..L /\ L \in Nat /\ c \in Nat /\ c - 1 = n /\ MaxCode \in Nat
          BY <1>1, <2>4, <3>6
        <4> HIDE DEF z, m, x
        <4>3. ~(k + c > L) /\ (c = MaxCode <=> n = MaxCode - 1)
          BY <4>2
        <4> QED BY <4>1, <4>3
      <3>10. m \in Seq(Nat) /\ z \in Seq(Nat)
        <4>1. msg \in Seq(Nat) /\ next - 1 \in 0..Len(msg)
          <5>1. msg \in Seq(Nat)
            BY <1>2, SeqMonotonic
          <5> QED BY <1>1, <3>1, <5>1 DEF N
        <4>2. m \in Seq(Nat)
          BY <4>1, RestOf
        <4>3. <<>> \in Seq(Nat) /\ <<0>> \in Seq(Nat)
          BY EmptySeq
        <4> QED BY <3>9, <4>2, <4>3
      <3>11. (d \o z) \o m = Rest(msg, i - 1)
        <4>1. /\ i \in 1..Len(msg) + 1 /\ i - 1 + 1 = i /\ next - 1 + 1 = next /\ next - 1 \in i - 1..Len(msg)
              /\ Len(msg) \in next - 1..Len(msg)
          BY <1>1, <3>1 DEF N
        <4>2. SubSeq(msg, i, next - 1) \o SubSeq(msg, next - 1 + 1, Len(msg)) = SubSeq(msg, i, Len(msg))
          BY <4>1, ConcatAdjacentSubSeq
        <4>3. d \o z = SubSeq(msg, i, next - 1)
          <5>1. CASE n = MaxCode - 1
            BY <2>4, <3>4, <3>9, <5>1, ConcatEmptySeq DEF d
          <5>2. CASE n # MaxCode - 1
            <6>1. next - 1 = i + n /\ i + n \in i..Len(msg) /\ i \in 1..Len(msg) /\ (i + n) - 1 = i + n - 1
              BY <1>1, <2>1, <2>7, <3>1, <3>4, <5>2 DEF N
            <6>2. msg[i + n] = 0
              <7>1. n < MaxCode - 1 /\ ~(i + n > Len(msg))
                BY <1>1, <2>1, <2>7, <5>2
              <7>2. n = MaxCode - 1 \/ i + n > Len(msg) \/ msg[i + n] = 0
                BY BlockFacts DEF n, N
              <7> QED BY <7>1, <7>2, <5>2
            <6>3. SubSeq(msg, i, i + n) = SubSeq(msg, i, i + n - 1) \o <<msg[i + n]>>
              BY <6>1, SubSeqRecursiveSecond
            <6> QED BY <3>9, <5>2, <6>1, <6>2, <6>3 DEF d
          <5> QED BY <5>1, <5>2
        <4> QED BY <4>1, <4>2, <4>3 DEF Rest
      <3>12. d \o z \in Seq(Nat)
        BY <2>4, <3>10, ConcatProperties
      <3>13. D[k] = Prefixed(d \o z, D[x])
        BY <3>3
      <3> HIDE DEF z, m
      <3>14. Prefixed(d \o z, [ok |-> TRUE, msg |-> m]) = [ok |-> TRUE, msg |-> (d \o z) \o m]
        <4> DEFINE r == [ok |-> TRUE, msg |-> m]
        <4>1. r \in Report /\ r.ok = TRUE /\ r.msg = m
          BY <3>10, ReportOf
        <4> HIDE DEF r
        <4>2. Prefixed(d \o z, r) = [ok |-> r.ok, msg |-> (d \o z) \o r.msg]
          BY <3>12, <4>1, PrefixedReport
        <4> QED BY <4>1, <4>2 DEF r
      <3>15. D[x] = [ok |-> TRUE, msg |-> m]
        BY <3>8 DEF m
      <3> QED BY <3>11, <3>13, <3>14, <3>15
    <2> QED BY <2>6, <2>7
  <1>6. \A i \in 1..N + 1 : (\A j \in 1..N + 1 : i < j => j \in S) => i \in S
    BY <1>5
  <1> HIDE DEF S
  <1>7. \A i \in 1..N + 1 : i \in S
    BY <1>1, <1>6, Backwards
  <1> QED BY <1>7 DEF S, E, D

\* For every message: what is encoded has no zero in it, and decodes to the message.
THEOREM CobsRoundTrip ==
    ASSUME NEW msg \in Seq(Byte)
    PROVE  /\ CobsEncode(msg) \in Seq(Byte \ {0})
           /\ CobsDecode(CobsEncode(msg)) = [ok |-> TRUE, msg |-> msg]
  <1> DEFINE w == CobsEncode(msg)
  <1>1. Len(msg) \in Nat /\ 1 \in 1..Len(msg) + 1 /\ 1 - 1 = 0
    OBVIOUS
  <1>2. w = EncodeFrom(msg)[1] /\ w \in Seq(Byte \ {0}) /\ w # <<>>
    BY <1>1, EncodeTypes DEF CobsEncode
  <1> HIDE DEF w
  <1>3. Rest(w, 0) = w /\ Rest(msg, 0) = msg
    BY <1>2, SubSeqFull DEF Rest
  <1>4. 1 \in 1..Len(w)
    BY <1>2, EmptySeq
  <1>5. DecodeFrom(w)[1] = [ok |-> TRUE, msg |-> Rest(msg, 1 - 1)]
    BY <1>1, <1>2, <1>3, <1>4, DecodeFollowsEncode
  <1> QED BY <1>1, <1>2, <1>3, <1>5 DEF CobsDecode, w

-----------------------------------------------------------------------------
(* A wire that is made of parts.                                            *)

\* Parts with something in them, one after the other.
PartsOf(W, P, E) ==
    /\ LaidOut(W, P, E)
    /\ \A k \in 1..Len(P) : Len(P[k]) > 0

\* Where a part is, and what is there.
LEMMA PartPlace ==
    ASSUME NEW W, NEW P, NEW E, PartsOf(W, P, E), NEW k \in 1..Len(P)
    PROVE  /\ Start(E, k) \in Nat /\ E[k] \in Nat /\ Start(E, k) < E[k] /\ E[k] <= Len(W)
           /\ P[k] \in Seq(Nat) /\ Len(P[k]) = E[k] - Start(E, k)
           /\ \A j \in 1..Len(P[k]) : W[Start(E, k) + j] = P[k][j]
  <1>1. /\ W \in Seq(Nat) /\ P \in Seq(Seq(Nat)) /\ E \in Seq(Nat) /\ Len(E) = Len(P) /\ k \in DOMAIN P
    BY DEF PartsOf, LaidOut
  <1>2. P[k] \in Seq(Nat) /\ E[k] \in Nat /\ Start(E, k) \in Nat
    <2>1. k # 1 => k - 1 \in 1..Len(E)
      BY <1>1
    <2> QED BY <1>1, <2>1, SMTT(30) DEF Start
  <1>3. /\ E[k] = Start(E, k) + Len(P[k]) /\ E[k] <= Len(W) /\ Len(P[k]) > 0
        /\ SubSeq(W, Start(E, k) + 1, E[k]) = P[k]
    BY <1>1 DEF PartsOf, LaidOut
  <1> DEFINE a == Start(E, k)  z == E[k]  part == P[k]  m == a + 1
  <1>4. /\ a \in Nat /\ z \in Nat /\ Len(part) \in Nat /\ z = a + Len(part) /\ z <= Len(W)
        /\ part \in Seq(Nat) /\ Len(part) > 0 /\ SubSeq(W, m, z) = part
    BY <1>2, <1>3
  <1> HIDE DEF a, z, part
  <1>5. /\ m \in Nat /\ 0 < m /\ m <= z + 1 /\ z - m + 1 = Len(part)
        /\ \A j \in 1..Len(part) : m + j - 1 = a + j
    BY <1>4
  <1> HIDE DEF m
  <1>6. \A i \in 1..z - m + 1 : SubSeq(W, m, z)[i] = W[m + i - 1]
    BY <1>1, <1>4, <1>5, Part
  <1>7. \A j \in 1..Len(part) : W[a + j] = part[j]
    BY <1>4, <1>5, <1>6
  <1>8. a < z /\ Len(part) = z - a
    BY <1>4
  <1> QED BY <1>4, <1>7, <1>8 DEF a, z, part

\* A part begins where the one before it ends, or later.
LEMMA PartOrder ==
    ASSUME NEW W, NEW P, NEW E, PartsOf(W, P, E)
    PROVE  \A j, k \in 1..Len(P) : j < k => E[j] <= Start(E, k) /\ E[j] < E[k]
  <1> DEFINE N == Len(P)
  <1>1. N \in Nat
    BY DEF PartsOf, LaidOut
  <1>2. \A k \in 1..N : Start(E, k) \in Nat /\ E[k] \in Nat /\ Start(E, k) < E[k]
    BY PartPlace
  <1>3. \A k \in 1..N : k # 1 => Start(E, k) = E[k - 1] /\ k - 1 \in 1..N
    BY <1>1 DEF Start
  <1> HIDE DEF N
  <1>4. ASSUME NEW j \in 1..N
        PROVE  \A k \in 1..N : j < k => E[j] <= Start(E, k)
    <2> DEFINE T == {k \in 1..N : j < k /\ ~(E[j] <= Start(E, k))}
    <2>1. T \subseteq Nat
      BY <1>1
    <2>2. SUFFICES ASSUME T # {} PROVE FALSE
      OBVIOUS
    <2>3. PICK k \in T : \A y \in T : k <= y
      BY <2>1, <2>2, LeastOf
    <2>4. k \in 1..N /\ j < k /\ ~(E[j] <= Start(E, k)) /\ k # 1
      BY <1>1, <2>3
    <2>5. Start(E, k) = E[k - 1] /\ k - 1 \in 1..N
      BY <1>3, <2>4
    <2>6. k - 1 # j
      BY <1>2, <2>4, <2>5
    <2>7. j < k - 1 /\ ~(k <= k - 1)
      BY <1>1, <2>4, <2>6
    <2>8. E[j] <= Start(E, k - 1)
      BY <2>3, <2>5, <2>7
    <2>9. E[j] \in Nat /\ Start(E, k - 1) \in Nat /\ E[k - 1] \in Nat /\ Start(E, k - 1) < E[k - 1]
      BY <1>2, <2>5
    <2> QED BY <2>4, <2>5, <2>8, <2>9
  <1>5. \A j, k \in 1..N : j < k => E[j] <= Start(E, k)
    BY <1>4
  <1> QED BY <1>2, <1>5 DEF N

\* The parts are all there is.
LEMMA PartsCover ==
    ASSUME NEW W, NEW P, NEW E, PartsOf(W, P, E)
    PROVE  /\ \A p \in 1..Len(W) : \E k \in 1..Len(P) : Start(E, k) < p /\ p <= E[k]
           /\ P # <<>> => Len(P) \in 1..Len(P) /\ E[Len(P)] = Len(W)
           /\ P = <<>> => Len(W) = 0
  <1> DEFINE N == Len(P)  L == Len(W)
  <1>1. /\ N \in Nat /\ L \in Nat /\ Len(E) = N /\ P \in Seq(Seq(Nat))
        /\ L = IF P = <<>> THEN 0 ELSE E[Len(E)]
    BY DEF PartsOf, LaidOut
  <1>2. P # <<>> => N \in 1..N /\ E[N] = L
    <2>1. P # <<>> => N # 0
      BY <1>1, EmptySeq
    <2> QED BY <1>1, <2>1
  <1>3. P = <<>> => L = 0
    BY <1>1
  <1>4. \A k \in 1..N : Start(E, k) \in Nat /\ E[k] \in Nat
    BY PartPlace
  <1>5. \A k \in 1..N : Start(E, k) = (IF k = 1 THEN 0 ELSE E[k - 1]) /\ (k # 1 => k - 1 \in 1..N)
    BY <1>1 DEF Start
  <1> HIDE DEF N, L
  <1>6. ASSUME NEW p \in 1..L
        PROVE  \E k \in 1..N : Start(E, k) < p /\ p <= E[k]
    <2> DEFINE T == {k \in 1..N : p <= E[k]}
    <2>1. p \in Nat /\ 0 < p /\ p <= L /\ L # 0
      BY <1>1
    <2>2. N \in T
      BY <1>2, <1>3, <2>1
    <2>3. T \subseteq Nat
      BY <1>1
    <2>4. PICK k \in T : \A y \in T : k <= y
      <3> HIDE DEF T
      <3> QED BY <2>2, <2>3, LeastOf
    <2>5. k \in 1..N /\ p <= E[k]
      BY <2>4
    <2>6. Start(E, k) < p
      <3>1. CASE k = 1
        BY <1>5, <2>1, <2>5, <3>1
      <3>2. CASE k # 1
        <4>1. k - 1 \in 1..N /\ ~(k <= k - 1) /\ Start(E, k) = E[k - 1]
          BY <1>1, <1>5, <2>5, <3>2
        <4>2. ~(p <= E[k - 1])
          BY <2>4, <4>1
        <4>3. E[k - 1] \in Nat
          BY <1>4, <4>1
        <4> QED BY <2>1, <4>1, <4>2, <4>3
      <3> QED BY <3>1, <3>2
    <2> QED BY <2>5, <2>6
  <1> QED BY <1>2, <1>3, <1>6 DEF N, L

-----------------------------------------------------------------------------
(* A wire of COBS frames.                                                   *)

OfFrames == input \in Inputs /\ input.codec = "cobs"

Parts == [k \in DOMAIN frames |-> frames[k].bytes]

\* What is before the zero at the end of the i-th frame.
Body(i) == IF frames[i].good THEN CobsEncode(frames[i].msg) ELSE frames[i].msg

\* The p-th byte of the wire is in the i-th frame.
Within(i, p) == Start(ends, i) < p /\ p <= ends[i]

\* A frame is its body, in which there is no zero, and a zero.
LEMMA FrameBody ==
    ASSUME OfFrames, NEW i \in DOMAIN frames
    PROVE  /\ frames[i].bytes = Append(Body(i), 0) /\ Body(i) \in Seq(Byte \ {0})
           /\ frames[i].good => CobsDecode(Body(i)) = [ok |-> TRUE, msg |-> frames[i].msg]
           /\ ~frames[i].good => ~CobsDecode(Body(i)).ok
           /\ frames[i].msg \in Seq(Nat)
  <1>1. CobsInput(input)
    BY InputsAssumption DEF OfFrames
  <1> DEFINE f == frames[i]
  <1>2. IF f.good
        THEN f.msg \in Seq(Byte) /\ f.bytes = Encode(f.msg)
        ELSE f.msg \in Seq(Byte \ {0}) /\ f.bytes = Append(f.msg, 0) /\ ~CobsDecode(f.msg).ok
    BY <1>1 DEF CobsInput, frames
  <1> HIDE DEF f
  <1>3. Byte \subseteq Nat /\ Byte \ {0} \subseteq Nat
    BY CodeAssumption DEF Byte
  <1>4. CASE f.good
    <2>1. f.msg \in Seq(Byte) /\ f.bytes = Append(CobsEncode(f.msg), 0) /\ Body(i) = CobsEncode(f.msg)
      BY <1>2, <1>4 DEF Encode, Body, f
    <2>2. Body(i) \in Seq(Byte \ {0}) /\ CobsDecode(Body(i)) = [ok |-> TRUE, msg |-> f.msg]
      BY <2>1, CobsRoundTrip
    <2>3. f.msg \in Seq(Nat)
      BY <1>3, <2>1, SeqMonotonic
    <2> QED BY <1>4, <2>1, <2>2, <2>3 DEF f
  <1>5. CASE ~f.good
    <2>1. Body(i) = f.msg /\ f.msg \in Seq(Byte \ {0}) /\ f.bytes = Append(f.msg, 0) /\ ~CobsDecode(f.msg).ok
      BY <1>2, <1>5 DEF Body, f
    <2>2. f.msg \in Seq(Nat)
      BY <1>3, <2>1, SeqMonotonic
    <2> QED BY <1>5, <2>1, <2>2 DEF f
  <1> QED BY <1>4, <1>5

\* The frames are the parts of the wire.
LEMMA FramesAreParts ==
    ASSUME OfFrames
    PROVE  PartsOf(input.wire, Parts, ends) /\ DOMAIN frames = 1..Len(Parts)
  <1>1. CobsInput(input)
    BY InputsAssumption DEF OfFrames
  <1>2. LaidOut(input.wire, Parts, ends)
    BY <1>1 DEF CobsInput, Parts, frames, ends
  <1>3. DOMAIN Parts = 1..Len(Parts)
    BY <1>2 DEF LaidOut
  <1>4. DOMAIN frames = 1..Len(Parts)
    BY <1>3 DEF Parts
  <1>5. ASSUME NEW k \in 1..Len(Parts) PROVE Len(Parts[k]) > 0
    <2>1. k \in DOMAIN frames /\ Parts[k] = frames[k].bytes
      BY <1>4 DEF Parts
    <2>2. frames[k].bytes = Append(Body(k), 0) /\ Body(k) \in Seq(Byte \ {0})
      BY <2>1, FrameBody
    <2>3. Len(Append(Body(k), 0)) = Len(Body(k)) + 1 /\ Len(Body(k)) \in Nat
      BY <2>2
    <2> QED BY <2>1, <2>2, <2>3
  <1> QED BY <1>2, <1>4, <1>5 DEF PartsOf

\* Where a frame is; its only zero is at its end.
LEMMA FramePlace ==
    ASSUME OfFrames, NEW i \in DOMAIN frames
    PROVE  /\ i \in Nat /\ Start(ends, i) \in Nat /\ ends[i] \in Nat
           /\ Start(ends, i) < ends[i] /\ ends[i] <= Len(input.wire)
           /\ Len(Body(i)) = (ends[i] - Start(ends, i)) - 1
           /\ \A j \in 1..Len(Body(i)) : input.wire[Start(ends, i) + j] = Body(i)[j]
           /\ input.wire[ends[i]] = 0
           /\ \A p \in Nat : Start(ends, i) < p /\ p < ends[i] => input.wire[p] # 0
  <1> DEFINE a == Start(ends, i)  z == ends[i]  part == Parts[i]  b == Body(i)  W == input.wire  n == Len(b)
  <1>1. i \in 1..Len(Parts)
    BY FramesAreParts
  <1>2. /\ a \in Nat /\ z \in Nat /\ a < z /\ z <= Len(W)
        /\ Len(part) = z - a /\ \A j \in 1..Len(part) : W[a + j] = part[j]
    BY <1>1, FramesAreParts, PartPlace, SMTT(30)
  <1>3. part = Append(b, 0) /\ b \in Seq(Byte \ {0})
    BY FrameBody DEF Parts
  <1>4. n \in Nat /\ Len(part) = n + 1 /\ part[n + 1] = 0 /\ \A j \in 1..n : part[j] = b[j] /\ b[j] # 0
    <2> HIDE DEF b, part
    <2> QED BY <1>3
  <1>5. i \in Nat
    BY <1>1
  <1> HIDE DEF a, z, part, b, W, n
  <1>6. n = (z - a) - 1 /\ a + (n + 1) = z /\ n + 1 \in 1..Len(part)
    BY <1>2, <1>4
  <1>7. \A j \in 1..n : W[a + j] = b[j] /\ W[a + j] # 0
    <2>1. \A j \in 1..n : j \in 1..Len(part)
      BY <1>4
    <2> QED BY <1>2, <1>4, <2>1
  <1>8. W[z] = 0
    BY <1>2, <1>4, <1>6
  <1>9. ASSUME NEW p \in Nat, a < p, p < z PROVE W[p] # 0
    <2>1. p - a \in 1..n /\ a + (p - a) = p
      BY <1>2, <1>6, <1>9
    <2> QED BY <1>7, <2>1
  <1> QED BY <1>2, <1>5, <1>6, <1>7, <1>8, <1>9 DEF a, z, b, W, n

\* Frames do not overlap.
LEMMA FrameOrder ==
    ASSUME OfFrames
    PROVE  \A j, k \in DOMAIN frames : j < k => ends[j] <= Start(ends, k) /\ ends[j] < ends[k]
  BY FramesAreParts, PartOrder

\* There is nothing between the frames.
LEMMA FramesCover ==
    ASSUME OfFrames, NEW p \in 1..Len(input.wire)
    PROVE  \E i \in DOMAIN frames : Within(i, p)
  <1>1. \E k \in 1..Len(Parts) : Start(ends, k) < p /\ p <= ends[k]
    BY FramesAreParts, PartsCover
  <1> QED BY <1>1, FramesAreParts DEF Within

-----------------------------------------------------------------------------
(* What decode does to a buffer with a zero in it.                          *)

Outcome == [at : Nat, ok : BOOLEAN, msg : Seq(Nat)]

FirstBody(src) == SubSeq(src, 1, FirstZero(src) - 1)

\* What decode takes for a frame is all there is before the first zero.
LEMMA FirstBodyOf ==
    ASSUME NEW src \in Seq(Nat), FirstZero(src) # 0
    PROVE  /\ FirstBody(src) \in Seq(Nat \ {0}) /\ Len(FirstBody(src)) = FirstZero(src) - 1
           /\ \A j \in 1..FirstZero(src) - 1 : FirstBody(src)[j] = src[j]
           /\ CobsDecode(FirstBody(src)) \in Report
  <1> DEFINE z == FirstZero(src)  n == z - 1  b == SubSeq(src, 1, n)
  <1>1. z \in 1..Len(src) /\ \A j \in 1..n : src[j] # 0
    BY FirstZeroFacts
  <1> HIDE DEF z
  <1>2. n \in Nat /\ 1 <= n + 1 /\ n <= Len(src) /\ n - 1 + 1 = n
    BY <1>1
  <1> HIDE DEF n
  <1>3. b \in Seq(Nat) /\ Len(b) = n /\ \A j \in 1..n : b[j] = src[1 + j - 1]
    <2>1. b \in Seq(Nat) /\ Len(b) = n - 1 + 1 /\ \A j \in 1..n - 1 + 1 : b[j] = src[1 + j - 1]
      BY <1>2, Part
    <2> QED BY <1>2, <2>1
  <1>4. \A j \in 1..n : b[j] = src[j] /\ 1 + j - 1 = j
    <2>1. \A j \in 1..n : 1 + j - 1 = j
      BY <1>2
    <2> QED BY <1>3, <2>1
  <1> HIDE DEF b
  <1>5. b \in Seq(Nat \ {0})
    <2>1. \A j \in 1..Len(b) : b[j] \in Nat \ {0}
      BY <1>1, <1>3, <1>4, ElementOfSeq
    <2> QED BY <1>3, <2>1, SeqDef
  <1>6. CobsDecode(b) \in Report
    <2>1. 1 \in 1..Len(b) + 1
      BY <1>2, <1>3
    <2> QED BY <1>5, <2>1, DecodeTypes DEF CobsDecode
  <1> QED BY <1>3, <1>4, <1>5, <1>6 DEF FirstBody, b, n, z

\* What a failed attempt leaves.
LEMMA AfterErrorOf ==
    ASSUME NEW src \in Seq(Nat), FirstZero(src) # 0, NEW s \in AfterError(src)
    PROVE  /\ s \in Seq(Nat) /\ Len(s) = Len(src) /\ FirstZero(s) \in 1..FirstZero(src)
           /\ \A j \in FirstZero(src)..Len(src) : s[j] = src[j]
  <1> DEFINE z == FirstZero(src)  L == Len(src)  made == CobsDecode(FirstBody(src)).msg
  <1>1. z \in 1..L /\ L \in Nat /\ src[z] = 0
    BY FirstZeroFacts
  <1>2. made \in Seq(Nat)
    BY FirstBodyOf DEF Report
  <1>3. PICK n \in {n \in 0..Len(made) : n < z} :
            s = [i \in 1..L |-> IF i <= n THEN made[i] ELSE src[i]]
    BY DEF AfterError, FirstBody
  <1> HIDE DEF z, L, made
  <1>4. n \in Nat /\ n <= Len(made) /\ n < z
    BY <1>2, <1>3
  <1>5. s \in Seq(Nat) /\ Len(s) = L
    <2>1. \A i \in 1..L : (IF i <= n THEN made[i] ELSE src[i]) \in Nat
      <3>1. ASSUME NEW i \in 1..L, i <= n PROVE made[i] \in Nat
        BY <1>1, <1>2, <1>4, <3>1, ElementOfSeq
      <3>2. ASSUME NEW i \in 1..L PROVE src[i] \in Nat
        BY <3>2, ElementOfSeq DEF L
      <3> QED BY <3>1, <3>2
    <2> DEFINE g == [i \in 1..L |-> IF i <= n THEN made[i] ELSE src[i]]
    <2>2. g \in [1..L -> Nat]
      BY <2>1
    <2>3. s = g
      BY <1>3
    <2> HIDE DEF g
    <2>4. g \in Seq(Nat) /\ DOMAIN g = 1..L
      BY <1>1, <2>2, SeqDef
    <2> QED BY <1>1, <2>3, <2>4, LenProperties
  <1>6. \A j \in z..L : s[j] = src[j]
    BY <1>1, <1>3, <1>4
  <1>7. s[z] = 0 /\ z \in 1..Len(s)
    BY <1>1, <1>5, <1>6
  <1>8. FirstZero(s) \in 1..z
    <2> DEFINE y == FirstZero(s)
    <2>1. y \in 0..Len(s) /\ y # 0 /\ (y # 0 => \A i \in 1..y - 1 : s[i] # 0)
      BY <1>5, <1>7, FirstZeroFacts
    <2> HIDE DEF y
    <2>2. ~(z < y)
      <3>1. z < y => z \in 1..y - 1
        BY <1>1, <1>5, <2>1
      <3> QED BY <1>7, <2>1, <3>1
    <2>3. y \in 1..z
      BY <1>1, <1>5, <2>1, <2>2
    <2> QED BY <2>3 DEF y
  <1> QED BY <1>5, <1>6, <1>8 DEF z, L

\* The buffer loses what is before its first zero, and the zero, or some of it after
\* an error, and there is a result.
Given(src) ==
    LET report == CobsDecode(FirstBody(src)) IN
    [at |-> Taken, ok |-> report.ok, msg |-> IF report.ok THEN report.msg ELSE <<>>]

\* What a call of the decoder that finds a zero makes of the buffer.
LEMMA DecodeFrameGives ==
    ASSUME NEW src \in Seq(Nat), FirstZero(src) # 0, DecodeFrame(src)
    PROVE  /\ out' = Append(out, Given(src))
           /\ \E s \in Seq(Nat), z \in 1..FirstZero(src) :
                /\ Len(s) = Len(src) /\ \A j \in FirstZero(src)..Len(src) : s[j] = src[j]
                /\ buffer' = Rest(s, z)
                /\ CobsDecode(FirstBody(src)).ok => z = FirstZero(src)
  <1> DEFINE r == CobsDecode(FirstBody(src))
  <1>0. FirstZero(src) \in 1..Len(src) /\ Len(src) \in Nat
    BY FirstZeroFacts
  <1>1. r \in Report /\ r.ok \in BOOLEAN
    BY FirstBodyOf DEF Report
  <1>2. IF r.ok
        THEN buffer' = Rest(src, FirstZero(src)) /\ Emit(TRUE, r.msg)
        ELSE buffer' \in Discard(src) /\ Emit(FALSE, <<>>)
    BY DEF DecodeFrame, FirstBody, Consumed
  <1>3. Given(src) = [at |-> Taken, ok |-> r.ok, msg |-> IF r.ok THEN r.msg ELSE <<>>]
    BY DEF Given
  <1> HIDE DEF r
  <1>4. CASE r.ok
    <2>1. r.ok = TRUE
      BY <1>1, <1>4
    <2>2. out' = Append(out, Given(src))
      BY <1>2, <1>3, <2>1 DEF Emit
    <2>3. buffer' = Rest(src, FirstZero(src)) /\ FirstZero(src) \in 1..FirstZero(src)
      BY <1>0, <1>2, <1>4
    <2> QED BY <2>2, <2>3
  <1>5. CASE ~r.ok
    <2>1. r.ok = FALSE
      BY <1>1, <1>5
    <2>2. out' = Append(out, Given(src))
      BY <1>2, <1>3, <2>1 DEF Emit
    <2>3. PICK s \in AfterError(src) : buffer' = Rest(s, FirstZero(s))
      BY <1>2, <1>5 DEF Discard
    <2>4. /\ s \in Seq(Nat) /\ Len(s) = Len(src) /\ FirstZero(s) \in 1..FirstZero(src)
          /\ \A j \in FirstZero(src)..Len(src) : s[j] = src[j]
      BY AfterErrorOf
    <2> QED BY <1>5, <2>2, <2>3, <2>4 DEF r
  <1> QED BY <1>4, <1>5 DEF r

\* A result is made at the place where the stream is.
LEMMA GivenOutcome ==
    ASSUME NEW src \in Seq(Nat), FirstZero(src) # 0, Taken \in Nat
    PROVE  Given(src) \in Outcome /\ Given(src).at = Taken
  <1> DEFINE r == CobsDecode(FirstBody(src))  m == IF r.ok THEN r.msg ELSE <<>>
  <1>1. r.ok \in BOOLEAN /\ m \in Seq(Nat)
    BY FirstBodyOf, EmptySeq DEF Report
  <1>2. Given(src) = [at |-> Taken, ok |-> r.ok, msg |-> m]
    BY DEF Given
  <1> HIDE DEF r, m
  <1> QED BY <1>1, <1>2 DEF Outcome

-----------------------------------------------------------------------------
(* One more result.                                                         *)

\* A sequence with one more element.
LEMMA OneMore ==
    ASSUME NEW S, NEW s \in Seq(S), NEW o \in S, NEW t, t = Append(s, o)
    PROVE  /\ t \in Seq(S) /\ Len(t) = Len(s) + 1 /\ DOMAIN t = 1..Len(s) + 1
           /\ \A k \in 1..Len(s) : t[k] = s[k]
           /\ t[Len(s) + 1] = o /\ Len(s) \in Nat
  <1>1. t \in Seq(S) /\ Len(t) = Len(s) + 1 /\ Len(s) \in Nat
    OBVIOUS
  <1>2. DOMAIN t = 1..Len(t)
    BY <1>1, LenProperties
  <1> QED BY <1>1, <1>2

\* The results from the i-th frame.
LEMMA ResultsAfter ==
    ASSUME out \in Seq(Outcome), NEW o \in Outcome, out' = Append(out, o), input' = input, NEW i
    PROVE  /\ ~(Start(ends, i) <= o.at /\ o.at < ends[i]) => Results(i)' = Results(i)
           /\ Start(ends, i) <= o.at /\ o.at < ends[i] => Results(i)' = Results(i) \cup {Len(out) + 1}
           /\ Results(i) \subseteq 1..Len(out)
  <1> DEFINE n == Len(out)  a == Start(ends, i)  z == ends[i]  new == out'  T == Results(i)'
  <1>1. /\ n \in Nat /\ DOMAIN new = 1..n + 1 /\ new[n + 1] = o
        /\ \A k \in 1..n : new[k] = out[k]
    BY OneMore
  <1>2. T = {k \in DOMAIN new : a <= new[k].at /\ new[k].at < z}
    BY DEF Results, ends
  <1>3. Results(i) = {k \in 1..n : a <= out[k].at /\ out[k].at < z}
    BY DEF Results
  <1> HIDE DEF n, a, z, new, T
  <1>4. 1..n + 1 = 1..n \cup {n + 1} /\ n + 1 \notin 1..n
    BY <1>1
  <1>5. T = {k \in 1..n \cup {n + 1} : a <= new[k].at /\ new[k].at < z}
    BY <1>1, <1>2, <1>4
  <1>6. CASE a <= o.at /\ o.at < z
    <2>1. T = Results(i) \cup {n + 1}
      BY <1>1, <1>3, <1>5, <1>6
    <2> QED BY <1>3, <1>6, <2>1 DEF n, a, z, T
  <1>7. CASE ~(a <= o.at /\ o.at < z)
    <2>1. T = Results(i)
      BY <1>1, <1>3, <1>5, <1>7
    <2> QED BY <1>3, <1>7, <2>1 DEF n, a, z, T
  <1> QED BY <1>6, <1>7

\* What has been reported stays so: no result is made of a good frame again.
LEMMA ReportedStays ==
    ASSUME out \in Seq(Outcome), NEW o \in Outcome, out' = Append(out, o), input' = input, NEW i,
           Reported(i), ~(Start(ends, i) <= o.at /\ o.at < ends[i]) \/ ~frames[i].good
    PROVE  Reported(i)'
  <1> DEFINE n == Len(out)  new == out'  T == Results(i)'  R == Results(i)
  <1>1. n \in Nat /\ \A k \in 1..n : new[k] = out[k]
    BY OneMore
  <1>2. (T = R \/ (~frames[i].good /\ T = R \cup {n + 1})) /\ R \subseteq 1..n
    BY ResultsAfter
  <1>3. \A k \in R : k \in 1..n /\ new[k] = out[k]
    BY <1>1, <1>2
  <1>4. CASE frames[i].good
    <2>1. PICK k \in DOMAIN out : R = {k} /\ out[k].ok /\ out[k].msg = frames[i].msg
      BY <1>4 DEF Reported
    <2>2. T = {k} /\ new[k].ok /\ new[k].msg = frames[i].msg /\ k \in 1..n
      BY <1>2, <1>3, <1>4, <2>1
    <2>3. k \in DOMAIN new
      <3>1. DOMAIN new = 1..n + 1
        BY OneMore
      <3> QED BY <1>1, <2>2, <3>1
    <2> QED BY <1>4, <2>2, <2>3 DEF Reported, frames
  <1>5. CASE ~frames[i].good
    <2>1. PICK k \in R : ~out[k].ok /\ \A j \in R : k <= j
      BY <1>5 DEF Reported
    <2>2. k \in T /\ ~new[k].ok
      BY <1>2, <1>3, <2>1
    <2>3. \A j \in T : k <= j
      BY <1>1, <1>2, <2>1
    <2> QED BY <1>5, <2>2, <2>3 DEF Reported, frames
  <1> QED BY <1>4, <1>5

\* The first result from a frame reports it.
LEMMA ReportedFirst ==
    ASSUME out \in Seq(Outcome), NEW o \in Outcome, out' = Append(out, o), input' = input, NEW i,
           Results(i) = {}, Start(ends, i) <= o.at, o.at < ends[i],
           frames[i].good => o.ok /\ o.msg = frames[i].msg,
           ~frames[i].good => ~o.ok
    PROVE  Reported(i)'
  <1> DEFINE n == Len(out)  new == out'  T == Results(i)'
  <1>1. n \in Nat /\ new[n + 1] = o /\ DOMAIN new = 1..n + 1
    BY OneMore
  <1>2. T = {n + 1}
    BY ResultsAfter
  <1>3. n + 1 \in DOMAIN new /\ n + 1 <= n + 1
    BY <1>1
  <1>4. frames' = frames
    BY DEF frames
  <1> HIDE DEF T, new, n
  <1>5. CASE frames[i].good
    <2>1. T = {n + 1} /\ new[n + 1].ok /\ new[n + 1].msg = frames[i].msg
      BY <1>1, <1>2, <1>5
    <2> QED BY <1>3, <1>4, <1>5, <2>1 DEF Reported, T, new
  <1>6. CASE ~frames[i].good
    <2>1. n + 1 \in T /\ ~new[n + 1].ok /\ \A j \in T : n + 1 <= j
      BY <1>1, <1>2, <1>3, <1>6
    <2> QED BY <1>4, <1>6, <2>1 DEF Reported, T, new
  <1> QED BY <1>5, <1>6

-----------------------------------------------------------------------------
(* The inductive invariant of a stream of COBS frames.                      *)

\* What is in the buffer is what is on the wire, but for the data of a frame that
\* has been begun.
Fetched ==
    \A p \in Taken + 1..pos, i \in DOMAIN frames :
        Within(i, p) /\ (p = ends[i] \/ Taken <= Start(ends, i)) => buffer[p - Taken] = input.wire[p]

\* A frame that has been begun has been reported; only a bad one is left unfinished.
Begun ==
    \A i \in DOMAIN frames : Start(ends, i) < Taken =>
        /\ Reported(i)
        /\ Taken < ends[i] => ~frames[i].good /\ ends[i] <= pos

\* Every frame that has arrived has been reported.
AllPassed == \A i \in DOMAIN frames : ends[i] <= pos => ends[i] <= Taken /\ Reported(i)

InOrder ==
    /\ out \in Seq(Outcome)
    /\ \A k \in DOMAIN out : out[k].at <= Taken
    /\ \A j, k \in DOMAIN out : j < k => out[j].at <= out[k].at

CobsInv ==
    /\ FramedTypeOK /\ Taken \in 0..pos /\ InOrder
    /\ phase \in {"reading", "decoding"} =>
         Fetched /\ Begun /\ \A k \in DOMAIN out : out[k].at < Taken
    /\ phase = "reading" => \A j \in DOMAIN buffer : buffer[j] # 0
    /\ phase # "decoding" => AllPassed
    /\ phase = "done" => buffer = <<>>

\* Where the stream is.
LEMMA CobsPlace ==
    ASSUME OfFrames, CobsInv
    PROVE  /\ pos \in Nat /\ pos <= Len(input.wire) /\ buffer \in Seq(Nat) /\ Len(buffer) \in Nat
           /\ Taken \in Nat /\ Taken <= pos /\ Len(buffer) = pos - Taken /\ Len(input.wire) \in Nat
           /\ input.wire \in Seq(Nat)
  <1>1. input.wire \in Seq(Nat)
    BY FramesAreParts DEF PartsOf, LaidOut
  <1>2. pos \in 0..Len(input.wire) /\ buffer \in Seq(Nat) /\ Taken \in 0..pos
    BY DEF CobsInv, FramedTypeOK
  <1> DEFINE L == Len(input.wire)  n == Len(buffer)
  <1>3. L \in Nat /\ n \in Nat /\ Taken = pos - n
    BY <1>1, <1>2 DEF Taken
  <1> HIDE DEF L, n
  <1>4. pos \in Nat /\ pos <= L /\ Taken \in Nat /\ Taken <= pos /\ n = pos - Taken
    BY <1>2, <1>3 DEF L
  <1> QED BY <1>1, <1>2, <1>3, <1>4 DEF L, n

\* One more result, at the place where the stream is.
LEMMA InOrderKept ==
    ASSUME InOrder, NEW o \in Outcome, out' = Append(out, o), o.at = Taken,
           Taken \in Nat, Taken' \in Nat, Taken <= Taken'
    PROVE  /\ InOrder'
           /\ Taken < Taken' => \A k \in DOMAIN out' : out'[k].at < Taken'
  <1> DEFINE n == Len(out)  new == out'  T == Taken  U == Taken'
  <1>1. out \in Seq(Outcome) /\ DOMAIN out = 1..n
    BY DEF InOrder
  <1>2. /\ new \in Seq(Outcome) /\ DOMAIN new = 1..n + 1 /\ n \in Nat
        /\ new[n + 1] = o /\ \A k \in 1..n : new[k] = out[k]
    BY <1>1, OneMore
  <1>3. \A k \in 1..n : new[k].at \in Nat /\ new[k].at <= T
    <2> SUFFICES ASSUME NEW k \in 1..n PROVE new[k].at \in Nat /\ new[k].at <= T
      OBVIOUS
    <2>1. out[k] \in Outcome
      BY <1>1, ElementOfSeq
    <2>2. out[k].at \in Nat
      BY <2>1 DEF Outcome
    <2>3. out[k].at <= T
      BY <1>1 DEF InOrder
    <2> QED BY <1>2, <2>2, <2>3
  <1>4. new[n + 1].at = T
    BY <1>2
  <1>5. \A j, k \in 1..n : j < k => new[j].at <= new[k].at
    BY <1>1, <1>2 DEF InOrder
  <1>6. T \in Nat /\ U \in Nat /\ T <= U
    OBVIOUS
  <1> HIDE DEF n, new, T, U
  <1>7. \A k \in 1..n + 1 : k \in 1..n \/ k = n + 1
    BY <1>2
  <1>8. \A k \in DOMAIN new : new[k].at <= U /\ (T < U => new[k].at < U)
    <2> SUFFICES ASSUME NEW k \in 1..n + 1 PROVE new[k].at <= U /\ (T < U => new[k].at < U)
      BY <1>2
    <2>1. new[k].at \in Nat /\ new[k].at <= T
      BY <1>3, <1>4, <1>6, <1>7
    <2> QED BY <1>6, <2>1
  <1>9. \A j, k \in DOMAIN new : j < k => new[j].at <= new[k].at
    <2> SUFFICES ASSUME NEW j \in 1..n + 1, NEW k \in 1..n + 1, j < k PROVE new[j].at <= new[k].at
      BY <1>2
    <2>1. j \in 1..n
      BY <1>2
    <2> QED BY <1>3, <1>4, <1>5, <1>7, <2>1
  <1>10. InOrder'
    BY <1>2, <1>8, <1>9 DEF InOrder, new, U
  <1> QED BY <1>8, <1>10 DEF T, U, new

\* decode takes a frame, or the rest of one, from a buffer with a zero in it.
LEMMA DecodeKeeps ==
    ASSUME OfFrames, CobsInv, phase = "decoding", FirstZero(buffer) # 0, DecodeFrame(buffer),
           input' = input, pos' = pos, phase' = phase
    PROVE  CobsInv'
  <1> DEFINE T == Taken  W == input.wire  n == Len(buffer)  y == FirstZero(buffer)
  <1>1. /\ pos \in Nat /\ pos <= Len(W) /\ buffer \in Seq(Nat) /\ n \in Nat
        /\ T \in Nat /\ T <= pos /\ n = pos - T /\ Len(W) \in Nat
    BY CobsPlace
  <1>2. y \in 1..n /\ buffer[y] = 0 /\ \A j \in 1..y - 1 : buffer[j] # 0
    BY <1>1, FirstZeroFacts
  <1>3. Fetched /\ Begun /\ InOrder /\ \A k \in DOMAIN out : out[k].at < T
    BY DEF CobsInv
  <1> HIDE DEF T, W, n, y
  <1>4. PICK c \in DOMAIN frames : Within(c, T + 1)
    <2>1. T + 1 \in 1..Len(W)
      BY <1>1, <1>2
    <2> QED BY <2>1, FramesCover DEF W
  <1> DEFINE a == Start(ends, c)  z == ends[c]
  <1>5. a \in Nat /\ z \in Nat /\ a <= T /\ T < z /\ z <= Len(W) /\ W[z] = 0
    <2>1. a \in Nat /\ z \in Nat /\ z <= Len(W) /\ W[z] = 0
      BY FramePlace DEF W
    <2>2. a < T + 1 /\ T + 1 <= z
      BY <1>4 DEF Within
    <2> QED BY <1>1, <2>1, <2>2
  <1>6. \A p \in Nat : a < p /\ p < z => W[p] # 0
    BY FramePlace DEF W
  <1>7. T # a => ~frames[c].good /\ z <= pos
    <2>1. T # a => a < T
      BY <1>1, <1>5
    <2>2. a < T /\ T < z => ~frames[c].good /\ z <= pos
      BY <1>3 DEF Begun, T
    <2> QED BY <1>5, <2>1, <2>2
  <1>8. \A p \in T + 1..pos : Within(c, p) /\ (p = z \/ T = a) => buffer[p - T] = W[p]
    <2>1. \A p \in T + 1..pos : Within(c, p) /\ (p = z \/ T <= a) => buffer[p - T] = W[p]
      BY <1>3 DEF Fetched, T, W
    <2>2. T = a => T <= a
      BY <1>1, <1>5
    <2> QED BY <2>1, <2>2
  <1> DEFINE q == T + y
  <1>9. q = T + y /\ q \in T + 1..pos /\ q \in Nat /\ q - T = y /\ a < q
    BY <1>1, <1>2, <1>5
  <1>10. z <= pos
    <2>1. CASE T # a
      BY <1>7, <2>1
    <2>2. CASE T = a
      <3>1. SUFFICES ASSUME ~(z <= pos) PROVE FALSE
        OBVIOUS
      <3>2. q < z
        BY <1>1, <1>5, <1>9, <3>1
      <3>3. Within(c, q)
        BY <1>5, <1>9, <3>2 DEF Within
      <3>4. buffer[y] = W[q]
        BY <1>8, <1>9, <2>2, <3>3
      <3> QED BY <1>2, <1>6, <1>9, <3>2, <3>4
    <2> QED BY <2>1, <2>2
  <1>11. y <= z - T
    <2>1. z \in T + 1..pos /\ z - T \in 1..n
      BY <1>1, <1>5, <1>10
    <2>2. Within(c, z)
      BY <1>1, <1>5 DEF Within
    <2>3. buffer[z - T] = 0
      BY <1>5, <1>8, <2>1, <2>2
    <2>4. ~(z - T \in 1..y - 1)
      BY <1>2, <2>3
    <2> QED BY <1>1, <1>2, <2>1, <2>4
  <1>12. T = a => y = z - T /\ FirstBody(buffer) = Body(c)
    <2> SUFFICES ASSUME T = a PROVE y = z - T /\ FirstBody(buffer) = Body(c)
      OBVIOUS
    <2>1. y = z - T
      <3> SUFFICES ASSUME y # z - T PROVE FALSE
        OBVIOUS
      <3>1. q < z
        <4> HIDE DEF q, z, a
        <4> QED BY <1>1, <1>2, <1>5, <1>9, <1>11
      <3>2. Within(c, q)
        BY <1>5, <1>9, <3>1 DEF Within
      <3>3. buffer[y] = W[q]
        BY <1>8, <1>9, <3>2
      <3> QED BY <1>2, <1>6, <1>9, <3>1, <3>3
    <2> DEFINE b == FirstBody(buffer)  d == Body(c)
    <2>2. b \in Seq(Nat) /\ Len(b) = y - 1 /\ \A j \in 1..y - 1 : b[j] = buffer[j]
      <3>1. /\ b \in Seq(Nat \ {0}) /\ Len(b) = y - 1
            /\ \A j \in 1..y - 1 : b[j] = buffer[j]
        BY <1>1, FirstBodyOf DEF y
      <3> QED BY <3>1, SeqMonotonic
    <2>3. d \in Seq(Nat) /\ Len(d) = (z - a) - 1 /\ \A j \in 1..Len(d) : W[a + j] = d[j]
      <3>1. d \in Seq(Byte \ {0}) /\ Byte \ {0} \subseteq Nat
        BY FrameBody, CodeAssumption DEF Byte
      <3>2. d \in Seq(Nat)
        BY <3>1, SeqMonotonic
      <3> QED BY <3>2, FramePlace DEF W
    <2> HIDE DEF b, d, a, z, q
    <2>4. Len(b) = Len(d)
      BY <1>1, <1>5, <2>1, <2>2, <2>3
    <2>5. ASSUME NEW j \in 1..Len(b) PROVE b[j] = d[j]
      <3>1. j \in Nat /\ j \in 1..y - 1 /\ T + j \in T + 1..pos /\ a < T + j /\ T + j < z /\ (T + j) - T = j
        BY <1>1, <1>2, <1>5, <1>10, <2>1, <2>2
      <3>2. Within(c, T + j)
        <4>1. T + j <= z
          BY <1>1, <1>5, <3>1
        <4> QED BY <3>1, <4>1 DEF Within, a, z
      <3>3. buffer[j] = W[T + j]
        BY <1>8, <3>1, <3>2
      <3> QED BY <2>2, <2>3, <2>4, <3>1, <3>3
    <2>6. b = d
      BY <2>2, <2>3, <2>4, <2>5, SeqEqual
    <2> QED BY <2>1, <2>6 DEF b, d
  <1> DEFINE o == Given(buffer)
  <1>13. /\ out' = Append(out, o)
         /\ \E s \in Seq(Nat), x \in 1..y :
              /\ Len(s) = n /\ \A j \in y..n : s[j] = buffer[j]
              /\ buffer' = Rest(s, x)
              /\ CobsDecode(FirstBody(buffer)).ok => x = y
    BY <1>1, DecodeFrameGives DEF y, n
  <1>14. PICK s \in Seq(Nat) : \E x \in 1..y :
              /\ Len(s) = n /\ \A j \in y..n : s[j] = buffer[j]
              /\ buffer' = Rest(s, x)
              /\ CobsDecode(FirstBody(buffer)).ok => x = y
    BY <1>13
  <1>15. PICK x \in 1..y :
              /\ Len(s) = n /\ \A j \in y..n : s[j] = buffer[j]
              /\ buffer' = Rest(s, x)
              /\ CobsDecode(FirstBody(buffer)).ok => x = y
    BY <1>14
  <1>16. o \in Outcome /\ o.at = T /\ o.ok = CobsDecode(FirstBody(buffer)).ok
         /\ (o.ok => o.msg = CobsDecode(FirstBody(buffer)).msg)
    <2>1. o \in Outcome /\ o.at = T
      BY <1>1, GivenOutcome DEF y, T
    <2> QED BY <2>1 DEF Given
  <1> HIDE DEF o
  <1> DEFINE U == Taken'
  <1>17. /\ buffer' \in Seq(Nat) /\ Len(buffer') = n - x
         /\ \A j \in 1..n - x : buffer'[j] = s[x + j]
    <2>1. x \in 0..Len(s)
      BY <1>1, <1>2, <1>15
    <2> QED BY <1>15, <2>1, RestOf
  <1>18. U = T + x /\ U \in Nat /\ T < U /\ U <= z /\ U <= pos
    <2>1. U = pos - Len(buffer')
      BY DEF Taken
    <2> HIDE DEF U
    <2> QED BY <1>1, <1>2, <1>5, <1>10, <1>11, <1>17, <2>1, SMTT(30)
  <1> HIDE DEF U
  <1>19. frames' = frames /\ ends' = ends /\ input'.wire = W
    BY DEF frames, ends, W
  <1>20. \A i \in DOMAIN frames : /\ i < c => ends[i] <= a
                                  /\ c < i => z <= Start(ends, i)
                                  /\ i \in Nat /\ Start(ends, i) \in Nat /\ ends[i] \in Nat /\ Start(ends, i) < ends[i]
    BY FrameOrder, FramePlace
  <1>21. c \in Nat
    BY FramePlace
  <1> HIDE DEF a, z, q
  <1>22. Fetched'
    <2> SUFFICES ASSUME NEW p \in U + 1..pos, NEW i \in DOMAIN frames, Within(i, p),
                        p = ends[i] \/ U <= Start(ends, i)
                 PROVE  buffer'[p - U] = W[p]
      BY <1>19 DEF Fetched, Within, U
    <2>1. p \in Nat /\ T < p /\ p <= pos /\ p \in T + 1..pos /\ U < p
      BY <1>1, <1>18
    <2>2. Start(ends, i) < p /\ p <= ends[i]
      BY DEF Within
    <2>3. p - T \in y..n /\ (p = ends[i] \/ T <= Start(ends, i))
      <3>1. CASE i = c
        <4>1. ~(U <= Start(ends, i))
          BY <1>5, <1>1, <1>18, <3>1 DEF a
        <4>2. p = z
          BY <3>1, <4>1 DEF z
        <4> QED BY <1>1, <1>2, <1>5, <1>11, <2>1, <4>1, <4>2, SMTT(30)
      <3>2. CASE i # c
        <4>1. ~(i < c)
          BY <1>1, <1>5, <1>20, <2>1, <2>2
        <4>2. z <= Start(ends, i)
          BY <1>20, <1>21, <3>2, <4>1
        <4>3. Start(ends, i) \in Nat
          BY <1>20
        <4> QED BY <1>1, <1>2, <1>5, <1>11, <2>1, <2>2, <4>2, <4>3
      <3> QED BY <3>1, <3>2
    <2>4. buffer[p - T] = W[p]
      BY <1>3, <2>1, <2>3 DEF Fetched, T, W
    <2>5. p - U \in 1..n - x /\ x + (p - U) = p - T
      <3>1. x \in Nat /\ U = T + x /\ T \in Nat /\ n = pos - T /\ pos \in Nat
        BY <1>1, <1>2, <1>18
      <3>2. p \in Nat /\ p <= pos /\ U < p
        BY <2>1
      <3> QED BY <3>1, <3>2
    <2> QED BY <1>15, <1>17, <2>3, <2>4, <2>5
  <1>23. Begun'
    <2> SUFFICES ASSUME NEW i \in DOMAIN frames, Start(ends, i) < U
                 PROVE  Reported(i)' /\ (U < ends[i] => ~frames[i].good /\ ends[i] <= pos)
      BY <1>19 DEF Begun, U
    <2>1. ~(c < i)
      BY <1>5, <1>18, <1>20
    <2>2. out \in Seq(Outcome)
      BY <1>3 DEF InOrder
    <2>3. CASE i < c
      <3>1. ends[i] <= T /\ Start(ends, i) < T /\ ~(U < ends[i])
        BY <1>1, <1>5, <1>18, <1>20, <2>3, SMTT(30)
      <3>2. Reported(i)
        BY <1>3, <3>1 DEF Begun, T
      <3>3. ~(Start(ends, i) <= o.at /\ o.at < ends[i])
        BY <1>1, <1>16, <1>20, <3>1
      <3>4. Reported(i)'
        BY <1>13, <1>16, <2>2, <3>2, <3>3, ReportedStays
      <3> QED BY <3>1, <3>4
    <2>4. CASE i = c /\ T # a
      <3>1. ~frames[i].good /\ ends[i] <= pos /\ Start(ends, i) < T
        BY <1>1, <1>5, <1>7, <2>4 DEF z, a
      <3>2. Reported(i)
        BY <1>3, <3>1 DEF Begun, T
      <3>3. Reported(i)'
        BY <1>13, <1>16, <2>2, <3>1, <3>2, ReportedStays
      <3> QED BY <3>1, <3>3
    <2>5. CASE i = c /\ T = a
      <3>1. Results(i) = {}
        <4>1. \A k \in DOMAIN out : out[k].at \in Nat /\ out[k].at < T
          <5> SUFFICES ASSUME NEW k \in DOMAIN out PROVE out[k].at \in Nat /\ out[k].at < T
            OBVIOUS
          <5>1. out[k] \in Outcome
            BY <2>2
          <5> QED BY <1>3, <5>1 DEF Outcome
        <4>2. \A k \in DOMAIN out : ~(Start(ends, i) <= out[k].at)
          BY <1>5, <2>5, <4>1 DEF a
        <4> QED BY <4>2 DEF Results
      <3>2. Start(ends, i) <= o.at /\ o.at < ends[i]
        BY <1>5, <1>16, <2>5 DEF a, z
      <3>3. frames[i].good => o.ok /\ o.msg = frames[i].msg
        <4> SUFFICES ASSUME frames[i].good PROVE o.ok /\ o.msg = frames[i].msg
          OBVIOUS
        <4>1. CobsDecode(FirstBody(buffer)) = [ok |-> TRUE, msg |-> frames[i].msg]
          BY <1>12, <2>5, FrameBody
        <4> QED BY <1>16, <4>1
      <3>4. ~frames[i].good => ~o.ok
        BY <1>12, <1>16, <2>5, FrameBody
      <3>5. Reported(i)'
        BY <1>13, <1>16, <2>2, <3>1, <3>2, <3>3, <3>4, ReportedFirst
      <3>6. frames[i].good => ~(U < ends[i])
        <4> SUFFICES ASSUME frames[i].good PROVE ~(U < ends[i])
          OBVIOUS
        <4>1. x = y /\ y = z - T
          BY <1>12, <1>15, <1>16, <2>5, <3>3
        <4> QED BY <1>1, <1>5, <1>18, <2>5, <4>1 DEF z
      <3> QED BY <1>10, <2>5, <3>5, <3>6 DEF z
    <2> QED BY <1>20, <1>21, <2>1, <2>3, <2>4, <2>5
  <1>24. InOrder' /\ \A k \in DOMAIN out' : out'[k].at < Taken'
    BY <1>1, <1>3, <1>13, <1>16, <1>18, InOrderKept, SMTT(30) DEF T, U
  <1>25. FramedTypeOK' /\ (Taken \in 0..pos)'
    <2>1. FramedTypeOK'
      BY <1>17 DEF FramedTypeOK, CobsInv
    <2>2. U \in 0..pos
      BY <1>1, <1>18
    <2> QED BY <2>1, <2>2 DEF U
  <1> QED BY <1>22, <1>23, <1>24, <1>25 DEF CobsInv

\* What arrives is put behind what is in the buffer.
LEMMA ReadBuffer ==
    ASSUME Read, pos \in Nat, pos <= Len(input.wire), buffer \in Seq(Nat), input.wire \in Seq(Nat),
           Taken \in Nat, Taken <= pos, Len(buffer) = pos - Taken
    PROVE  /\ pos' \in Nat /\ pos < pos' /\ pos' <= Len(input.wire) /\ Taken' = Taken
           /\ buffer' \in Seq(Nat) /\ Len(buffer') = pos' - Taken
           /\ \A j \in 1..Len(buffer) : buffer'[j] = buffer[j]
           /\ \A j \in 1..pos' - Taken : j > Len(buffer) => buffer'[j] = input.wire[Taken + j]
  <1> DEFINE T == Taken  W == input.wire  n == Len(buffer)  U == Taken'
  <1>1. /\ pos \in Nat /\ pos <= Len(W) /\ buffer \in Seq(Nat) /\ n \in Nat
        /\ T \in Nat /\ T <= pos /\ n = pos - T /\ Len(W) \in Nat /\ W \in Seq(Nat)
    OBVIOUS
  <1>2. PICK k \in (pos + 1)..Len(W) : pos' = k /\ buffer' = buffer \o SubSeq(W, pos + 1, k)
    BY DEF Read
  <1> DEFINE new == SubSeq(W, pos + 1, k)
  <1>3. k \in Nat /\ k <= Len(W) /\ pos < k /\ pos <= k
    BY <1>1, <1>2
  <1> HIDE DEF T, W, n, U
  <1>4. new \in Seq(Nat) /\ Len(new) = k - pos /\ \A j \in 1..k - pos : new[j] = W[pos + j]
    <2>1. IsPart(new, W, pos, k)
      BY <1>1, <1>3, PartAfter
    <2> QED BY <2>1 DEF IsPart
  <1>5. buffer' = buffer \o new
    BY <1>2 DEF W
  <1> HIDE DEF new
  <1>6. /\ buffer' \in Seq(Nat) /\ Len(buffer') = n + (k - pos)
        /\ \A j \in 1..n + (k - pos) : buffer'[j] = IF j <= n THEN buffer[j] ELSE new[j - n]
    <2> DEFINE t == buffer \o new
    <2>1. /\ t \in Seq(Nat) /\ Len(t) = n + Len(new)
          /\ \A j \in 1..n + Len(new) : t[j] = IF j <= n THEN buffer[j] ELSE new[j - n]
      BY <1>1, <1>4, ConcatProperties, ZenonT(40) DEF n
    <2>2. buffer' = t
      BY <1>5
    <2> HIDE DEF t
    <2> QED BY <1>4, <2>1, <2>2
  <1>7. U = T /\ pos' = k /\ n + (k - pos) = k - T
    <2>1. U = k - (n + (k - pos))
      BY <1>2, <1>6 DEF Taken, U
    <2> QED BY <1>1, <1>2, <1>3, <2>1
  <1>8. ASSUME NEW j \in 1..n PROVE buffer'[j] = buffer[j]
    <2>1. j \in 1..n + (k - pos) /\ j <= n
      BY <1>1, <1>3
    <2> QED BY <1>6, <2>1
  <1>9. ASSUME NEW j \in 1..k - T, j > n PROVE buffer'[j] = W[T + j]
    <2>1. j \in 1..n + (k - pos) /\ ~(j <= n) /\ j - n \in 1..k - pos /\ pos + (j - n) = T + j
      BY <1>1, <1>3, <1>7, <1>9
    <2>2. new[j - n] = W[pos + (j - n)]
      BY <1>4, <2>1
    <2> QED BY <1>6, <2>1, <2>2
  <1> QED BY <1>3, <1>6, <1>7, <1>8, <1>9 DEF T, W, n, U

\* Bytes arrive.
LEMMA ReadKeeps ==
    ASSUME OfFrames, CobsInv, Read
    PROVE  CobsInv'
  <1> DEFINE T == Taken  W == input.wire  n == Len(buffer)  k == pos'  U == Taken'
  <1>1. /\ pos \in Nat /\ pos <= Len(W) /\ buffer \in Seq(Nat) /\ n \in Nat
        /\ T \in Nat /\ T <= pos /\ n = pos - T /\ Len(W) \in Nat /\ W \in Seq(Nat)
    BY CobsPlace
  <1>2. phase = "reading" /\ phase' = "decoding" /\ input' = input /\ out' = out
    BY DEF Read
  <1>3. Fetched /\ Begun /\ InOrder /\ \A j \in DOMAIN out : out[j].at < T
    BY <1>2 DEF CobsInv
  <1>4. /\ k \in Nat /\ pos < k /\ k <= Len(W) /\ U = T
        /\ buffer' \in Seq(Nat) /\ Len(buffer') = k - T
        /\ \A j \in 1..n : buffer'[j] = buffer[j]
        /\ \A j \in 1..k - T : j > n => buffer'[j] = W[T + j]
    BY <1>1, ReadBuffer
  <1> HIDE DEF T, W, n, k, U
  <1>5. frames' = frames /\ ends' = ends /\ input'.wire = W
    BY <1>2 DEF frames, ends, W
  <1>6. Fetched'
    <2> SUFFICES ASSUME NEW p \in T + 1..k, NEW i \in DOMAIN frames, Within(i, p),
                        p = ends[i] \/ T <= Start(ends, i)
                 PROVE  buffer'[p - T] = W[p]
      BY <1>4, <1>5 DEF Fetched, Within, U, k
    <2>1. p - T \in 1..k - T /\ p \in Nat
      BY <1>1, <1>4, SMTT(30)
    <2>2. CASE p <= pos
      <3>1. p \in T + 1..pos /\ p - T \in 1..n
        BY <1>1, <2>1, <2>2
      <3>2. buffer[p - T] = W[p]
        BY <1>3, <3>1 DEF Fetched, T, W
      <3> QED BY <1>4, <2>1, <3>1, <3>2
    <2>3. CASE ~(p <= pos)
      <3>1. p - T > n /\ T + (p - T) = p
        BY <1>1, <2>1, <2>3
      <3> QED BY <1>4, <2>1, <3>1
    <2> QED BY <2>2, <2>3
  <1>7. Begun'
    <2> SUFFICES ASSUME NEW i \in DOMAIN frames, Start(ends, i) < T
                 PROVE  Reported(i)' /\ (T < ends[i] => ~frames[i].good /\ ends[i] <= k)
      BY <1>4, <1>5 DEF Begun, U, k
    <2>1. Reported(i) /\ (T < ends[i] => ~frames[i].good /\ ends[i] <= pos)
      BY <1>3 DEF Begun, T
    <2>2. Reported(i)'
      BY <1>2, <2>1 DEF Reported, Results, frames, ends
    <2>3. ends[i] \in Nat
      BY FramePlace
    <2>4. ends[i] <= pos => ends[i] <= k
      BY <1>1, <1>4, <2>3
    <2> QED BY <2>1, <2>2, <2>4
  <1>8. InOrder' /\ \A j \in DOMAIN out' : out'[j].at < Taken'
    BY <1>2, <1>3, <1>4 DEF InOrder, T, U
  <1>9. FramedTypeOK' /\ (Taken \in 0..pos)'
    <2>1. k \in 0..Len(W) /\ T \in 0..k
      BY <1>1, <1>4
    <2> QED BY <1>2, <1>4, <1>5, <2>1 DEF FramedTypeOK, U, k
  <1> QED BY <1>2, <1>6, <1>7, <1>8, <1>9 DEF CobsInv

\* The buffer is as it was.
LEMMA SameBuffer ==
    ASSUME input' = input, pos' = pos, buffer' = buffer, out' = out
    PROVE  /\ Taken' = Taken /\ frames' = frames /\ ends' = ends
           /\ \A i : Reported(i)' = Reported(i)
           /\ InOrder' = InOrder /\ Fetched' = Fetched /\ Begun' = Begun /\ AllPassed' = AllPassed
  BY DEF Taken, frames, ends, Reported, Results, InOrder, Fetched, Begun, AllPassed, Within

\* No whole frame is left where there is no zero.
LEMMA NoZeroLeft ==
    ASSUME OfFrames, CobsInv, Fetched, Begun, \A j \in DOMAIN buffer : buffer[j] # 0
    PROVE  AllPassed
  <1> SUFFICES ASSUME NEW i \in DOMAIN frames, ends[i] <= pos
               PROVE  ends[i] <= Taken /\ Reported(i)
    BY DEF AllPassed
  <1> DEFINE T == Taken  W == input.wire  n == Len(buffer)
  <1>1. pos \in Nat /\ T \in Nat /\ T <= pos /\ n = pos - T /\ n \in Nat /\ DOMAIN buffer = 1..n
    BY CobsPlace
  <1>2. ends[i] \in Nat /\ Start(ends, i) \in Nat /\ Start(ends, i) < ends[i] /\ W[ends[i]] = 0
    BY FramePlace
  <1> HIDE DEF T, W, n
  <1>3. ends[i] <= T
    <2> SUFFICES ASSUME ~(ends[i] <= T) PROVE FALSE
      OBVIOUS
    <2>1. ends[i] \in T + 1..pos /\ ends[i] - T \in 1..n
      BY <1>1, <1>2
    <2>2. Within(i, ends[i])
      BY <1>2 DEF Within
    <2>3. buffer[ends[i] - T] = W[ends[i]]
      BY <2>1, <2>2 DEF Fetched, T, W
    <2> QED BY <1>1, <1>2, <2>1, <2>3
  <1>4. Start(ends, i) < T
    BY <1>1, <1>2, <1>3
  <1> QED BY <1>3, <1>4 DEF Begun, T

\* The stream of frames ends.
LEMMA EofKeeps ==
    ASSUME OfFrames, CobsInv, Eof
    PROVE  CobsInv'
  <1>1. /\ phase = "reading" /\ phase' = "draining"
        /\ input' = input /\ pos' = pos /\ buffer' = buffer /\ out' = out
    BY DEF Eof
  <1>2. FramedTypeOK' /\ AllPassed /\ InOrder /\ Taken \in 0..pos
    BY <1>1 DEF FramedTypeOK, CobsInv
  <1> QED BY <1>1, <1>2, SameBuffer DEF CobsInv

\* decode and decode_eof take nothing: there is no zero.
LEMMA AskKeeps ==
    ASSUME OfFrames, CobsInv, phase \in {"decoding", "draining"}, AskForMore, UNCHANGED <<input, pos, buffer, out>>,
           phase = "decoding" => FirstZero(buffer) = 0,
           phase = "draining" => buffer = <<>>
    PROVE  CobsInv'
  <1>1. input' = input /\ pos' = pos /\ buffer' = buffer /\ out' = out
    OBVIOUS
  <1>2. FramedTypeOK' /\ InOrder /\ Taken \in 0..pos
    BY <1>1 DEF FramedTypeOK, CobsInv, AskForMore
  <1>3. CASE phase = "decoding"
    <2>1. phase' = "reading" /\ Fetched /\ Begun /\ \A k \in DOMAIN out : out[k].at < Taken
      BY <1>3 DEF AskForMore, CobsInv
    <2>2. \A j \in DOMAIN buffer : buffer[j] # 0
      <3>1. buffer \in Seq(Nat) /\ DOMAIN buffer = 1..Len(buffer)
        BY CobsPlace
      <3> QED BY <1>3, <3>1, FirstZeroFacts
    <2>3. AllPassed
      BY <2>1, <2>2, NoZeroLeft
    <2> QED BY <1>1, <1>2, <2>1, <2>2, <2>3, SameBuffer DEF CobsInv
  <1>4. CASE phase = "draining"
    <2>1. phase' = "done" /\ AllPassed /\ buffer = <<>>
      BY <1>4 DEF AskForMore, CobsInv
    <2> QED BY <1>1, <1>2, <2>1, SameBuffer DEF CobsInv
  <1> QED BY <1>3, <1>4

\* An unfinished frame is finished.
LEMMA CompletedOf ==
    ASSUME NEW b \in Seq(Nat)
    PROVE  /\ Completed(b) \in Seq(Nat) /\ Len(Completed(b)) <= Len(b) + 1 /\ Len(Completed(b)) \in Nat
           /\ FirstZero(Completed(b)) = 0 => b = <<>>
  <1> DEFINE c == Completed(b)
  <1>1. CASE b # <<>> /\ Last(b) # 0
    <2>1. c = Append(b, 0)
      BY <1>1 DEF Completed
    <2>2. c \in Seq(Nat) /\ Len(c) = Len(b) + 1 /\ c[Len(b) + 1] = 0 /\ Len(b) \in Nat
      BY <2>1, OneMore
    <2> HIDE DEF c
    <2>3. Len(b) + 1 \in 1..Len(c)
      BY <2>2
    <2>4. FirstZero(c) # 0
      BY <2>2, <2>3, FirstZeroFacts
    <2> QED BY <2>2, <2>4 DEF c
  <1>2. CASE b = <<>>
    <2>1. c = b
      BY <1>2 DEF Completed
    <2>2. Len(b) \in Nat /\ Len(b) <= Len(b) + 1
      OBVIOUS
    <2> QED BY <1>2, <2>1, <2>2
  <1>3. CASE b # <<>> /\ ~(Last(b) # 0)
    <2>1. c = b /\ b[Len(b)] = 0
      BY <1>3 DEF Completed, Last
    <2>2. Len(b) \in 1..Len(b)
      BY <1>3, EmptySeq
    <2>3. FirstZero(b) # 0
      BY <2>1, <2>2, FirstZeroFacts
    <2> QED BY <2>1, <2>2, <2>3
  <1> QED BY <1>1, <1>2, <1>3

\* decode_eof makes something of an unfinished frame.
LEMMA DrainKeeps ==
    ASSUME OfFrames, CobsInv, phase = "draining", NEW src, src = Completed(buffer), FirstZero(src) # 0,
           DecodeFrame(src), input' = input, pos' = pos, phase' = phase
    PROVE  CobsInv'
  <1> DEFINE T == Taken  n == Len(buffer)  y == FirstZero(src)  o == Given(src)  U == Taken'
  <1>1. pos \in Nat /\ buffer \in Seq(Nat) /\ n \in Nat /\ T \in Nat /\ T <= pos /\ n = pos - T
    BY CobsPlace
  <1>2. src \in Seq(Nat) /\ Len(src) <= n + 1 /\ Len(src) \in Nat
    BY <1>1, CompletedOf
  <1>3. y \in 1..Len(src)
    BY <1>2, FirstZeroFacts
  <1>4. AllPassed /\ InOrder
    BY DEF CobsInv
  <1>5. o \in Outcome /\ o.at = T
    BY <1>1, <1>2, GivenOutcome
  <1>6. /\ out' = Append(out, o)
        /\ \E s \in Seq(Nat), x \in 1..y : Len(s) = Len(src) /\ buffer' = Rest(s, x)
    BY <1>2, DecodeFrameGives
  <1> HIDE DEF o, y
  <1>7. PICK s \in Seq(Nat) : \E x \in 1..y : Len(s) = Len(src) /\ buffer' = Rest(s, x)
    BY <1>6
  <1>8. PICK x \in 1..y : Len(s) = Len(src) /\ buffer' = Rest(s, x)
    BY <1>7
  <1>9. buffer' \in Seq(Nat) /\ Len(buffer') = Len(src) - x /\ x \in Nat /\ 0 < x /\ x <= Len(src)
    <2>1. x \in 0..Len(s) /\ x \in Nat /\ 0 < x /\ x <= Len(src)
      BY <1>2, <1>3, <1>8
    <2> QED BY <1>8, <2>1, RestOf
  <1>10. U = pos - Len(buffer')
    BY DEF Taken
  <1> HIDE DEF T, n, U
  <1>11. U \in Nat /\ T <= U /\ U <= pos
    BY <1>1, <1>2, <1>9, <1>10
  <1>12. AllPassed'
    <2> SUFFICES ASSUME NEW i \in DOMAIN frames, ends[i] <= pos PROVE ends[i] <= U /\ Reported(i)'
      BY DEF AllPassed, frames, ends, U
    <2>1. ends[i] <= T /\ Reported(i) /\ ends[i] \in Nat
      BY <1>4, FramePlace DEF AllPassed, T
    <2>2. ~(Start(ends, i) <= o.at /\ o.at < ends[i]) /\ ends[i] <= U
      BY <1>1, <1>5, <1>11, <2>1
    <2>3. out \in Seq(Outcome)
      BY <1>4 DEF InOrder
    <2>4. Reported(i)'
      BY <1>5, <1>6, <2>1, <2>2, <2>3, ReportedStays
    <2> QED BY <2>2, <2>4
  <1>13. InOrder'
    BY <1>1, <1>4, <1>5, <1>6, <1>11, InOrderKept DEF T, U
  <1>14. FramedTypeOK' /\ (Taken \in 0..pos)'
    <2>1. U \in 0..pos
      BY <1>1, <1>11
    <2> QED BY <1>9, <2>1 DEF FramedTypeOK, CobsInv, U
  <1> QED BY <1>12, <1>13, <1>14 DEF CobsInv

\* Nothing has arrived yet.
LEMMA CobsInit ==
    ASSUME OfFrames, FramedInit
    PROVE  CobsInv
  <1>1. input.wire \in Seq(Nat)
    BY FramesAreParts DEF PartsOf, LaidOut
  <1>2. pos = 0 /\ buffer = <<>> /\ phase = "reading" /\ out = <<>> /\ Len(buffer) = 0 /\ Taken = 0 - 0
    BY EmptySeq DEF FramedInit, Taken
  <1>3. Taken = 0 /\ DOMAIN out = {} /\ DOMAIN buffer = {}
    BY <1>2
  <1>4. out \in Seq(Outcome) /\ buffer \in Seq(Nat) /\ 0 \in 0..Len(input.wire)
    BY <1>1, <1>2, EmptySeq
  <1>5. \A i \in DOMAIN frames : ends[i] \in Nat /\ Start(ends, i) \in Nat /\ Start(ends, i) < ends[i]
    BY FramePlace
  <1>6. Begun /\ AllPassed
    BY <1>2, <1>3, <1>5 DEF Begun, AllPassed
  <1>7. Fetched
    <2>1. Taken + 1..pos = {}
      BY <1>2, <1>3
    <2> QED BY <2>1 DEF Fetched
  <1> QED BY <1>2, <1>3, <1>4, <1>6, <1>7 DEF CobsInv, FramedTypeOK, InOrder

\* A step of the codec on a stream of frames.
LEMMA CobsStepKeeps ==
    ASSUME OfFrames, CobsInv, CobsStep
    PROVE  CobsInv'
  <1>1. CASE Decode /\ FirstZero(buffer) = 0
    BY <1>1, AskKeeps DEF Decode
  <1>2. CASE Decode /\ FirstZero(buffer) # 0
    BY <1>2, DecodeKeeps DEF Decode
  <1>3. CASE DecodeEof /\ FirstZero(Completed(buffer)) = 0
    <2>1. buffer = <<>>
      BY <1>3, CobsPlace, CompletedOf
    <2> QED BY <1>3, <2>1, AskKeeps DEF DecodeEof
  <1>4. CASE DecodeEof /\ FirstZero(Completed(buffer)) # 0
    BY <1>4, DrainKeeps DEF DecodeEof
  <1> QED BY <1>1, <1>2, <1>3, <1>4 DEF CobsStep

\* The invariant says what FramesDecode does.
LEMMA CobsSafe ==
    ASSUME OfFrames, CobsInv
    PROVE  FramedTypeOK /\ FramesDecode
  <1>1. FramedTypeOK
    BY DEF CobsInv
  <1>2. \A j, k \in DOMAIN out : j < k => out[j].at <= out[k].at
    BY DEF CobsInv, InOrder
  <1>3. phase = "reading" => \A i \in DOMAIN frames : ends[i] <= pos => ends[i] <= Taken
    BY DEF CobsInv, AllPassed
  <1>4. phase = "done" => buffer = <<>>
    BY DEF CobsInv
  <1>5. ASSUME NEW i \in DOMAIN frames, ends[i] <= Taken PROVE Reported(i)
    <2>1. /\ ends[i] \in Nat /\ Start(ends, i) \in Nat /\ Start(ends, i) < ends[i]
          /\ Taken \in Nat /\ Taken <= pos /\ pos \in Nat
      BY FramePlace, CobsPlace
    <2>2. Start(ends, i) < Taken /\ ends[i] <= pos
      BY <1>5, <2>1
    <2>3. CASE phase \in {"reading", "decoding"}
      BY <2>2, <2>3 DEF CobsInv, Begun
    <2>4. CASE phase # "decoding"
      BY <2>2, <2>4 DEF CobsInv, AllPassed
    <2> QED BY <2>3, <2>4
  <1> QED BY <1>1, <1>2, <1>3, <1>4, <1>5 DEF FramesDecode

-----------------------------------------------------------------------------
(* The inductive invariant of a stream with delimiters.                     *)

OfItems == input \in Inputs /\ input.codec = "delimiters"

Item == [from : Nat, to : Nat, item : Seq(Nat)]

\* What has arrived already differs from a delimiter that would be after so many bytes.
Dead(at) == \E n \in 1..Len(delimiter) : at + n <= pos /\ input.wire[at + n] # delimiter[n]

\* The buffer is the end of what has arrived, and no delimiter begins before the
\* place of the search.
Searched ==
    /\ \A j \in 1..Len(buffer) : buffer[j] = input.wire[Taken + j]
    /\ search_from \in 0..Len(buffer)
    /\ \A at \in Nat : Taken <= at /\ at < Taken + search_from => Dead(at)

\* The items so far are between delimiters, one after the other; the last of a stream
\* that has ended is before its end.
Chain(first) ==
    \A k \in DOMAIN out :
        /\ out[k].from = After(k - 1, first)
        /\ out[k].item = Decoded(SubSeq(input.wire, out[k].from + 1, out[k].to))
        /\ IF inclusive_terminated /\ k = Len(out)
           THEN out[k].to = pos /\ NoneAfter(out[k].from)
           ELSE FirstAfter(out[k].from, out[k].to)

\* The items begin somewhere, and what is in the buffer comes after the last.
Chained ==
    \E first \in Nat :
        /\ first <= pos /\ First(first) /\ Chain(first)
        /\ ~inclusive_terminated => After(Len(out), first) = Taken

Ended == buffer = <<>> /\ out # <<>> /\ phase \in {"draining", "done"}

DelimInv ==
    /\ FramedTypeOK /\ Taken \in 0..pos /\ Searched /\ out \in Seq(Item)
    /\ inclusive_seen_header \in BOOLEAN /\ inclusive_terminated \in BOOLEAN
    /\ phase # "decoding" => NoneAfter(Taken)
    /\ inclusive_terminated => inclusive /\ Ended
    /\ inclusive_seen_header => inclusive
    /\ inclusive /\ ~inclusive_seen_header =>
         IF inclusive_terminated THEN NoneAfter(0) ELSE out = <<>> /\ Taken = 0
    /\ inclusive_seen_header /\ phase = "done" => inclusive_terminated
    /\ inclusive_seen_header \/ ~inclusive => Chained

\* What is on the wire.
LEMMA ItemsInput ==
    ASSUME OfItems
    PROVE  /\ input.wire \in Seq(Nat) /\ Len(input.wire) \in Nat
           /\ delimiter \in Seq(Nat) /\ Len(delimiter) \in Nat /\ Len(delimiter) > 0
           /\ inclusive \in BOOLEAN /\ input.items \in Seq(Seq(Nat))
           /\ input.items # <<>> => Encoded(input)
  <1>1. DelimitedInput(input)
    BY InputsAssumption DEF OfItems
  <1>2. input.wire \in Seq(Nat) /\ delimiter \in Seq(Nat) /\ delimiter # <<>> /\ inclusive \in BOOLEAN
    BY <1>1 DEF DelimitedInput, delimiter, inclusive
  <1>3. input.items \in Seq(Seq(Nat)) /\ (input.items # <<>> => Encoded(input))
    BY <1>1 DEF DelimitedInput
  <1>4. Len(delimiter) \in Nat /\ Len(delimiter) # 0 /\ Len(input.wire) \in Nat
    BY <1>2, EmptySeq
  <1>5. Len(delimiter) > 0
    BY <1>4
  <1> QED BY <1>2, <1>3, <1>4, <1>5

\* Where the stream is.
LEMMA DelimPlace ==
    ASSUME OfItems, DelimInv
    PROVE  /\ pos \in Nat /\ pos <= Len(input.wire) /\ buffer \in Seq(Nat) /\ Len(buffer) \in Nat
           /\ Taken \in Nat /\ Taken <= pos /\ Len(buffer) = pos - Taken
           /\ search_from \in Nat /\ search_from <= Len(buffer)
           /\ \A j \in 1..Len(buffer) : buffer[j] = input.wire[Taken + j]
  <1>1. Len(input.wire) \in Nat
    BY ItemsInput
  <1>2. pos \in 0..Len(input.wire) /\ buffer \in Seq(Nat) /\ Taken \in 0..pos
    BY DEF DelimInv, FramedTypeOK
  <1>3. search_from \in 0..Len(buffer) /\ \A j \in 1..Len(buffer) : buffer[j] = input.wire[Taken + j]
    BY DEF DelimInv, Searched
  <1> DEFINE L == Len(input.wire)  n == Len(buffer)
  <1>4. L \in Nat /\ n \in Nat /\ Taken = pos - n
    BY <1>1, <1>2 DEF Taken
  <1> HIDE DEF L, n
  <1>5. pos \in Nat /\ pos <= L /\ Taken \in Nat /\ Taken <= pos /\ n = pos - Taken
    BY <1>2, <1>4 DEF L
  <1>6. search_from \in Nat /\ search_from <= n
    BY <1>3, <1>4 DEF n
  <1> QED BY <1>2, <1>3, <1>4, <1>5, <1>6 DEF L, n

-----------------------------------------------------------------------------
(* Where delimiters are.                                                    *)

\* The first k elements of d are in b after the first at.
IsAt(b, d, at, k) == \A m \in 1..k : b[at + m] = d[m]

\* Two sequences are compared element by element.
LEMMA SamePart ==
    ASSUME NEW b \in Seq(Nat), NEW d \in Seq(Nat), NEW at \in Nat, NEW k \in Nat, k <= Len(d), at + k <= Len(b)
    PROVE  SubSeq(b, at + 1, at + k) = SubSeq(d, 1, k) <=> IsAt(b, d, at, k)
  <1> DEFINE z == at + k  s == SubSeq(b, at + 1, z)  o == 0  t == SubSeq(d, o + 1, k)
  <1>1. z \in Nat /\ at <= z /\ z <= Len(b) /\ z - at = k
    OBVIOUS
  <1>2. o \in Nat /\ o <= k /\ k <= Len(d) /\ k - o = k /\ o + 1 = 1 /\ \A m \in 1..k : o + m = m
    OBVIOUS
  <1> HIDE DEF z, o
  <1>3. s \in Seq(Nat) /\ Len(s) = z - at /\ \A m \in 1..z - at : s[m] = b[at + m]
    <2>1. IsPart(s, b, at, z)
      BY <1>1, PartAfter
    <2> QED BY <2>1 DEF IsPart
  <1>4. t \in Seq(Nat) /\ Len(t) = k - o /\ \A m \in 1..k - o : t[m] = d[o + m]
    <2>1. IsPart(t, d, o, k)
      BY <1>2, PartAfter
    <2> QED BY <2>1 DEF IsPart
  <1>5. t = SubSeq(d, 1, k)
    BY <1>2
  <1> HIDE DEF s, t
  <1>6. Len(s) = k /\ \A m \in 1..k : s[m] = b[at + m]
    BY <1>1, <1>2, <1>3
  <1>7. Len(t) = k /\ \A m \in 1..k : t[m] = d[m]
    BY <1>1, <1>2, <1>4
  <1>8. s = t <=> \A m \in 1..k : b[at + m] = d[m]
    <2>1. s = t => \A m \in 1..k : b[at + m] = d[m]
      BY <1>6, <1>7
    <2>2. ASSUME \A m \in 1..k : b[at + m] = d[m] PROVE s = t
      <3>1. \A m \in 1..Len(s) : s[m] = t[m]
        BY <1>6, <1>7, <2>2
      <3> QED BY <1>3, <1>4, <1>6, <1>7, <3>1, SeqEqual
    <2> QED BY <2>1, <2>2
  <1> QED BY <1>8, <1>5 DEF s, z, IsAt

\* A delimiter has arrived where all its bytes have.
LEMMA OccursBytes ==
    ASSUME OfItems, pos \in Nat, pos <= Len(input.wire), NEW at \in Nat
    PROVE  Occurs(at) <=> /\ at + Len(delimiter) <= pos
                          /\ \A m \in 1..Len(delimiter) : input.wire[at + m] = delimiter[m]
  <1> DEFINE L == Len(delimiter)
  <1>1. L \in Nat /\ delimiter \in Seq(Nat) /\ input.wire \in Seq(Nat) /\ Len(input.wire) \in Nat
    BY ItemsInput
  <1>2. SubSeq(delimiter, 1, L) = delimiter
    BY <1>1, SubSeqFull
  <1>3. ASSUME at + L <= pos
        PROVE  SubSeq(input.wire, at + 1, at + L) = delimiter <=> \A m \in 1..L : input.wire[at + m] = delimiter[m]
    <2>1. at + L <= Len(input.wire) /\ L <= Len(delimiter)
      BY <1>1, <1>3
    <2> HIDE DEF L
    <2> DEFINE W == input.wire  d == delimiter
    <2>2. W \in Seq(Nat) /\ d \in Seq(Nat) /\ at + L <= Len(W) /\ L <= Len(d)
      BY <1>1, <2>1
    <2> HIDE DEF W, d
    <2>3. SubSeq(W, at + 1, at + L) = SubSeq(d, 1, L) <=> IsAt(W, d, at, L)
      BY <1>1, <2>2, SamePart
    <2> QED BY <1>2, <2>3 DEF IsAt, W, d
  <1> QED BY <1>3 DEF Occurs

\* Where a byte differs there is no delimiter.
LEMMA DeadOccursNot ==
    ASSUME OfItems, pos \in Nat, pos <= Len(input.wire), NEW at \in Nat, Dead(at)
    PROVE  ~Occurs(at)
  BY OccursBytes DEF Dead

\* What has been found stays found.
LEMMA FoundStays ==
    ASSUME OfItems, pos \in Nat, pos' \in Nat, pos <= pos', pos' <= Len(input.wire), input' = input
    PROVE  /\ \A at \in Nat : at + Len(delimiter) <= pos => Occurs(at)' = Occurs(at)
           /\ \A at \in Nat : Dead(at) => Dead(at)'
           /\ \A from, at \in Nat : FirstAfter(from, at) => FirstAfter(from, at)'
           /\ delimiter' = delimiter /\ inclusive' = inclusive
  <1>1. delimiter' = delimiter /\ inclusive' = inclusive
    BY DEF delimiter, inclusive
  <1> DEFINE L == Len(delimiter)
  <1>2. L \in Nat /\ L > 0
    BY ItemsInput
  <1>3. \A at \in Nat : at + L <= pos => Occurs(at) = (SubSeq(input.wire, at + 1, at + L) = delimiter)
    BY DEF Occurs
  <1>4. \A at \in Nat : at + L <= pos' => Occurs(at)' = (SubSeq(input.wire, at + 1, at + L) = delimiter)
    BY <1>1 DEF Occurs
  <1>5. \A at \in Nat : Occurs(at) => at + L <= pos
    BY DEF Occurs
  <1>6. \A at \in Nat : at + L <= pos => at + L <= pos'
    BY <1>2
  <1> HIDE DEF L
  <1>7. \A at \in Nat : at + L <= pos => Occurs(at)' = Occurs(at)
    BY <1>3, <1>4, <1>6
  <1>8. ASSUME NEW at \in Nat, Dead(at) PROVE Dead(at)'
    <2>1. PICK m \in 1..L : at + m <= pos /\ input.wire[at + m] # delimiter[m]
      BY <1>8 DEF Dead, L
    <2>2. at + m <= pos'
      BY <1>2, <2>1
    <2>3. \E n \in 1..Len(delimiter) : at + n <= pos' /\ input.wire[at + n] # delimiter[n]
      BY <2>1, <2>2 DEF L
    <2> QED BY <1>1, <2>3 DEF Dead
  <1>9. ASSUME NEW from \in Nat, NEW at \in Nat, FirstAfter(from, at) PROVE FirstAfter(from, at)'
    <2>1. from <= at /\ Occurs(at) /\ \A b \in from..at - 1 : ~Occurs(b)
      BY <1>9 DEF FirstAfter
    <2>2. Occurs(at)'
      BY <1>5, <1>7, <2>1
    <2>3. \A b \in from..at - 1 : b \in Nat /\ b + L <= pos
      BY <1>2, <1>5, <2>1
    <2>4. \A b \in from..at - 1 : ~Occurs(b)'
      BY <1>7, <2>1, <2>3
    <2> QED BY <2>1, <2>2, <2>4 DEF FirstAfter
  <1> QED BY <1>1, <1>7, <1>8, <1>9 DEF L

-----------------------------------------------------------------------------
(* What the search finds.                                                   *)

MatchAt == search_from + MatchStart

\* A delimiter does not begin before the match, which is as long as it can be.
LEMMA MatchFacts ==
    ASSUME OfItems, DelimInv, Starts # {}
    PROVE  /\ MatchStart \in Nat /\ MatchLen \in 1..Len(delimiter) /\ MatchEnd = MatchAt + MatchLen
           /\ MatchAt \in Nat /\ search_from <= MatchAt /\ MatchEnd <= Len(buffer)
           /\ \A j \in 1..MatchStart : buffer[search_from + j] # delimiter[1]
           /\ \A m \in 1..MatchLen : buffer[MatchAt + m] = delimiter[m]
           /\ MatchLen < Len(delimiter) /\ MatchEnd < Len(buffer) =>
                buffer[MatchEnd + 1] # delimiter[MatchLen + 1]
  <1> DEFINE n == Len(buffer)  L == Len(delimiter)  f == search_from  at == MatchAt  X == MatchStart + 1
  <1>1. n \in Nat /\ buffer \in Seq(Nat) /\ f \in Nat /\ f <= n
    BY DelimPlace
  <1>2. L \in Nat /\ L > 0 /\ delimiter \in Seq(Nat)
    BY ItemsInput
  <1>3. Starts = {i \in 1..n - f : buffer[f + i] = delimiter[1]}
    BY DEF Starts
  <1> HIDE DEF n, L, f
  <1>4. Starts \subseteq Nat
    BY <1>1, <1>3
  <1>5. PICK x \in Starts : \A y \in Starts : x <= y
    BY <1>4, LeastOf
  <1> DEFINE c == CHOOSE i \in Starts : \A j \in Starts : i <= j
  <1>6. c \in Starts /\ \A y \in Starts : c <= y
    BY <1>5
  <1>7. MatchStart = c - 1
    BY DEF MatchStart
  <1> HIDE DEF c
  <1>8. c \in 1..n - f /\ buffer[f + c] = delimiter[1] /\ \A y \in 1..n - f : buffer[f + y] = delimiter[1] => c <= y
    BY <1>3, <1>6
  <1>9. MatchStart \in Nat /\ MatchStart + 1 = c /\ MatchStart < c
    BY <1>1, <1>7, <1>8
  <1>10. \A j \in 1..MatchStart : buffer[f + j] # delimiter[1]
    <2>1. \A j \in 1..MatchStart : j \in 1..n - f /\ ~(c <= j)
      BY <1>1, <1>8, <1>9
    <2> QED BY <1>8, <2>1
  <1>11. at \in Nat /\ f <= at /\ at = f + MatchStart /\ at + 1 = f + c /\ at + 1 <= n
    <2>1. at = f + MatchStart
      BY DEF MatchAt, f
    <2> HIDE DEF at
    <2> QED BY <1>1, <1>8, <1>9, <2>1
  <1> HIDE DEF at
  <1> DEFINE fits == {m \in 1..L : at + m <= n /\ SubSeq(buffer, at + 1, at + m) = SubSeq(delimiter, 1, m)}
             Fit(m) == at + m <= n /\ \A i \in 1..m : buffer[at + i] = delimiter[i]
  <1>12. MatchLen = CHOOSE m \in fits : \A i \in fits : i <= m
    BY DEF MatchLen, MatchAt, at, f, n, L
  <1>13. \A m \in 1..L : m \in fits <=> Fit(m)
    <2> SUFFICES ASSUME NEW m \in 1..L, at + m <= n
                 PROVE  SubSeq(buffer, at + 1, at + m) = SubSeq(delimiter, 1, m)
                          <=> \A i \in 1..m : buffer[at + i] = delimiter[i]
      OBVIOUS
    <2>1. m \in Nat /\ m <= Len(delimiter) /\ at + m <= Len(buffer)
      BY <1>2 DEF L, n
    <2>2. SubSeq(buffer, at + 1, at + m) = SubSeq(delimiter, 1, m) <=> IsAt(buffer, delimiter, at, m)
      BY <1>1, <1>2, <1>11, <2>1, SamePart, ZenonT(40)
    <2> QED BY <2>2 DEF IsAt
  <1>14. fits \subseteq 1..L
    OBVIOUS
  <1> HIDE DEF fits
  <1>15. 1 \in fits
    <2>1. \A i \in 1..1 : i = 1
      OBVIOUS
    <2>2. Fit(1)
      BY <1>8, <1>11, <2>1
    <2>3. 1 \in 1..L
      BY <1>2
    <2> QED BY <1>13, <2>2, <2>3
  <1> DEFINE T == {k \in 0..L : L - k \in fits}
  <1>16. T # {} /\ T \subseteq Nat
    <2>1. L - 1 \in 0..L /\ L - (L - 1) = 1
      BY <1>2
    <2>2. L - 1 \in T
      BY <1>15, <2>1
    <2>3. T \subseteq 0..L /\ 0..L \subseteq Nat
      BY <1>2
    <2> HIDE DEF T
    <2> QED BY <2>2, <2>3
  <1>17. PICK k \in T : \A i \in T : k <= i
    <2> HIDE DEF T
    <2> QED BY <1>16, LeastOf
  <1> DEFINE w == L - k
  <1>18. w \in fits /\ \A i \in fits : i <= w
    <2>1. w \in fits /\ k \in 0..L
      BY <1>17
    <2>2. ASSUME NEW i \in fits PROVE i <= w
      <3>1. i \in 1..L
        BY <1>14
      <3>2. L - i \in 0..L /\ L - (L - i) = i
        BY <1>2, <3>1
      <3>3. L - i \in T
        BY <3>2
      <3>4. k <= L - i
        BY <1>17, <3>3
      <3> QED BY <1>2, <2>1, <3>1, <3>4
    <2> QED BY <2>1, <2>2
  <1> HIDE DEF w
  <1> DEFINE l == MatchLen
  <1>19. l \in fits /\ \A i \in fits : i <= l
    BY <1>12, <1>18
  <1> HIDE DEF l
  <1>20. l \in 1..L /\ at + l <= n /\ \A i \in 1..l : buffer[at + i] = delimiter[i]
    BY <1>13, <1>14, <1>19
  <1>21. ASSUME l < L, at + l < n, buffer[at + l + 1] = delimiter[l + 1] PROVE FALSE
    <2>1. l + 1 \in 1..L /\ at + (l + 1) <= n /\ ~(l + 1 <= l) /\ at + (l + 1) = at + l + 1
      <3>1. l \in Nat /\ 0 < l /\ l < L /\ at + l < n
        BY <1>2, <1>20, <1>21
      <3> HIDE DEF T
      <3> QED BY <1>1, <1>2, <1>11, <3>1
    <2>2. \A i \in 1..l + 1 : i \in 1..l \/ i = l + 1
      BY <1>2, <1>20
    <2>3. Fit(l + 1)
      BY <1>20, <1>21, <2>1, <2>2
    <2> QED BY <1>13, <1>19, <2>1, <2>3
  <1>22. MatchEnd = at + l
    BY DEF MatchEnd, MatchAt, at, l
  <1> QED BY <1>9, <1>10, <1>11, <1>20, <1>21, <1>22 DEF n, L, f, at, l

\* No delimiter has arrived where there is no room for one after what is dead.
LEMMA NoneFrom ==
    ASSUME OfItems, pos \in Nat, pos <= Len(input.wire), NEW from \in Nat, NEW z \in Nat,
           \A at \in Nat : from <= at /\ at < z => Dead(at), pos < z + Len(delimiter)
    PROVE  NoneAfter(from)
  <1> SUFFICES ASSUME NEW b \in from..pos PROVE ~Occurs(b)
    BY DEF NoneAfter
  <1>1. b \in Nat /\ from <= b /\ Len(delimiter) \in Nat
    BY ItemsInput
  <1>2. CASE b < z
    BY <1>1, <1>2, DeadOccursNot
  <1>3. CASE ~(b < z)
    <2>1. ~(b + Len(delimiter) <= pos)
      BY <1>1, <1>3
    <2> QED BY <1>1, <2>1, OccursBytes
  <1> QED BY <1>2, <1>3

\* What a match says of what has arrived: no delimiter begins before it; a partial one
\* that other bytes follow is none; a whole one is the next; one at the end may be.
LEMMA BeforeMatch ==
    ASSUME OfItems, DelimInv, Starts # {}
    PROVE  /\ \A at \in Nat : Taken <= at /\ at < Taken + MatchAt => Dead(at)
           /\ MatchLen < Len(delimiter) /\ MatchEnd < Len(buffer) => Dead(Taken + MatchAt)
           /\ MatchLen = Len(delimiter) => FirstAfter(Taken, Taken + MatchAt)
           /\ MatchLen < Len(delimiter) /\ MatchEnd = Len(buffer) => NoneAfter(Taken)
  <1> DEFINE T == Taken  n == Len(buffer)  L == Len(delimiter)  f == search_from  W == input.wire
             ma == MatchAt  ml == MatchLen  ms == MatchStart  me == MatchEnd
  <1>1. /\ pos \in Nat /\ pos <= Len(W) /\ n \in Nat /\ T \in Nat /\ T <= pos /\ n = pos - T
        /\ f \in Nat /\ f <= n /\ \A j \in 1..n : buffer[j] = W[T + j]
    BY DelimPlace
  <1>2. L \in Nat /\ L > 0 /\ Len(W) \in Nat
    BY ItemsInput
  <1>3. /\ ms \in Nat /\ ml \in 1..L /\ me = ma + ml /\ ma \in Nat /\ f <= ma /\ me <= n
        /\ \A j \in 1..ms : buffer[f + j] # delimiter[1]
        /\ \A m \in 1..ml : buffer[ma + m] = delimiter[m]
        /\ ml < L /\ me < n => buffer[me + 1] # delimiter[ml + 1]
    BY MatchFacts
  <1>4. ma = f + ms
    BY DEF MatchAt
  <1>5. \A at \in Nat : T <= at /\ at < T + f => Dead(at)
    BY DEF DelimInv, Searched
  <1> HIDE DEF T, n, L, f, W, ma, ml, ms, me
  <1>6. ASSUME NEW at \in Nat, T <= at, at < T + ma PROVE Dead(at)
    <2>1. CASE at < T + f
      BY <1>5, <1>6, <2>1
    <2>2. CASE ~(at < T + f)
      <3> DEFINE j == (at - (T + f)) + 1
      <3>1. j \in 1..ms /\ f + j \in 1..n /\ T + (f + j) = at + 1 /\ at + 1 <= pos /\ 1 \in 1..L
        BY <1>1, <1>2, <1>3, <1>4, <1>6, <2>2
      <3> HIDE DEF j
      <3>2. W[at + 1] # delimiter[1]
        <4>1. buffer[f + j] # delimiter[1]
          BY <1>3, <3>1
        <4>2. buffer[f + j] = W[T + (f + j)]
          BY <1>1, <3>1
        <4> QED BY <3>1, <4>1, <4>2
      <3> QED BY <3>1, <3>2 DEF Dead, L, W
    <2> QED BY <2>1, <2>2
  <1>7. ASSUME ml < L, me < n PROVE Dead(T + ma)
    <2> DEFINE m == ml + 1  at == T + ma
    <2>1. m \in 1..L /\ me + 1 \in 1..n /\ T + (me + 1) = at + m /\ at + m <= pos
      <3>1. ml \in Nat /\ ml < L /\ L \in Nat /\ ma \in Nat /\ me = ma + ml /\ me < n
        BY <1>2, <1>3, <1>7
      <3>2. T \in Nat /\ pos \in Nat /\ n = pos - T
        BY <1>1
      <3> QED BY <3>1, <3>2
    <2>2. buffer[me + 1] # delimiter[m]
      BY <1>3, <1>7
    <2> HIDE DEF m, at
    <2>3. W[at + m] # delimiter[m]
      BY <1>1, <2>1, <2>2
    <2>4. Dead(at)
      BY <2>1, <2>3 DEF Dead, L, W
    <2> QED BY <2>4 DEF at
  <1>8. ASSUME ml = L PROVE FirstAfter(T, T + ma)
    <2> DEFINE at == T + ma
    <2>0. L \in Nat /\ ma \in Nat /\ ma + L <= n /\ T \in Nat /\ pos \in Nat /\ n = pos - T
      <3>1. L \in Nat /\ ma \in Nat /\ me = ma + L /\ me <= n
        BY <1>2, <1>3, <1>8
      <3> QED BY <1>1, <3>1
    <2>1. at \in Nat /\ T <= at /\ at + L <= pos
      BY <2>0
    <2>2. ASSUME NEW m \in 1..L PROVE W[at + m] = delimiter[m]
      <3>1. ma + m \in 1..n /\ T + (ma + m) = at + m
        BY <2>0
      <3> QED BY <1>1, <1>3, <1>8, <3>1
    <2>3. Occurs(at)
      <3> HIDE DEF at
      <3> QED BY <1>1, <2>1, <2>2, OccursBytes DEF L, W
    <2>4. ASSUME NEW b \in T..at - 1 PROVE ~Occurs(b)
      <3>1. b \in Nat /\ T <= b /\ b < T + ma
        BY <1>1, <1>3
      <3>2. Dead(b)
        BY <1>6, <3>1
      <3> QED BY <1>1, <3>1, <3>2, DeadOccursNot DEF W
    <2> QED BY <2>1, <2>3, <2>4 DEF FirstAfter
  <1>9. ASSUME ml < L, me = n PROVE NoneAfter(T)
    <2> DEFINE z == T + ma
    <2>1. z \in Nat /\ pos < z + L
      BY <1>1, <1>2, <1>3, <1>9
    <2>2. \A at \in Nat : T <= at /\ at < z => Dead(at)
      BY <1>6
    <2> HIDE DEF z
    <2> QED BY <1>1, <2>1, <2>2, NoneFrom DEF L, W
  <1> QED BY <1>6, <1>7, <1>8, <1>9 DEF T, n, L, ma, ml, me

\* Without a match no delimiter begins in what has arrived.
LEMMA NoMatchThere ==
    ASSUME OfItems, DelimInv, Starts = {}
    PROVE  /\ \A at \in Nat : Taken <= at /\ at < pos => Dead(at)
           /\ NoneAfter(Taken)
  <1> DEFINE T == Taken  n == Len(buffer)  L == Len(delimiter)  f == search_from  W == input.wire
  <1>1. /\ pos \in Nat /\ pos <= Len(W) /\ n \in Nat /\ T \in Nat /\ T <= pos /\ n = pos - T
        /\ f \in Nat /\ f <= n /\ \A j \in 1..n : buffer[j] = W[T + j]
    BY DelimPlace
  <1>2. L \in Nat /\ L > 0 /\ Len(W) \in Nat
    BY ItemsInput
  <1>3. \A i \in 1..n - f : buffer[f + i] # delimiter[1]
    BY DEF Starts
  <1>4. \A at \in Nat : T <= at /\ at < T + f => Dead(at)
    BY DEF DelimInv, Searched
  <1> HIDE DEF T, n, L, f, W
  <1>5. ASSUME NEW at \in Nat, T <= at, at < pos PROVE Dead(at)
    <2>1. CASE at < T + f
      BY <1>4, <1>5, <2>1
    <2>2. CASE ~(at < T + f)
      <3> DEFINE j == (at - (T + f)) + 1
      <3>1. j \in 1..n - f /\ f + j \in 1..n /\ T + (f + j) = at + 1 /\ at + 1 <= pos /\ 1 \in 1..L
        BY <1>1, <1>2, <1>5, <2>2
      <3> HIDE DEF j
      <3>2. W[at + 1] # delimiter[1]
        <4>1. buffer[f + j] # delimiter[1]
          BY <1>3, <3>1
        <4>2. buffer[f + j] = W[T + (f + j)]
          BY <1>1, <3>1
        <4> QED BY <3>1, <4>1, <4>2
      <3> QED BY <3>1, <3>2 DEF Dead, L, W
    <2> QED BY <2>1, <2>2
  <1>6. pos < pos + L
    BY <1>1, <1>2
  <1>7. NoneAfter(T)
    BY <1>1, <1>5, <1>6, NoneFrom DEF L, W
  <1> QED BY <1>5, <1>7 DEF T

\* One more item.
LEMMA ChainGrows ==
    ASSUME out \in Seq(Item), NEW o \in Item, out' = Append(out, o), input' = input, pos' = pos,
           NEW first, Chain(first), ~inclusive_terminated, o.from = After(Len(out), first),
           o.item = Decoded(SubSeq(input.wire, o.from + 1, o.to)),
           IF inclusive_terminated'
           THEN o.to = pos /\ NoneAfter(o.from)
           ELSE FirstAfter(o.from, o.to)
    PROVE  Chain(first)' /\ After(Len(out), first)' = o.to + Len(delimiter)
           /\ out' \in Seq(Item) /\ out' # <<>> /\ Len(out') = Len(out) + 1
           /\ out'[Len(out')] = o
  <1> DEFINE n == Len(out)  new == out'
  <1>1. /\ new \in Seq(Item) /\ Len(new) = n + 1 /\ DOMAIN new = 1..n + 1 /\ n \in Nat
        /\ new[n + 1] = o /\ \A k \in 1..n : new[k] = out[k]
    BY OneMore
  <1>2. delimiter' = delimiter /\ inclusive' = inclusive /\ input'.wire = input.wire
    BY DEF delimiter, inclusive
  <1>3. \A from, to : FirstAfter(from, to)' = FirstAfter(from, to)
    BY <1>2 DEF FirstAfter, Occurs
  <1>4. \A from : NoneAfter(from)' = NoneAfter(from)
    BY <1>2 DEF NoneAfter, Occurs
  <1>5. \A b : Decoded(b)' = Decoded(b)
    BY <1>2 DEF Decoded
  <1> HIDE DEF n, new
  <1>6. \A k \in 0..n : (IF k = 0 THEN first ELSE new[k].to + Len(delimiter)) = After(k, first)
    BY <1>1 DEF After
  <1>7. ASSUME NEW k \in 1..n + 1
        PROVE  /\ new[k].from = (IF k - 1 = 0 THEN first ELSE new[k - 1].to + Len(delimiter))
               /\ new[k].item = Decoded(SubSeq(input.wire, new[k].from + 1, new[k].to))
               /\ IF inclusive_terminated' /\ k = Len(new)
                  THEN new[k].to = pos /\ NoneAfter(new[k].from)
                  ELSE FirstAfter(new[k].from, new[k].to)
    <2>1. k - 1 \in 0..n
      BY <1>1
    <2>2. (IF k - 1 = 0 THEN first ELSE new[k - 1].to + Len(delimiter)) = After(k - 1, first)
      BY <1>6, <2>1
    <2>3. CASE k = n + 1
      <3>1. k - 1 = n /\ new[k] = o /\ k = Len(new)
        BY <1>1, <2>3
      <3> QED BY <2>2, <3>1 DEF n
    <2>4. CASE k # n + 1
      <3>1. k \in 1..n /\ new[k] = out[k] /\ k # Len(new) /\ k \in DOMAIN out
        BY <1>1, <2>4 DEF n
      <3>2. /\ out[k].from = After(k - 1, first)
            /\ out[k].item = Decoded(SubSeq(input.wire, out[k].from + 1, out[k].to))
            /\ FirstAfter(out[k].from, out[k].to)
        BY <3>1 DEF Chain
      <3> QED BY <2>2, <3>1, <3>2
    <2> QED BY <2>3, <2>4
  <1>8. Chain(first)'
    BY <1>1, <1>2, <1>3, <1>4, <1>5, <1>7 DEF Chain, After, new
  <1>9. After(Len(out), first)' = o.to + Len(delimiter)
    <2>1. After(Len(out), first)' = IF Len(new) = 0 THEN first ELSE new[Len(new)].to + Len(delimiter)
      BY <1>2 DEF After, new
    <2>2. Len(new) # 0 /\ new[Len(new)] = o
      BY <1>1
    <2> QED BY <2>1, <2>2
  <1>10. new # <<>>
    BY <1>1, EmptySeq
  <1> QED BY <1>1, <1>8, <1>9, <1>10 DEF n, new

\* An item is made of what is on the wire.
LEMMA GiveItem ==
    ASSUME OfItems, DelimInv, NEW k \in Nat, k <= Len(buffer), Give(k)
    PROVE  \E o \in Item :
             /\ out' = Append(out, o) /\ o.from = Taken /\ o.to = Taken + k
             /\ o.item = Decoded(SubSeq(input.wire, o.from + 1, o.to))
  <1> DEFINE T == Taken  n == Len(buffer)  W == input.wire  d == SubSeq(buffer, 1, k)
  <1>1. /\ pos \in Nat /\ pos <= Len(W) /\ n \in Nat /\ T \in Nat /\ T <= pos /\ n = pos - T
        /\ buffer \in Seq(Nat) /\ \A j \in 1..n : buffer[j] = W[T + j]
    BY DelimPlace
  <1>2. W \in Seq(Nat) /\ Len(W) \in Nat /\ delimiter \in Seq(Nat)
    BY ItemsInput
  <1>3. d \in Seq(Nat) /\ Len(d) = k /\ \A j \in 1..k : d[j] = buffer[j]
    <2> DEFINE i == 1
    <2>1. i \in Nat /\ 0 < i /\ i <= k + 1 /\ k <= n /\ k - i + 1 = k /\ \A j \in 1..k : i + j - 1 = j
      OBVIOUS
    <2> DEFINE t == SubSeq(buffer, i, k)
    <2>2. t = d
      OBVIOUS
    <2> HIDE DEF i
    <2>3. t \in Seq(Nat) /\ Len(t) = k - i + 1 /\ \A j \in 1..k - i + 1 : t[j] = buffer[i + j - 1]
      BY <1>1, <2>1, Part
    <2> HIDE DEF t, d
    <2> QED BY <2>1, <2>2, <2>3
  <1> HIDE DEF d, W, T, n
  <1>4. SubSeq(W, T + 1, T + k) = d
    <2>1. T + Len(d) <= Len(W)
      BY <1>1, <1>2, <1>3 DEF n
    <2>2. \A j \in 1..Len(d) : W[T + j] = d[j]
      <3>1. \A j \in 1..k : j \in 1..n
        BY <1>1 DEF n
      <3> QED BY <1>1, <1>3, <3>1
    <2>3. SubSeq(W, T + 1, T + Len(d)) = d
      BY <1>1, <1>2, <1>3, <2>1, <2>2, FoundIn
    <2> QED BY <1>3, <2>3
  <1> DEFINE b == Decoded(d)
  <1>5. b \in Seq(Nat)
    BY <1>2, <1>3, ConcatProperties DEF Decoded
  <1> DEFINE z == T + k
  <1>6. T \in Nat /\ z \in Nat
    BY <1>1
  <1>7. out' = Append(out, [from |-> T, to |-> z, item |-> b])
    BY DEF Give, T, d
  <1>8. b = Decoded(SubSeq(W, T + 1, z))
    BY <1>4
  <1> HIDE DEF b, z
  <1> DEFINE o == [from |-> T, to |-> z, item |-> b]
  <1>9. o \in Item /\ o.from = T /\ o.to = z /\ o.item = b
    BY <1>5, <1>6 DEF Item
  <1> HIDE DEF o
  <1>10. out' = Append(out, o)
    BY <1>7 DEF o
  <1>11. o.item = Decoded(SubSeq(W, o.from + 1, o.to))
    BY <1>8, <1>9
  <1> QED BY <1>9, <1>10, <1>11 DEF T, W, z

\* The item that is given continues those before it.
LEMMA GiveKeepsChain ==
    ASSUME OfItems, DelimInv, NEW k \in Nat, k <= Len(buffer), Give(k), input' = input, pos' = pos,
           ~inclusive_terminated,
           inclusive_terminated' => Taken + k = pos /\ NoneAfter(Taken),
           ~inclusive_terminated' => FirstAfter(Taken, Taken + k) /\ Taken' = Taken + k + Len(delimiter)
    PROVE  out' \in Seq(Item) /\ out' # <<>> /\ (Chained => Chained')
  <1>1. out \in Seq(Item)
    BY DEF DelimInv
  <1>2. PICK o \in Item : /\ out' = Append(out, o) /\ o.from = Taken /\ o.to = Taken + k
                          /\ o.item = Decoded(SubSeq(input.wire, o.from + 1, o.to))
    BY GiveItem
  <1>3. out' \in Seq(Item) /\ out' # <<>>
    <2>1. out' \in Seq(Item) /\ Len(out') = Len(out) + 1 /\ Len(out) \in Nat
      BY <1>1, <1>2, OneMore
    <2> QED BY <2>1, EmptySeq
  <1>4. ASSUME Chained PROVE Chained'
    <2>1. PICK first \in Nat : /\ first <= pos /\ First(first) /\ Chain(first)
                               /\ After(Len(out), first) = Taken
      BY <1>4 DEF Chained
    <2>2. IF inclusive_terminated'
          THEN o.to = pos /\ NoneAfter(o.from)
          ELSE FirstAfter(o.from, o.to)
      BY <1>2
    <2>3. Chain(first)' /\ After(Len(out), first)' = o.to + Len(delimiter)
      BY <1>1, <1>2, <2>1, <2>2, ChainGrows
    <2>4. First(first)'
      BY <2>1 DEF First, FirstAfter, Occurs, delimiter, inclusive
    <2>5. ~inclusive_terminated' => After(Len(out), first)' = Taken'
      BY <1>2, <2>3
    <2> QED BY <2>1, <2>3, <2>4, <2>5 DEF Chained
  <1> QED BY <1>3, <1>4

\* Where nothing arrives and no item is made.
LEMMA SameItems ==
    ASSUME input' = input, pos' = pos
    PROVE  /\ \A from : NoneAfter(from)' = NoneAfter(from)
           /\ \A at : Dead(at)' = Dead(at)
           /\ delimiter' = delimiter /\ inclusive' = inclusive
           /\ \A at : FirstAfter(0, at)' = FirstAfter(0, at)
           /\ out' = out /\ inclusive_terminated' = inclusive_terminated /\ Taken' = Taken => Chained' = Chained
  <1>1. delimiter' = delimiter /\ inclusive' = inclusive
    BY DEF delimiter, inclusive
  <1>2. \A at : Occurs(at)' = Occurs(at)
    BY <1>1 DEF Occurs
  <1>3. /\ \A from : NoneAfter(from)' = NoneAfter(from)
        /\ \A at : Dead(at)' = Dead(at)
        /\ \A from, at : FirstAfter(from, at)' = FirstAfter(from, at)
    BY <1>1, <1>2 DEF NoneAfter, Dead, FirstAfter
  <1>4. ASSUME out' = out, inclusive_terminated' = inclusive_terminated, Taken' = Taken
        PROVE  Chained' = Chained
    <2>1. \A first : First(first)' = First(first)
      BY <1>1, <1>3 DEF First
    <2>2. \A k, first : After(k, first)' = After(k, first)
      BY <1>1, <1>4 DEF After
    <2>3. \A b : Decoded(b)' = Decoded(b)
      BY <1>1 DEF Decoded
    <2>4. \A first : Chain(first)' = Chain(first)
      BY <1>3, <1>4, <2>2, <2>3 DEF Chain
    <2>5. \A first : After(Len(out), first)' = After(Len(out), first)
      BY <1>1, <1>4 DEF After
    <2> QED BY <1>4, <2>1, <2>4, <2>5 DEF Chained
  <1> QED BY <1>1, <1>3, <1>4

\* A whole delimiter ends an item or is the first.
LEMMA CompleteKeeps ==
    ASSUME OfItems, DelimInv, Complete
    PROVE  DelimInv'
  <1> DEFINE T == Taken  n == Len(buffer)  L == Len(delimiter)  W == input.wire
             ma == MatchAt  me == MatchEnd  U == Taken'
  <1>1. /\ pos \in Nat /\ pos <= Len(W) /\ n \in Nat /\ T \in Nat /\ T <= pos /\ n = pos - T
        /\ buffer \in Seq(Nat) /\ \A j \in 1..n : buffer[j] = W[T + j]
    BY DelimPlace
  <1>2. L \in Nat /\ L > 0 /\ Len(W) \in Nat /\ inclusive \in BOOLEAN
    BY ItemsInput
  <1>3. /\ Starts # {} /\ MatchLen = L /\ input' = input /\ pos' = pos /\ phase' = phase
        /\ inclusive_terminated' = inclusive_terminated
        /\ buffer' = Rest(buffer, me) /\ search_from' = 0
    BY DEF Complete
  <1>4. me = ma + L /\ ma \in Nat /\ me <= n
    BY <1>3, MatchFacts
  <1>5. FirstAfter(T, T + ma)
    BY <1>3, BeforeMatch
  <1>6. T + ma \in T..pos /\ Occurs(T + ma)
    <2>1. T + ma \in T..pos
      BY <1>1, <1>2, <1>4, SMTT(30)
    <2> QED BY <1>5, <2>1 DEF FirstAfter
  <1>7. phase = "decoding" /\ inclusive_terminated = FALSE
    <2>1. phase = "decoding"
      BY <1>6 DEF DelimInv, NoneAfter, T
    <2> QED BY <2>1 DEF DelimInv, Ended
  <1>8. /\ inclusive_seen_header \in BOOLEAN /\ out \in Seq(Item) /\ (inclusive_seen_header => inclusive)
        /\ (inclusive /\ ~inclusive_seen_header => out = <<>> /\ T = 0)
        /\ (inclusive_seen_header \/ ~inclusive => Chained)
    BY <1>7 DEF DelimInv
  <1>9. me \in 0..n
    BY <1>1, <1>2, <1>4
  <1>10. /\ buffer' \in Seq(Nat) /\ Len(buffer') = n - me
         /\ \A j \in 1..n - me : buffer'[j] = buffer[me + j]
    BY <1>1, <1>3, <1>9, RestOf, ZenonT(40)
  <1>11. U = pos - Len(buffer')
    BY <1>3 DEF Taken
  <1>12. U = T + ma + L /\ U \in Nat /\ U <= pos /\ U = T + me
    <2> HIDE DEF U, T, n, L, W, ma, me
    <2> QED BY <1>1, <1>2, <1>4, <1>9, <1>10, <1>11
  <1>13. delimiter' = delimiter /\ inclusive' = inclusive
    BY <1>3, SameItems
  <1>14. Searched'
    <2>1. \A j \in 1..Len(buffer') : buffer'[j] = W[U + j]
      <3> SUFFICES ASSUME NEW j \in 1..n - me PROVE buffer'[j] = W[U + j]
        BY <1>10
      <3> HIDE DEF U, T, n, L, W, ma, me
      <3>1. n \in Nat /\ T \in Nat /\ me \in Nat /\ me <= n /\ U = T + me /\ j \in Nat /\ 1 <= j /\ j <= n - me
        BY <1>1, <1>9, <1>12
      <3>2. me + j \in 1..n /\ T + (me + j) = U + j
        BY <3>1
      <3> QED BY <1>1, <1>10, <3>2
    <2>2. search_from' \in 0..Len(buffer')
      BY <1>1, <1>3, <1>9, <1>10
    <2>3. \A at \in Nat : ~(U <= at /\ at < U + search_from')
      BY <1>3, <1>12
    <2> QED BY <1>3, <2>1, <2>2, <2>3 DEF Searched
  <1>15. FramedTypeOK' /\ (Taken \in 0..pos)'
    <2>1. U \in 0..pos
      BY <1>1, <1>12
    <2> QED BY <1>3, <1>10, <2>1 DEF FramedTypeOK, DelimInv
  <1>16. CASE inclusive /\ ~inclusive_seen_header
    <2>1. inclusive_seen_header' = TRUE /\ out' = out /\ out = <<>> /\ T = 0
      BY <1>8, <1>16 DEF Complete
    <2>2. Chained'
      <3>1. PICK first \in Nat : first = U
        BY <1>12
      <3>2. PICK at \in Nat : at = ma
        BY <1>4
      <3>3. Chain(first)'
        BY <2>1 DEF Chain
      <3>4. First(first)'
        <4>1. first - L = at /\ FirstAfter(0, at)
          <5>1. T + ma = at
            BY <1>4, <2>1, <3>2
          <5>2. first - L = at
            <6> HIDE DEF U, ma, L
            <6> QED BY <1>2, <1>4, <1>12, <2>1, <3>1, <3>2
          <5>3. FirstAfter(T, at)
            BY <1>5, <5>1
          <5> QED BY <2>1, <5>2, <5>3
        <4>2. FirstAfter(0, at)'
          BY <1>3, <4>1, SameItems
        <4>3. Len(delimiter)' = L
          BY <1>13
        <4> QED BY <1>13, <1>16, <4>1, <4>2, <4>3 DEF First
      <3>5. After(Len(out), first)' = first
        <4>1. Len(out') = 0
          BY <2>1, EmptySeq
        <4> QED BY <4>1 DEF After
      <3>6. first <= pos'
        BY <1>3, <1>12, <3>1
      <3> QED BY <3>1, <3>3, <3>4, <3>5, <3>6 DEF Chained, U
    <2> QED BY <1>3, <1>7, <1>8, <1>13, <1>14, <1>15, <1>16, <2>1, <2>2 DEF DelimInv
  <1>17. CASE ~(inclusive /\ ~inclusive_seen_header)
    <2>1. Give(me - L) /\ inclusive_seen_header' = inclusive_seen_header
      BY <1>17 DEF Complete
    <2>2. me - L = ma
      BY <1>2, <1>4
    <2>3. ma \in Nat /\ ma <= n /\ Give(ma)
      <3>1. ma <= n
        BY <1>2, <1>4, <1>1
      <3> QED BY <1>4, <2>1, <2>2, <3>1
    <2>4. out' \in Seq(Item) /\ (Chained => Chained')
      BY <1>3, <1>5, <1>7, <1>12, <2>3, GiveKeepsChain
    <2>5. Chained'
      BY <1>8, <1>17, <2>4
    <2> QED BY <1>3, <1>7, <1>8, <1>13, <1>14, <1>15, <1>17, <2>1, <2>4, <2>5 DEF DelimInv
  <1> QED BY <1>16, <1>17

\* The search goes on in the same bytes.
LEMMA PartialKeeps ==
    ASSUME OfItems, DelimInv, Partial
    PROVE  DelimInv'
  <1> DEFINE T == Taken  n == Len(buffer)  ma == MatchAt
  <1>1. pos \in Nat /\ n \in Nat /\ T \in Nat /\ buffer \in Seq(Nat)
    BY DelimPlace
  <1>2. /\ Starts # {} /\ MatchLen < Len(delimiter) /\ MatchEnd < n
        /\ search_from' = ma + 1
        /\ input' = input /\ pos' = pos /\ buffer' = buffer /\ phase' = phase /\ out' = out
        /\ inclusive_seen_header' = inclusive_seen_header /\ inclusive_terminated' = inclusive_terminated
    BY DEF Partial, MatchAt
  <1>3. MatchEnd = ma + MatchLen /\ ma \in Nat /\ MatchLen \in 1..Len(delimiter) /\ Len(delimiter) \in Nat
    BY <1>2, MatchFacts, ItemsInput
  <1>4. (\A at \in Nat : T <= at /\ at < T + ma => Dead(at)) /\ Dead(T + ma)
    BY <1>2, BeforeMatch
  <1>5. Taken' = T
    BY <1>2 DEF Taken
  <1> HIDE DEF T, n, ma
  <1>6. \A at \in Nat : T <= at /\ at < T + (ma + 1) => Dead(at)
    <2>1. \A at \in Nat : T <= at /\ at < T + (ma + 1) => at < T + ma \/ at = T + ma
      BY <1>1, <1>3
    <2> QED BY <1>4, <2>1
  <1>7. ma + 1 \in 0..n
    BY <1>1, <1>2, <1>3
  <1>8. Searched'
    <2>1. \A j \in 1..Len(buffer) : buffer[j] = input.wire[T + j]
      BY DEF DelimInv, Searched, T
    <2>2. \A at \in Nat : Dead(at)' = Dead(at)
      BY <1>2, SameItems
    <2>3. \A at \in Nat : T <= at /\ at < T + search_from' => Dead(at)'
      BY <1>2, <1>6, <2>2
    <2>4. search_from' \in 0..Len(buffer')
      BY <1>2, <1>7 DEF n
    <2> QED BY <1>2, <1>5, <2>1, <2>3, <2>4 DEF Searched
  <1>9. FramedTypeOK' /\ (Taken \in 0..pos)'
    BY <1>2, <1>5 DEF FramedTypeOK, DelimInv, T
  <1>10. /\ delimiter' = delimiter /\ inclusive' = inclusive
         /\ NoneAfter(0)' = NoneAfter(0) /\ NoneAfter(T)' = NoneAfter(T) /\ Chained' = Chained
    BY <1>2, <1>5, SameItems DEF T
  <1> QED BY <1>2, <1>5, <1>8, <1>9, <1>10 DEF DelimInv, Ended, T

\* Nothing is found in what has arrived: more is asked for, or the rest is an item.
LEMMA NoneKeeps ==
    ASSUME OfItems, DelimInv, Decoding, NEW from \in Nat, from <= Len(buffer), None(from),
           \A at \in Nat : Taken <= at /\ at < Taken + from => Dead(at), NoneAfter(Taken)
    PROVE  DelimInv'
  <1> DEFINE T == Taken  n == Len(buffer)
  <1>1. pos \in Nat /\ n \in Nat /\ T \in Nat /\ T <= pos /\ n = pos - T /\ buffer \in Seq(Nat)
    BY DelimPlace
  <1>2. input' = input /\ pos' = pos /\ inclusive_seen_header' = inclusive_seen_header
    BY DEF None
  <1>3. inclusive_terminated = FALSE /\ inclusive \in BOOLEAN
    <2>1. inclusive_terminated => FALSE
      BY DEF Decoding, DelimInv, Ended
    <2> QED BY <2>1, ItemsInput DEF DelimInv
  <1>4. /\ delimiter' = delimiter /\ inclusive' = inclusive
        /\ \A b : NoneAfter(b)' = NoneAfter(b)
        /\ \A at : Dead(at)' = Dead(at)
        /\ out' = out /\ inclusive_terminated' = inclusive_terminated /\ Taken' = Taken => Chained' = Chained
    BY <1>2, SameItems
  <1>5. CASE phase = "draining" /\ inclusive
    <2>1. /\ inclusive_terminated' = TRUE /\ search_from' = 0 /\ phase' = phase
          /\ Give(n) /\ buffer' = <<>>
      BY <1>5 DEF None
    <2>2. Len(buffer') = 0 /\ buffer' \in Seq(Nat) /\ Taken' = pos
      <3>1. Len(buffer') = 0 /\ buffer' \in Seq(Nat)
        BY <2>1, EmptySeq
      <3>2. Taken' = pos - 0
        BY <1>2, <3>1 DEF Taken
      <3> QED BY <1>1, <3>1, <3>2
    <2>3. T + n = pos
      BY <1>1
    <2>4. out' \in Seq(Item) /\ out' # <<>> /\ (Chained => Chained')
      BY <1>1, <1>2, <1>3, <2>1, <2>3, GiveKeepsChain
    <2>5. Searched'
      <3>1. 0 \in 0..Len(buffer') /\ 1..Len(buffer') = {}
        BY <2>2
      <3>2. \A at \in Nat : ~(pos <= at /\ at < pos + 0)
        BY <1>1
      <3> QED BY <1>2, <2>1, <2>2, <3>1, <3>2 DEF Searched
    <2>6. FramedTypeOK' /\ (Taken \in 0..pos)'
      <3>1. pos \in 0..pos
        BY <1>1
      <3> QED BY <1>2, <2>1, <2>2, <3>1 DEF FramedTypeOK, DelimInv
    <2>7. NoneAfter(pos)
      <3>1. \A b \in pos..pos : b \in T..pos
        BY <1>1
      <3> QED BY <3>1 DEF NoneAfter, T
    <2>8. ~inclusive_seen_header => NoneAfter(0)
      BY <1>3, <1>5 DEF DelimInv
    <2>9. inclusive_seen_header \/ ~inclusive => Chained'
      BY <2>4 DEF DelimInv
    <2> QED BY <1>2, <1>3, <1>4, <1>5, <2>1, <2>2, <2>4, <2>5, <2>6, <2>7, <2>8, <2>9 DEF DelimInv, Ended
  <1>6. CASE ~(phase = "draining" /\ inclusive)
    <2>1. /\ search_from' = from /\ AskForMore /\ buffer' = buffer
          /\ inclusive_terminated' = inclusive_terminated /\ out' = out
      BY <1>6 DEF None
    <2>2. Taken' = T
      BY <1>2, <2>1 DEF Taken
    <2>3. Searched'
      <3>1. from \in 0..n
        BY <1>1
      <3>2. \A j \in 1..Len(buffer) : buffer[j] = input.wire[T + j]
        BY DEF DelimInv, Searched
      <3> QED BY <1>2, <1>4, <2>1, <2>2, <3>1, <3>2 DEF Searched
    <2>4. phase' \in {"reading", "done"} /\ (phase' = "done" => ~inclusive)
      BY <1>6, <2>1 DEF AskForMore
    <2>5. FramedTypeOK' /\ (Taken \in 0..pos)'
      BY <1>2, <2>1, <2>2, <2>4 DEF FramedTypeOK, DelimInv
    <2>6. NoneAfter(Taken)'
      BY <1>2, <1>4, <2>2
    <2>7. Chained' = Chained
      BY <1>4, <2>1, <2>2
    <2>8. /\ inclusive_seen_header \in BOOLEAN /\ out \in Seq(Item) /\ (inclusive_seen_header => inclusive)
          /\ (inclusive /\ ~inclusive_seen_header => out = <<>> /\ T = 0)
          /\ (inclusive_seen_header \/ ~inclusive => Chained)
      BY <1>3 DEF DelimInv
    <2> HIDE DEF T
    <2> QED BY <1>2, <1>3, <1>4, <2>1, <2>2, <2>3, <2>4, <2>5, <2>6, <2>7, <2>8 DEF DelimInv
  <1> QED BY <1>5, <1>6

\* A partial match at the end of the buffer.
LEMMA AtEndKeeps ==
    ASSUME OfItems, DelimInv, PartialAtEnd
    PROVE  DelimInv'
  <1>1. Decoding /\ Starts # {} /\ MatchLen < Len(delimiter) /\ MatchEnd = Len(buffer) /\ None(MatchAt)
    BY DEF PartialAtEnd, MatchAt
  <1>2. MatchAt \in Nat /\ MatchEnd = MatchAt + MatchLen /\ MatchLen \in 1..Len(delimiter) /\ Len(delimiter) \in Nat
    BY <1>1, MatchFacts, ItemsInput
  <1>3. MatchAt <= MatchEnd
    BY <1>2
  <1>4. NoneAfter(Taken) /\ \A at \in Nat : Taken <= at /\ at < Taken + MatchAt => Dead(at)
    BY <1>1, BeforeMatch
  <1> QED BY <1>1, <1>2, <1>3, <1>4, NoneKeeps

\* No match.
LEMMA NoMatchKeeps ==
    ASSUME OfItems, DelimInv, NoMatch
    PROVE  DelimInv'
  <1> DEFINE n == Len(buffer)
  <1>1. Decoding /\ Starts = {} /\ None(n)
    BY DEF NoMatch
  <1>2. pos \in Nat /\ n \in Nat /\ Taken \in Nat /\ n = pos - Taken
    BY DelimPlace
  <1>3. NoneAfter(Taken) /\ \A at \in Nat : Taken <= at /\ at < pos => Dead(at)
    BY <1>1, NoMatchThere
  <1>4. n <= n /\ Taken + n = pos
    BY <1>2
  <1> QED BY <1>1, <1>2, <1>3, <1>4, NoneKeeps

\* The end of the stream, with nothing left in the buffer.
LEMMA EmptyKeeps ==
    ASSUME OfItems, DelimInv, EmptyAtEof
    PROVE  DelimInv'
  <1>1. pos \in Nat /\ Taken \in Nat /\ Len(buffer) = pos - Taken /\ search_from \in Nat
    BY DelimPlace
  <1>2. /\ phase = "draining" /\ inclusive /\ buffer = <<>>
        /\ input' = input /\ pos' = pos /\ buffer' = buffer
        /\ inclusive_seen_header' = inclusive_seen_header /\ search_from' = search_from
    BY DEF EmptyAtEof
  <1>3. /\ delimiter' = delimiter /\ inclusive' = inclusive
        /\ \A b : NoneAfter(b)' = NoneAfter(b)
        /\ \A at : Dead(at)' = Dead(at)
        /\ out' = out /\ inclusive_terminated' = inclusive_terminated /\ Taken' = Taken => Chained' = Chained
    BY <1>2, SameItems
  <1>4. Len(buffer) = 0 /\ Taken' = Taken /\ Taken = pos /\ 0 <= Len(buffer) /\ Taken + 0 = pos
    <2>1. Len(buffer) = 0 /\ Taken' = Taken
      BY <1>2, EmptySeq DEF Taken
    <2> QED BY <1>1, <2>1
  <1>5. Searched'
    BY <1>2, <1>3, <1>4 DEF Searched, DelimInv
  <1>6. NoneAfter(Taken) /\ NoneAfter(Taken)'
    BY <1>2, <1>3, <1>4 DEF DelimInv
  <1>7. (Taken \in 0..pos)'
    BY <1>2, <1>4 DEF DelimInv
  <1>8. CASE inclusive_seen_header /\ ~inclusive_terminated
    <2>1. inclusive_terminated' = TRUE /\ Give(0) /\ phase' = phase
      BY <1>8 DEF EmptyAtEof
    <2>2. out' \in Seq(Item) /\ out' # <<>> /\ (Chained => Chained')
      BY <1>2, <1>4, <1>6, <1>8, <2>1, GiveKeepsChain
    <2>3. Chained'
      BY <1>8, <2>2 DEF DelimInv
    <2>4. FramedTypeOK'
      BY <1>2, <2>1 DEF FramedTypeOK, DelimInv
    <2>5. inclusive_seen_header \in BOOLEAN
      BY DEF DelimInv
    <2> QED BY <1>2, <1>3, <1>5, <1>6, <1>7, <1>8, <2>1, <2>2, <2>3, <2>4, <2>5 DEF DelimInv, Ended
  <1>9. CASE ~(inclusive_seen_header /\ ~inclusive_terminated)
    <2>1. phase' = "done" /\ inclusive_terminated' = inclusive_terminated /\ out' = out
      BY <1>9 DEF EmptyAtEof
    <2>2. FramedTypeOK'
      BY <1>2, <2>1 DEF FramedTypeOK, DelimInv
    <2>3. Chained' = Chained
      BY <1>3, <1>4, <2>1
    <2> QED BY <1>2, <1>3, <1>4, <1>5, <1>6, <1>7, <1>9, <2>1, <2>2, <2>3 DEF DelimInv, Ended
  <1> QED BY <1>8, <1>9

\* Every turn of the loop.
LEMMA LoopKeeps ==
    ASSUME OfItems, DelimInv, Loop
    PROVE  DelimInv'
  BY CompleteKeeps, PartialKeeps, AtEndKeeps, NoMatchKeeps, EmptyKeeps DEF Loop

\* Bytes arrive.
LEMMA ItemsRead ==
    ASSUME OfItems, DelimInv, Read, UNCHANGED codec
    PROVE  DelimInv'
  <1> DEFINE T == Taken  W == input.wire  n == Len(buffer)  k == pos'  U == Taken'
  <1>1. /\ pos \in Nat /\ pos <= Len(W) /\ buffer \in Seq(Nat) /\ n \in Nat
        /\ T \in Nat /\ T <= pos /\ n = pos - T
        /\ search_from \in Nat /\ search_from <= n /\ \A j \in 1..n : buffer[j] = W[T + j]
    BY DelimPlace
  <1>2. W \in Seq(Nat) /\ Len(W) \in Nat
    BY ItemsInput
  <1>3. /\ phase = "reading" /\ phase' = "decoding" /\ input' = input /\ out' = out
        /\ inclusive_seen_header' = inclusive_seen_header /\ search_from' = search_from
        /\ inclusive_terminated' = inclusive_terminated
    BY DEF Read, codec
  <1>4. /\ k \in Nat /\ pos < k /\ k <= Len(W) /\ U = T
        /\ buffer' \in Seq(Nat) /\ Len(buffer') = k - T
        /\ \A j \in 1..n : buffer'[j] = buffer[j]
        /\ \A j \in 1..k - T : j > n => buffer'[j] = W[T + j]
    BY <1>1, <1>2, ReadBuffer
  <1>5. inclusive_terminated = FALSE
    BY <1>3 DEF DelimInv, Ended
  <1>6. /\ \A at \in Nat : Dead(at) => Dead(at)'
        /\ \A from, at \in Nat : FirstAfter(from, at) => FirstAfter(from, at)'
        /\ delimiter' = delimiter /\ inclusive' = inclusive
    <2>1. pos <= k /\ k <= Len(input'.wire)
      BY <1>1, <1>3, <1>4
    <2> QED BY <1>1, <1>3, <1>4, <2>1, FoundStays
  <1> HIDE DEF T, W, n, k, U
  <1>7. Searched'
    <2>1. ASSUME NEW j \in 1..k - T PROVE buffer'[j] = W[T + j]
      <3>1. CASE j > n
        BY <1>4, <3>1
      <3>2. CASE ~(j > n)
        <4>1. j \in 1..n
          BY <1>1, <1>4, <3>2
        <4> QED BY <1>1, <1>4, <4>1
      <3> QED BY <3>1, <3>2
    <2>2. search_from \in 0..k - T
      BY <1>1, <1>4
    <2>3. \A at \in Nat : T <= at /\ at < T + search_from => Dead(at)
      BY DEF DelimInv, Searched, T
    <2>4. \A at \in Nat : T <= at /\ at < T + search_from => Dead(at)'
      BY <1>6, <2>3
    <2> QED BY <1>3, <1>4, <2>1, <2>2, <2>4 DEF Searched, U, W
  <1>8. FramedTypeOK' /\ (Taken \in 0..pos)'
    <2>1. k \in 0..Len(W) /\ T \in 0..k
      BY <1>1, <1>2, <1>4
    <2> QED BY <1>3, <1>4, <2>1 DEF FramedTypeOK, U, W, k
  <1>9. /\ inclusive_seen_header \in BOOLEAN /\ out \in Seq(Item) /\ (inclusive_seen_header => inclusive)
        /\ (inclusive /\ ~inclusive_seen_header => out = <<>> /\ T = 0)
        /\ (inclusive_seen_header \/ ~inclusive => Chained)
    BY <1>5 DEF DelimInv, T
  <1>10. ASSUME Chained PROVE Chained'
    <2>1. PICK first \in Nat : /\ first <= pos /\ First(first) /\ Chain(first)
                               /\ After(Len(out), first) = T
      BY <1>5, <1>10 DEF Chained, T
    <2>2. first <= k
      BY <1>1, <1>4, <2>1
    <2>3. First(first)'
      <3>1. CASE inclusive
        <4>1. FirstAfter(0, first - Len(delimiter))
          BY <2>1, <3>1 DEF First
        <4>2. Len(delimiter) \in Nat
          BY ItemsInput
        <4>3. first - Len(delimiter) \in Nat
          <5>1. 0 <= first - Len(delimiter)
            BY <4>1 DEF FirstAfter
          <5> QED BY <2>1, <4>2, <5>1
        <4>4. FirstAfter(0, first - Len(delimiter))'
          <5>1. PICK at \in Nat : at = first - Len(delimiter)
            BY <4>3
          <5>2. FirstAfter(0, at)'
            BY <1>6, <4>1, <5>1
          <5> QED BY <1>6, <5>1, <5>2
        <4> QED BY <1>6, <3>1, <4>4 DEF First
      <3>2. CASE ~inclusive
        BY <1>6, <2>1, <3>2 DEF First
      <3> QED BY <3>1, <3>2
    <2>4. ASSUME NEW j \in DOMAIN out
          PROVE  /\ out[j].from = After(j - 1, first)
                 /\ out[j].item = Decoded(SubSeq(W, out[j].from + 1, out[j].to))
                 /\ FirstAfter(out[j].from, out[j].to)'
      <3>1. /\ out[j].from = After(j - 1, first)
            /\ out[j].item = Decoded(SubSeq(W, out[j].from + 1, out[j].to))
            /\ FirstAfter(out[j].from, out[j].to)
        BY <1>5, <2>1 DEF Chain, W
      <3>2. out[j] \in Item
        BY <1>9
      <3>3. PICK from \in Nat : from = out[j].from
        BY <3>2 DEF Item
      <3>4. PICK to \in Nat : to = out[j].to
        BY <3>2 DEF Item
      <3>5. FirstAfter(from, to)'
        BY <1>6, <3>1, <3>3, <3>4
      <3>6. FirstAfter(out[j].from, out[j].to)'
        BY <1>3, <3>3, <3>4, <3>5
      <3> QED BY <3>1, <3>6
    <2>5. Chain(first)'
      <3>1. \A i : After(i, first)' = After(i, first)
        BY <1>3, <1>6 DEF After
      <3>2. \A b : Decoded(b)' = Decoded(b)
        BY <1>6 DEF Decoded
      <3> QED BY <1>3, <1>5, <2>4, <3>1, <3>2 DEF Chain, W
    <2>6. After(Len(out), first)' = T
      BY <1>3, <1>6, <2>1 DEF After
    <2> QED BY <1>4, <2>2, <2>3, <2>5, <2>6 DEF Chained, U, k
  <1> QED BY <1>3, <1>4, <1>5, <1>6, <1>7, <1>8, <1>9, <1>10 DEF DelimInv, U

\* The stream ends.
LEMMA ItemsEof ==
    ASSUME OfItems, DelimInv, Eof, UNCHANGED codec
    PROVE  DelimInv'
  <1>1. /\ phase = "reading" /\ phase' = "draining"
        /\ input' = input /\ pos' = pos /\ buffer' = buffer /\ out' = out
        /\ inclusive_seen_header' = inclusive_seen_header /\ search_from' = search_from
        /\ inclusive_terminated' = inclusive_terminated
    BY DEF Eof, codec
  <1>2. Taken' = Taken
    BY <1>1 DEF Taken
  <1>3. /\ delimiter' = delimiter /\ inclusive' = inclusive
        /\ NoneAfter(0)' = NoneAfter(0) /\ NoneAfter(Taken)' = NoneAfter(Taken)
        /\ Chained' = Chained /\ \A at : Dead(at)' = Dead(at)
    BY <1>1, <1>2, SameItems
  <1>4. FramedTypeOK' /\ Searched'
    BY <1>1, <1>2, <1>3 DEF FramedTypeOK, Searched, DelimInv
  <1> QED BY <1>1, <1>2, <1>3, <1>4 DEF DelimInv, Ended

\* Nothing has arrived yet.
LEMMA ItemsInit ==
    ASSUME OfItems, Init
    PROVE  DelimInv
  <1>1. /\ input.wire \in Seq(Nat) /\ Len(input.wire) \in Nat /\ inclusive \in BOOLEAN
        /\ Len(delimiter) \in Nat /\ Len(delimiter) > 0
    BY ItemsInput
  <1>2. /\ pos = 0 /\ buffer = <<>> /\ phase = "reading" /\ out = <<>> /\ search_from = 0
        /\ inclusive_seen_header = FALSE /\ inclusive_terminated = FALSE
    BY DEF Init, FramedInit
  <1>3. Len(buffer) = 0 /\ Len(out) = 0 /\ buffer \in Seq(Nat) /\ out \in Seq(Item)
    BY <1>2, EmptySeq
  <1>4. Taken = 0 /\ DOMAIN out = {} /\ 0 \in 0..Len(buffer) /\ 1..Len(buffer) = {}
    <2>1. Taken = 0 - 0
      BY <1>2, <1>3 DEF Taken
    <2>2. DOMAIN out = 1..0 /\ 1..0 = {} /\ 0 \in 0..0
      BY <1>3
    <2> QED BY <1>3, <2>1, <2>2
  <1>5. Searched
    <2>1. \A at \in Nat : ~(0 <= at /\ at < 0 + 0)
      OBVIOUS
    <2> QED BY <1>2, <1>4, <2>1 DEF Searched
  <1>6. FramedTypeOK /\ Taken \in 0..pos
    <2>1. 0 \in 0..Len(input.wire) /\ 0 \in 0..0
      BY <1>1
    <2> QED BY <1>2, <1>3, <1>4, <2>1 DEF FramedTypeOK
  <1>7. NoneAfter(0)
    <2>1. \A b \in 0..0 : b \in Nat /\ ~(b + Len(delimiter) <= 0)
      BY <1>1
    <2> QED BY <1>2, <2>1 DEF NoneAfter, Occurs
  <1>8. ~inclusive => Chained
    <2>1. After(Len(out), 0) = 0
      BY <1>3 DEF After
    <2>2. ~inclusive => First(0) /\ Chain(0) /\ 0 <= pos
      BY <1>2, <1>4 DEF First, Chain
    <2> QED BY <1>4, <2>1, <2>2 DEF Chained
  <1> QED BY <1>2, <1>3, <1>4, <1>5, <1>6, <1>7, <1>8 DEF DelimInv

\* Between reads, and at the end, the invariant says how the stream is split.
LEMMA ItemsSplit ==
    ASSUME OfItems, DelimInv
    PROVE  FramedTypeOK /\ CodecTypeOK /\ SplitsAtDelimiters
  <1>1. FramedTypeOK /\ CodecTypeOK
    BY DEF DelimInv, CodecTypeOK, Searched
  <1>2. ASSUME phase \in {"reading", "done"}
        PROVE  \/ inclusive /\ NoneAfter(0) /\ (phase = "reading" => out = <<>>)
               \/ \E first \in 0..pos :
                    /\ First(first)
                    /\ \A k \in DOMAIN out : out[k].from = After(k - 1, first) /\ Cut(k)
                    /\ NoneAfter(After(Len(out), first))
                    /\ inclusive /\ phase = "done" => out # <<>>
    <2>1. NoneAfter(Taken)
      BY <1>2 DEF DelimInv
    <2>2. CASE inclusive /\ ~inclusive_seen_header
      BY <1>2, <2>1, <2>2 DEF DelimInv, Ended
    <2>3. CASE ~(inclusive /\ ~inclusive_seen_header)
      <3>1. Chained
        BY <2>3 DEF DelimInv
      <3>2. inclusive_terminated <=> inclusive /\ phase = "done"
        BY <1>2, <2>3 DEF DelimInv, Ended
      <3>3. inclusive_terminated => out # <<>>
        BY DEF DelimInv, Ended
      <3>4. PICK first \in Nat : /\ first <= pos /\ First(first) /\ Chain(first)
                                 /\ ~inclusive_terminated => After(Len(out), first) = Taken
        BY <3>1 DEF Chained
      <3>5. pos \in Nat /\ first \in 0..pos
        BY <3>4, DelimPlace
      <3>6. \A k \in DOMAIN out : out[k].from = After(k - 1, first) /\ Cut(k)
        BY <3>2, <3>4 DEF Chain, Cut
      <3>7. NoneAfter(After(Len(out), first))
        <4>1. CASE ~inclusive_terminated
          BY <2>1, <3>4, <4>1
        <4>2. CASE inclusive_terminated
          <5> DEFINE n == Len(out)
          <5>1. n \in Nat /\ n # 0 /\ n \in DOMAIN out
            <6>1. out \in Seq(Item) /\ out # <<>>
              BY <3>3, <4>2 DEF DelimInv
            <6> QED BY <6>1, EmptySeq
          <5>2. out[n].to = pos
            BY <3>4, <4>2, <5>1 DEF Chain
          <5>3. After(n, first) = pos + Len(delimiter)
            BY <5>1, <5>2 DEF After
          <5>4. Len(delimiter) \in Nat /\ Len(delimiter) > 0
            BY ItemsInput
          <5>5. \A b \in pos + Len(delimiter)..pos : FALSE
            BY <3>5, <5>4
          <5> QED BY <5>3, <5>5 DEF NoneAfter
        <4> QED BY <4>1, <4>2
      <3> QED BY <3>2, <3>3, <3>4, <3>5, <3>6, <3>7
    <2> QED BY <2>2, <2>3
  <1> QED BY <1>1, <1>2 DEF SplitsAtDelimiters

-----------------------------------------------------------------------------
(* Items that have been encoded.                                            *)

\* All of what the encoder wrote has arrived.
AllArrived == OfItems /\ input.items # <<>> /\ pos = Len(input.wire)

ItemParts == [k \in DOMAIN input.items |-> EncodeItem(delimiter, inclusive, input.items[k])]

\* The delimiter is in s after the first at.
Has(s, at) == at + Len(delimiter) <= Len(s) /\ IsAt(s, delimiter, at, Len(delimiter))

\* The encoded items are the parts of the wire, and have no delimiter of their own in them.
LEMMA ItemsAreParts ==
    ASSUME AllArrived
    PROVE  /\ PartsOf(input.wire, ItemParts, ends) /\ Len(ItemParts) = Len(input.items)
           /\ input.items \in Seq(Seq(Nat)) /\ Len(input.items) \in Nat /\ Len(input.items) # 0
           /\ \A k \in 1..Len(input.items) :
                /\ inclusive => Has(input.items[k], 0) /\ ItemParts[k] = input.items[k]
                /\ ~inclusive => ItemParts[k] = input.items[k] \o delimiter
                /\ \A at \in (IF inclusive THEN Len(delimiter) ELSE 0)..Len(input.items[k]) : ~Has(input.items[k], at)
           /\ \A n \in 1..Len(delimiter) - 1 : \E m \in 1..Len(delimiter) - n : delimiter[n + m] # delimiter[m]
  <1> DEFINE items == input.items  d == delimiter  L == Len(delimiter)  N == Len(items)
  <1>1. /\ input.wire \in Seq(Nat) /\ d \in Seq(Nat) /\ L \in Nat /\ L > 0 /\ inclusive \in BOOLEAN
        /\ items \in Seq(Seq(Nat)) /\ items # <<>> /\ Encoded(input)
    BY ItemsInput DEF AllArrived
  <1>2. N \in Nat /\ N # 0 /\ DOMAIN items = 1..N
    BY <1>1, EmptySeq
  <1>3. /\ LaidOut(input.wire, ItemParts, ends)
        /\ \A k \in 1..N :
             /\ inclusive => 0 + L <= Len(items[k]) /\ SubSeq(items[k], 0 + 1, 0 + L) = d
             /\ \A at \in (IF inclusive THEN L ELSE 0)..Len(items[k]) :
                  ~(at + L <= Len(items[k]) /\ SubSeq(items[k], at + 1, at + L) = d)
        /\ \A n \in 1..L - 1 : \E m \in 1..L - n : d[n + m] # d[m]
    BY <1>1, <1>2 DEF Encoded, ItemParts, ends, delimiter, inclusive
  <1>4. \A k \in 1..N : items[k] \in Seq(Nat) /\ ItemParts[k] = IF inclusive THEN items[k] ELSE items[k] \o d
    BY <1>1, <1>2 DEF ItemParts, EncodeItem
  <1>5. ItemParts \in Seq(Seq(Nat)) /\ DOMAIN ItemParts = 1..N /\ Len(ItemParts) \in Nat
    BY <1>2, <1>3 DEF LaidOut, ItemParts
  <1>6. Len(ItemParts) = N
    BY <1>2, <1>5
  <1>7. SubSeq(d, 1, L) = d
    BY <1>1, SubSeqFull
  <1> HIDE DEF items, d, L, N
  <1>8. ASSUME NEW k \in 1..N, NEW at \in Nat, at + L <= Len(items[k])
        PROVE  SubSeq(items[k], at + 1, at + L) = d <=> Has(items[k], at)
    <2>1. SubSeq(items[k], at + 1, at + L) = SubSeq(d, 1, L) <=> IsAt(items[k], d, at, L)
      <3>1. items[k] \in Seq(Nat) /\ L <= Len(d)
        BY <1>1, <1>4 DEF L, d
      <3> QED BY <1>1, <1>8, <3>1, SamePart
    <2> QED BY <1>7, <1>8, <2>1 DEF Has, L, d
  <1>9. ASSUME NEW k \in 1..N
        PROVE  /\ inclusive => Has(items[k], 0)
               /\ \A at \in (IF inclusive THEN L ELSE 0)..Len(items[k]) : ~Has(items[k], at)
    <2>1. inclusive => Has(items[k], 0)
      BY <1>3, <1>8
    <2>2. ASSUME NEW at \in (IF inclusive THEN L ELSE 0)..Len(items[k]), Has(items[k], at) PROVE FALSE
      <3>1. at \in Nat /\ at + L <= Len(items[k])
        <4>1. at \in Nat
          BY <1>1
        <4> QED BY <2>2, <4>1 DEF Has, L
      <3> QED BY <1>3, <1>8, <2>2, <3>1
    <2> QED BY <2>1, <2>2
  <1>10. \A k \in 1..N : Len(ItemParts[k]) > 0
    <2> SUFFICES ASSUME NEW k \in 1..N PROVE Len(ItemParts[k]) > 0
      OBVIOUS
    <2>1. CASE inclusive
      <3>1. 0 + L <= Len(items[k]) /\ Len(items[k]) \in Nat
        BY <1>3, <1>4, <2>1
      <3> QED BY <1>1, <1>4, <2>1, <3>1
    <2>2. CASE ~inclusive
      <3>1. Len(items[k] \o d) = Len(items[k]) + L /\ Len(items[k]) \in Nat
        BY <1>1, <1>4, ConcatProperties DEF L, d
      <3> QED BY <1>1, <1>4, <2>2, <3>1
    <2> QED BY <2>1, <2>2
  <1>11. PartsOf(input.wire, ItemParts, ends)
    BY <1>3, <1>6, <1>10 DEF PartsOf
  <1> QED BY <1>1, <1>2, <1>3, <1>4, <1>6, <1>9, <1>11 DEF items, d, L, N

\* Two delimiters do not overlap.
LEMMA NoOverlap ==
    ASSUME AllArrived, NEW a \in Nat, NEW b \in Nat, a < b, Occurs(a), Occurs(b)
    PROVE  a + Len(delimiter) <= b
  <1> DEFINE L == Len(delimiter)  n == b - a  W == input.wire
  <1>1. L \in Nat /\ Len(W) \in Nat /\ W \in Seq(Nat)
    BY ItemsInput DEF AllArrived
  <1>2. \A m \in 1..L : W[a + m] = delimiter[m] /\ W[b + m] = delimiter[m]
    <2>1. pos \in Nat /\ pos <= Len(W)
      BY <1>1 DEF AllArrived
    <2> QED BY <2>1, OccursBytes DEF AllArrived
  <1>3. SUFFICES ASSUME ~(a + L <= b) PROVE FALSE
    OBVIOUS
  <1> HIDE DEF L, W
  <1>4. n \in 1..L - 1 /\ b = a + n
    BY <1>1, <1>3
  <1> HIDE DEF n
  <1>5. PICK m \in 1..L - n : delimiter[n + m] # delimiter[m]
    BY <1>4, ItemsAreParts DEF L
  <1>6. n + m \in 1..L /\ m \in 1..L /\ a + (n + m) = b + m
    BY <1>1, <1>4
  <1> QED BY <1>2, <1>5, <1>6

\* The k-th item begins at its place on the wire and has its own delimiter.
LEMMA ItemBytes ==
    ASSUME AllArrived, NEW k \in 1..Len(input.items)
    PROVE  /\ Start(ends, k) \in Nat /\ ends[k] \in Nat /\ ends[k] <= pos /\ pos \in Nat
           /\ input.items[k] \in Seq(Nat) /\ Len(input.items[k]) \in Nat
           /\ \A j \in 1..Len(input.items[k]) : input.wire[Start(ends, k) + j] = input.items[k][j]
           /\ inclusive => /\ ends[k] = Start(ends, k) + Len(input.items[k])
                           /\ Len(delimiter) <= Len(input.items[k]) /\ Occurs(Start(ends, k))
           /\ ~inclusive => /\ ends[k] = (Start(ends, k) + Len(input.items[k])) + Len(delimiter)
                            /\ Occurs(Start(ends, k) + Len(input.items[k]))
  <1> DEFINE a == Start(ends, k)  z == ends[k]  W == input.wire  L == Len(delimiter)
             item == input.items[k]  len == Len(item)  part == ItemParts[k]
  <1>1. /\ W \in Seq(Nat) /\ delimiter \in Seq(Nat) /\ L \in Nat /\ inclusive \in BOOLEAN
        /\ pos = Len(W) /\ pos \in Nat
    BY ItemsInput DEF AllArrived
  <1>2. /\ item \in Seq(Nat) /\ len \in Nat
        /\ inclusive => Has(item, 0) /\ part = item
        /\ ~inclusive => part = item \o delimiter
    BY ItemsAreParts
  <1>3. k \in 1..Len(ItemParts) /\ PartsOf(W, ItemParts, ends)
    BY ItemsAreParts
  <1>4. /\ a \in Nat /\ z \in Nat /\ a < z /\ z <= Len(W)
        /\ Len(part) = z - a /\ \A j \in 1..Len(part) : W[a + j] = part[j]
    BY <1>3, PartPlace
  <1>5. inclusive => L <= len /\ \A m \in 1..L : item[m] = delimiter[m]
    BY <1>1, <1>2 DEF Has, IsAt
  <1>6. ~inclusive => /\ Len(part) = len + L /\ \A j \in 1..len : part[j] = item[j]
                      /\ \A m \in 1..L : part[len + m] = delimiter[m]
    <2> SUFFICES ASSUME ~inclusive
                 PROVE  /\ Len(part) = len + L /\ \A j \in 1..len : part[j] = item[j]
                        /\ \A m \in 1..L : part[len + m] = delimiter[m]
      OBVIOUS
    <2> DEFINE t == item \o delimiter
    <2>1. Len(t) = len + L /\ \A i \in 1..len + L : t[i] = IF i <= len THEN item[i] ELSE delimiter[i - len]
      BY <1>1, <1>2, ConcatProperties
    <2>2. part = t
      BY <1>2
    <2> HIDE DEF t, item, L, len, part
    <2>3. \A j \in 1..len : j \in 1..len + L /\ j <= len
      BY <1>1, <1>2
    <2>4. \A m \in 1..L : len + m \in 1..len + L /\ ~(len + m <= len) /\ (len + m) - len = m
      BY <1>1, <1>2
    <2> QED BY <2>1, <2>2, <2>3, <2>4
  <1>7. \A at \in Nat : at + L <= pos /\ (\A m \in 1..L : W[at + m] = delimiter[m]) => Occurs(at)
    <2>1. pos <= Len(W)
      BY <1>1
    <2> QED BY <1>1, <2>1, OccursBytes DEF AllArrived
  <1> HIDE DEF a, z, W, L, item, len, part
  <1>8. ASSUME inclusive PROVE z = a + len /\ L <= len /\ Occurs(a) /\ \A j \in 1..len : W[a + j] = item[j]
    <2>1. Len(part) = len /\ part = item
      BY <1>2, <1>8 DEF len
    <2>2. z = a + len /\ L <= len /\ a + L <= pos
      BY <1>1, <1>2, <1>4, <1>5, <1>8, <2>1
    <2>3. \A m \in 1..L : m \in 1..len
      BY <1>1, <1>2, <2>2
    <2>4. \A m \in 1..L : W[a + m] = delimiter[m]
      BY <1>4, <1>5, <1>8, <2>1, <2>3
    <2> QED BY <1>4, <1>7, <2>1, <2>2, <2>4
  <1>9. ASSUME ~inclusive PROVE z = (a + len) + L /\ Occurs(a + len) /\ \A j \in 1..len : W[a + j] = item[j]
    <2>1. z = (a + len) + L /\ a + len \in Nat /\ (a + len) + L <= pos
      BY <1>1, <1>2, <1>4, <1>6, <1>9
    <2>2. \A m \in 1..L : len + m \in 1..len + L /\ a + (len + m) = (a + len) + m
      BY <1>1, <1>2, <1>4
    <2>3. \A m \in 1..L : W[(a + len) + m] = delimiter[m]
      BY <1>4, <1>6, <1>9, <2>2
    <2>4. \A j \in 1..len : j \in 1..len + L
      BY <1>1, <1>2
    <2> QED BY <1>4, <1>6, <1>7, <1>9, <2>1, <2>3, <2>4
  <1> QED BY <1>1, <1>2, <1>4, <1>8, <1>9 DEF a, z, W, L, item, len

\* There is no other delimiter in an item.
LEMMA NoneInside ==
    ASSUME AllArrived, NEW k \in 1..Len(input.items), NEW b \in Nat,
           Start(ends, k) <= b, b + Len(delimiter) <= Start(ends, k) + Len(input.items[k]),
           inclusive => Start(ends, k) < b
    PROVE  ~Occurs(b)
  <1> SUFFICES ASSUME Occurs(b) PROVE FALSE
    OBVIOUS
  <1> DEFINE a == Start(ends, k)  W == input.wire  L == Len(delimiter)
             item == input.items[k]  len == Len(item)  at == b - a
  <1>1. /\ a \in Nat /\ len \in Nat /\ L \in Nat /\ pos \in Nat /\ pos <= Len(W)
        /\ \A j \in 1..len : W[a + j] = item[j]
    BY ItemBytes, ItemsInput DEF AllArrived
  <1>2. inclusive => Occurs(a)
    BY ItemBytes
  <1>3. a <= b /\ b + L <= a + len /\ (inclusive => a < b)
    OBVIOUS
  <1>4. inclusive => a + L <= b
    BY <1>1, <1>2, <1>3, NoOverlap
  <1>5. \A m \in 1..L : W[b + m] = delimiter[m]
    BY <1>1, OccursBytes DEF AllArrived
  <1>6. \A i \in (IF inclusive THEN L ELSE 0)..len : ~Has(item, i)
    BY ItemsAreParts
  <1> HIDE DEF a, W, L, item, len
  <1>7. at \in Nat /\ at + L <= len /\ at \in (IF inclusive THEN L ELSE 0)..len /\ b = a + at
    BY <1>1, <1>3, <1>4
  <1> HIDE DEF at
  <1>8. \A m \in 1..L : at + m \in 1..len /\ a + (at + m) = b + m
    BY <1>1, <1>7
  <1>9. \A m \in 1..L : item[at + m] = delimiter[m]
    BY <1>1, <1>5, <1>8
  <1>10. Has(item, at)
    BY <1>7, <1>9 DEF Has, IsAt, L, len
  <1> QED BY <1>6, <1>7, <1>10

\* Between these places on the wire is what the k-th item is made of.
ItemFrom(k) == Start(ends, k) + (IF inclusive THEN Len(delimiter) ELSE 0)
ItemTo(k) == ends[k] - (IF inclusive THEN 0 ELSE Len(delimiter))

\* The items are what is between delimiters.
LEMMA ItemEnds ==
    ASSUME AllArrived, NEW k \in 1..Len(input.items)
    PROVE  /\ ItemFrom(k) \in Nat /\ ItemTo(k) \in Nat /\ ItemFrom(k) <= ItemTo(k) /\ ItemTo(k) <= pos
           /\ IF inclusive /\ k = Len(input.items)
              THEN ItemTo(k) = pos /\ NoneAfter(ItemFrom(k))
              ELSE FirstAfter(ItemFrom(k), ItemTo(k))
           /\ k # Len(input.items) => /\ k + 1 \in 1..Len(input.items)
                                      /\ ItemFrom(k + 1) = ItemTo(k) + Len(delimiter)
           /\ k = Len(input.items) /\ ~inclusive => ItemTo(k) + Len(delimiter) = pos
  <1> DEFINE a == Start(ends, k)  z == ends[k]  L == Len(delimiter)  N == Len(input.items)
             len == Len(input.items[k])  f == ItemFrom(k)  t == ItemTo(k)
  <1>1. /\ a \in Nat /\ len \in Nat /\ z \in Nat /\ z <= pos /\ pos \in Nat /\ k \in 1..N
        /\ inclusive => z = a + len /\ L <= len /\ Occurs(a)
        /\ ~inclusive => z = (a + len) + L /\ Occurs(a + len)
    BY ItemBytes
  <1>2. L \in Nat /\ L > 0 /\ inclusive \in BOOLEAN
    BY ItemsInput DEF AllArrived
  <1>3. N \in Nat /\ N # 0 /\ PartsOf(input.wire, ItemParts, ends) /\ Len(ItemParts) = N /\ pos = Len(input.wire)
    BY ItemsAreParts DEF AllArrived
  <1>4. ends[N] = pos
    <2>1. ItemParts # <<>>
      BY <1>3, EmptySeq
    <2> QED BY <1>3, <2>1, PartsCover
  <1>5. \A b \in Nat : a <= b /\ b + L <= a + len /\ (inclusive => a < b) => ~Occurs(b)
    BY NoneInside
  <1>6. f = a + (IF inclusive THEN L ELSE 0) /\ t = z - (IF inclusive THEN 0 ELSE L)
    BY DEF ItemFrom, ItemTo
  <1>7. k # N => k + 1 \in 1..N /\ Start(ends, k + 1) = z
    BY <1>1, <1>3 DEF Start
  <1>8. \A b \in Nat : Occurs(b) => b + L <= pos
    BY DEF Occurs
  <1>9. \A b, c \in Nat : b < c /\ Occurs(b) /\ Occurs(c) => b + L <= c
    BY NoOverlap
  <1>10. k # N /\ inclusive => Occurs(z)
    <2>1. k # N /\ inclusive => Occurs(Start(ends, k + 1))
      BY <1>7, ItemBytes
    <2> QED BY <1>7, <2>1
  <1>11. k # N => ItemFrom(k + 1) = z + (IF inclusive THEN L ELSE 0)
    BY <1>7 DEF ItemFrom
  <1>12. k = N => z = pos
    BY <1>4
  <1> HIDE DEF a, z, L, N, len, f, t
  <1>13. f \in Nat /\ t \in Nat /\ f <= t /\ t <= pos
    <2>1. CASE inclusive
      BY <1>1, <1>2, <1>6, <2>1
    <2>2. CASE ~inclusive
      BY <1>1, <1>2, <1>6, <2>2
    <2> QED BY <2>1, <2>2
  <1>14. ASSUME inclusive, k = N PROVE t = pos /\ NoneAfter(f)
    <2>1. t = pos /\ f = a + L /\ pos = a + len
      BY <1>1, <1>6, <1>12, <1>14
    <2>2. ASSUME NEW b \in f..pos, Occurs(b) PROVE FALSE
      <3>1. b \in Nat /\ a <= b /\ a < b
        BY <1>1, <1>2, <2>1, <2>2
      <3>2. b + L <= a + len
        BY <1>8, <2>1, <2>2, <3>1
      <3> QED BY <1>5, <2>2, <3>1, <3>2
    <2> QED BY <2>1, <2>2 DEF NoneAfter
  <1>15. ASSUME ~(inclusive /\ k = N) PROVE FirstAfter(f, t)
    <2>1. Occurs(t)
      <3>1. CASE inclusive
        <4>1. t = z
          BY <1>1, <1>6, <3>1
        <4> QED BY <1>10, <1>15, <3>1, <4>1
      <3>2. CASE ~inclusive
        <4>1. t = a + len
          BY <1>1, <1>2, <1>6, <3>2
        <4> QED BY <1>1, <3>2, <4>1
      <3> QED BY <3>1, <3>2
    <2>2. t = a + len /\ a <= f /\ (inclusive => a < f)
      <3>1. CASE inclusive
        BY <1>1, <1>2, <1>6, <3>1
      <3>2. CASE ~inclusive
        BY <1>1, <1>2, <1>6, <3>2
      <3> QED BY <3>1, <3>2
    <2>3. ASSUME NEW b \in f..t - 1, Occurs(b) PROVE FALSE
      <3>1. b \in Nat /\ b < t /\ a <= b /\ (inclusive => a < b)
        BY <1>1, <1>13, <2>2
      <3>2. b + L <= a + len
        BY <1>9, <1>13, <2>1, <2>2, <2>3, <3>1
      <3> QED BY <1>5, <2>3, <3>1, <3>2
    <2> QED BY <1>13, <2>1, <2>3 DEF FirstAfter
  <1>16. k # N => k + 1 \in 1..N /\ ItemFrom(k + 1) = t + L
    <2>1. CASE inclusive
      BY <1>1, <1>2, <1>6, <1>7, <1>11, <2>1
    <2>2. CASE ~inclusive
      BY <1>1, <1>2, <1>6, <1>7, <1>11, <2>2
    <2> QED BY <2>1, <2>2
  <1>17. k = N /\ ~inclusive => t + L = pos
    BY <1>1, <1>2, <1>6, <1>12
  <1> QED BY <1>13, <1>14, <1>15, <1>16, <1>17 DEF f, t, L, N

\* What is made of it is the item.
LEMMA ItemMade ==
    ASSUME AllArrived, NEW k \in 1..Len(input.items)
    PROVE  Decoded(SubSeq(input.wire, ItemFrom(k) + 1, ItemTo(k))) = input.items[k]
  <1> DEFINE a == Start(ends, k)  z == ends[k]  L == Len(delimiter)  W == input.wire
             item == input.items[k]  len == Len(item)
  <1>1. /\ a \in Nat /\ len \in Nat /\ z \in Nat /\ z <= Len(W) /\ item \in Seq(Nat) /\ W \in Seq(Nat)
        /\ L \in Nat /\ delimiter \in Seq(Nat) /\ Len(W) \in Nat
        /\ \A j \in 1..len : W[a + j] = item[j]
        /\ inclusive => z = a + len /\ L <= len
        /\ ~inclusive => z = (a + len) + L
    BY ItemBytes, ItemsInput DEF AllArrived
  <1>2. ItemFrom(k) = a + (IF inclusive THEN L ELSE 0) /\ ItemTo(k) = z - (IF inclusive THEN 0 ELSE L)
    BY DEF ItemFrom, ItemTo
  <1>3. inclusive => \A m \in 1..L : item[m] = delimiter[m]
    <2>1. inclusive => Has(item, 0)
      BY ItemsAreParts
    <2>2. \A m \in 1..L : 0 + m = m
      OBVIOUS
    <2> QED BY <2>1, <2>2 DEF Has, IsAt
  <1>4. CASE inclusive
    <2> DEFINE r == Rest(item, L)  b == delimiter \o r
    <2>1. L \in 0..Len(item)
      BY <1>1, <1>4
    <2>2. r \in Seq(Nat) /\ Len(r) = len - L /\ \A i \in 1..len - L : r[i] = item[L + i]
      BY <1>1, <2>1, RestOf
    <2>3. /\ b \in Seq(Nat) /\ Len(b) = L + Len(r)
          /\ \A i \in 1..L + Len(r) : b[i] = IF i <= L THEN delimiter[i] ELSE r[i - L]
      <3> HIDE DEF r
      <3> QED BY <1>1, <2>2, ConcatProperties
    <2> HIDE DEF r, b, a, z, L, W, item, len
    <2>4. L + Len(r) = len /\ (a + L) + Len(r) = z
      BY <1>1, <1>4, <2>2
    <2>5. SubSeq(W, (a + L) + 1, z) = r
      <3>1. \A j \in 1..Len(r) : L + j \in 1..len /\ a + (L + j) = (a + L) + j /\ j \in 1..len - L
        <4>1. a \in Nat /\ L \in Nat /\ len \in Nat /\ L <= len /\ Len(r) = len - L
          BY <1>1, <1>4, <2>2
        <4> QED BY <4>1
      <3>2. \A j \in 1..Len(r) : W[(a + L) + j] = r[j]
        BY <1>1, <2>2, <3>1
      <3>3. a + L \in Nat /\ (a + L) + Len(r) <= Len(W)
        BY <1>1, <2>4
      <3> QED BY <1>1, <2>2, <2>4, <3>2, <3>3, FoundIn
    <2>6. \A i \in 1..len : b[i] = item[i]
      <3> SUFFICES ASSUME NEW i \in 1..len PROVE b[i] = item[i]
        OBVIOUS
      <3>1. CASE i <= L
        <4>1. i \in 1..L /\ i \in 1..L + Len(r)
          BY <1>1, <2>4, <3>1
        <4> QED BY <1>3, <1>4, <2>3, <3>1, <4>1
      <3>2. CASE ~(i <= L)
        <4>1. L \in Nat /\ len \in Nat /\ L + Len(r) = len
          BY <1>1, <2>4
        <4>2. i \in 1..L + Len(r) /\ i - L \in 1..len - L /\ L + (i - L) = i
          BY <3>2, <4>1
        <4> QED BY <2>2, <2>3, <3>2, <4>2
      <3> QED BY <3>1, <3>2
    <2>7. b = item
      BY <1>1, <2>3, <2>4, <2>6, SeqEqual DEF len
    <2>8. ItemFrom(k) = a + L /\ ItemTo(k) = z
      BY <1>1, <1>2, <1>4
    <2>9. Decoded(r) = item
      BY <1>4, <2>7 DEF Decoded, b
    <2> QED BY <2>5, <2>8, <2>9 DEF W, item
  <1>5. CASE ~inclusive
    <2> HIDE DEF a, z, L
    <2>1. ItemFrom(k) = a /\ ItemTo(k) = a + len /\ a + len <= Len(W)
      <3> HIDE DEF len, W
      <3> QED BY <1>1, <1>2, <1>5
    <2>2. SubSeq(W, a + 1, a + Len(item)) = item
      <3> HIDE DEF item, W
      <3> QED BY <1>1, <2>1, FoundIn
    <2> QED BY <1>5, <2>1, <2>2 DEF Decoded
  <1> QED BY <1>4, <1>5

\* Only one place is the first.
LEMMA OneFirst ==
    ASSUME NEW from \in Nat, NEW a \in Nat, NEW b \in Nat, FirstAfter(from, a), FirstAfter(from, b)
    PROVE  a = b
  <1>1. /\ from <= a /\ Occurs(a) /\ \A c \in from..a - 1 : ~Occurs(c)
        /\ from <= b /\ Occurs(b) /\ \A c \in from..b - 1 : ~Occurs(c)
    BY DEF FirstAfter
  <1>2. ~(a < b) /\ ~(b < a)
    <2>1. a < b => a \in from..b - 1
      BY <1>1
    <2>2. b < a => b \in from..a - 1
      BY <1>1
    <2> QED BY <1>1, <2>1, <2>2
  <1> QED BY <1>2

\* Where there is a first there is not none.
LEMMA FirstNotNone ==
    ASSUME pos \in Nat, NEW from \in Nat, NEW at \in Nat, at <= pos, FirstAfter(from, at)
    PROVE  ~NoneAfter(from)
  <1>1. at \in from..pos /\ Occurs(at)
    BY DEF FirstAfter
  <1> QED BY <1>1 DEF NoneAfter

\* The items that come out begin where the first of those encoded does.
LEMMA FirstItem ==
    ASSUME AllArrived, NEW first \in 0..pos, First(first)
    PROVE  first = ItemFrom(1)
  <1> DEFINE L == Len(delimiter)
  <1>1. 1 \in 1..Len(input.items)
    BY ItemsAreParts
  <1>2. Start(ends, 1) = 0 /\ pos \in Nat /\ (inclusive => Occurs(0))
    BY <1>1, ItemBytes DEF Start
  <1>3. L \in Nat /\ inclusive \in BOOLEAN
    BY ItemsInput DEF AllArrived
  <1>4. ItemFrom(1) = IF inclusive THEN L ELSE 0
    BY <1>2, <1>3 DEF ItemFrom
  <1>5. CASE ~inclusive
    BY <1>4, <1>5 DEF First
  <1>6. CASE inclusive
    <2> DEFINE at == first - L
    <2>1. 0 <= at /\ \A b \in 0..at - 1 : ~Occurs(b)
      BY <1>6 DEF First, FirstAfter
    <2>2. first = at + L /\ at \in Int
      BY <1>2, <1>3
    <2> HIDE DEF at
    <2>3. ~(0 < at)
      <3>1. 0 < at => 0 \in 0..at - 1
        BY <2>2
      <3> QED BY <1>2, <1>6, <2>1, <3>1
    <2>4. at = 0
      BY <2>1, <2>2, <2>3
    <2> QED BY <1>3, <1>4, <1>6, <2>2, <2>4
  <1> QED BY <1>5, <1>6

\* What comes out of the end of the stream is what went into it.
LEMMA ItemsOut ==
    ASSUME OfItems, DelimInv
    PROVE  ItemsComeOut
  <1> SUFFICES ASSUME phase = "done", pos = Len(input.wire), input.items # <<>>
               PROVE  [k \in DOMAIN out |-> out[k].item] = input.items
    BY DEF ItemsComeOut
  <1> DEFINE L == Len(delimiter)  items == input.items  N == Len(items)  M == Len(out)  W == input.wire
  <1>1. AllArrived
    BY DEF AllArrived
  <1>2. N \in Nat /\ N # 0 /\ items \in Seq(Seq(Nat)) /\ 1 \in 1..N
    BY <1>1, ItemsAreParts
  <1>3. out \in Seq(Item) /\ M \in Nat /\ DOMAIN out = 1..M
    BY DEF DelimInv
  <1>4. L \in Nat /\ L > 0 /\ inclusive \in BOOLEAN /\ pos \in Nat
    BY ItemsInput, DelimPlace
  <1>5. SplitsAtDelimiters
    BY ItemsSplit
  <1>6. ~(inclusive /\ NoneAfter(0))
    <2>1. inclusive => Occurs(0)
      BY <1>1, <1>2, ItemBytes DEF Start
    <2>2. 0 \in 0..pos
      BY <1>4
    <2> QED BY <2>1, <2>2 DEF NoneAfter
  <1>7. PICK first \in 0..pos :
           /\ First(first)
           /\ \A k \in DOMAIN out : out[k].from = After(k - 1, first) /\ Cut(k)
           /\ NoneAfter(After(Len(out), first))
           /\ inclusive /\ phase = "done" => out # <<>>
    BY <1>5, <1>6 DEF SplitsAtDelimiters
  <1>8. first = ItemFrom(1)
    BY <1>1, <1>7, FirstItem
  <1>9. \A k \in 1..N :
          /\ ItemFrom(k) \in Nat /\ ItemTo(k) \in Nat /\ ItemTo(k) <= pos
          /\ IF inclusive /\ k = N
             THEN ItemTo(k) = pos /\ NoneAfter(ItemFrom(k))
             ELSE FirstAfter(ItemFrom(k), ItemTo(k))
          /\ k # N => k + 1 \in 1..N /\ ItemFrom(k + 1) = ItemTo(k) + L
          /\ k = N /\ ~inclusive => ItemTo(k) + L = pos
    BY <1>1, ItemEnds
  <1>10. \A k \in 1..M :
           /\ out[k].from \in Nat /\ out[k].to \in Nat
           /\ out[k].from = IF k = 1 THEN first ELSE out[k - 1].to + L
           /\ out[k].item = Decoded(SubSeq(W, out[k].from + 1, out[k].to))
           /\ IF inclusive /\ k = M
              THEN out[k].to = pos /\ NoneAfter(out[k].from)
              ELSE FirstAfter(out[k].from, out[k].to)
    <2> SUFFICES ASSUME NEW k \in 1..M
                 PROVE  /\ out[k].from \in Nat /\ out[k].to \in Nat
                        /\ out[k].from = IF k = 1 THEN first ELSE out[k - 1].to + L
                        /\ out[k].item = Decoded(SubSeq(W, out[k].from + 1, out[k].to))
                        /\ IF inclusive /\ k = M
                           THEN out[k].to = pos /\ NoneAfter(out[k].from)
                           ELSE FirstAfter(out[k].from, out[k].to)
      OBVIOUS
    <2>1. out[k] \in Item /\ out[k].from = After(k - 1, first) /\ Cut(k)
      BY <1>3, <1>7
    <2>2. k - 1 = 0 <=> k = 1
      BY <1>3
    <2>3. out[k].from = IF k = 1 THEN first ELSE out[k - 1].to + L
      BY <2>1, <2>2 DEF After
    <2> QED BY <2>1, <2>3 DEF Cut, Item
  <1>11. NoneAfter(IF M = 0 THEN first ELSE out[M].to + L)
    BY <1>7 DEF After
  <1>12. inclusive => M # 0
    BY <1>3, <1>7, EmptySeq
  <1>13. \A from, a, b \in Nat : FirstAfter(from, a) /\ FirstAfter(from, b) => a = b
    BY OneFirst
  <1>14. \A from, at \in Nat : at <= pos /\ FirstAfter(from, at) => ~NoneAfter(from)
    BY <1>4, FirstNotNone
  <1>15. \A at \in Nat : Occurs(at) => at + L <= pos
    BY DEF Occurs
  <1>16. \A k \in 1..N : Decoded(SubSeq(W, ItemFrom(k) + 1, ItemTo(k))) = items[k]
    BY <1>1, ItemMade
  <1> HIDE DEF L, items, N, M, W
  <1>17. M # 0
    <2> SUFFICES ASSUME M = 0 PROVE FALSE
      OBVIOUS
    <2>1. ~inclusive /\ NoneAfter(ItemFrom(1))
      BY <1>8, <1>11, <1>12
    <2> QED BY <1>2, <1>9, <1>14, <2>1
  <1> DEFINE Same(k) == k \in 1..N /\ out[k].from = ItemFrom(k)
  <1>18. ASSUME NEW k \in 1..M, Same(k)
         PROVE  out[k].to = ItemTo(k) /\ (k = M <=> k = N)
    <2>1. k \in 1..N /\ out[k].from = ItemFrom(k) /\ ItemFrom(k) \in Nat /\ ItemTo(k) \in Nat /\ out[k].to \in Nat
      BY <1>9, <1>10, <1>18
    <2>2. CASE inclusive /\ k = M
      <3>1. out[k].to = pos /\ NoneAfter(ItemFrom(k))
        BY <1>10, <2>1, <2>2
      <3>2. k = N
        BY <1>9, <1>14, <2>1, <3>1
      <3> QED BY <1>9, <2>1, <2>2, <3>1, <3>2
    <2>3. CASE ~(inclusive /\ k = M)
      <3>1. FirstAfter(ItemFrom(k), out[k].to)
        BY <1>10, <2>1, <2>3
      <3>2. out[k].to <= pos
        <4>1. out[k].to + L <= pos
          BY <1>15, <2>1, <3>1 DEF FirstAfter
        <4> QED BY <1>4, <2>1, <4>1
      <3>3. ~(inclusive /\ k = N)
        BY <1>9, <1>14, <2>1, <3>1, <3>2
      <3>4. out[k].to = ItemTo(k)
        <4>1. FirstAfter(ItemFrom(k), ItemTo(k))
          BY <1>9, <2>1, <3>3
        <4> QED BY <1>13, <2>1, <3>1, <4>1
      <3>5. ASSUME k # M, k = N PROVE FALSE
        <4>1. ~inclusive /\ ItemTo(k) + L = pos
          BY <1>9, <2>1, <3>3, <3>5
        <4>2. k + 1 \in 1..M /\ k + 1 # 1 /\ (k + 1) - 1 = k
          BY <1>3, <3>5
        <4>3. out[k + 1].from = pos /\ FirstAfter(pos, out[k + 1].to) /\ out[k + 1].to \in Nat
          BY <1>10, <3>4, <4>1, <4>2
        <4>4. pos <= out[k + 1].to /\ out[k + 1].to + L <= pos
          BY <1>15, <4>3 DEF FirstAfter
        <4> QED BY <1>4, <4>3, <4>4
      <3>6. ASSUME k = M, k # N PROVE FALSE
        <4>1. NoneAfter(ItemFrom(k + 1)) /\ k + 1 \in 1..N
          BY <1>9, <1>11, <1>17, <2>1, <3>4, <3>6
        <4>2. ~inclusive
          BY <2>3, <3>6
        <4> QED BY <1>9, <1>14, <4>1, <4>2
      <3> QED BY <3>4, <3>5, <3>6
    <2> QED BY <2>2, <2>3
  <1>19. \A k \in 1..M : Same(k)
    <2> DEFINE T == {k \in 1..M : ~Same(k)}
    <2>1. SUFFICES ASSUME T # {} PROVE FALSE
      OBVIOUS
    <2>2. T \subseteq Nat
      BY <1>3
    <2>3. PICK k \in T : \A y \in T : k <= y
      <3> HIDE DEF T
      <3> QED BY <2>1, <2>2, LeastOf
    <2>4. k \in 1..M /\ ~Same(k)
      BY <2>3
    <2>5. CASE k = 1
      BY <1>2, <1>8, <1>10, <2>4, <2>5
    <2>6. CASE k # 1
      <3> DEFINE j == k - 1
      <3>1. j \in 1..M /\ j # M /\ ~(k <= j) /\ j + 1 = k
        BY <1>3, <2>4, <2>6
      <3>2. Same(j)
        <4> HIDE DEF Same, j
        <4> QED BY <2>3, <3>1
      <3>3. out[j].to = ItemTo(j) /\ j # N /\ j \in 1..N
        <4>1. j \in 1..N
          BY <3>2
        <4> HIDE DEF Same, j
        <4> QED BY <1>18, <3>1, <3>2, <4>1
      <3>4. out[k].from = out[j].to + L
        BY <1>10, <2>4, <2>6
      <3>5. k \in 1..N /\ ItemFrom(k) = ItemTo(j) + L
        <4> HIDE DEF j
        <4> QED BY <1>9, <3>1, <3>3
      <3> QED BY <2>4, <3>3, <3>4, <3>5
    <2> QED BY <2>5, <2>6
  <1>20. M = N
    <2>1. M \in 1..M
      BY <1>3, <1>17
    <2> HIDE DEF Same
    <2> QED BY <1>18, <1>19, <2>1
  <1>21. \A k \in 1..N : out[k].item = items[k]
    <2> SUFFICES ASSUME NEW k \in 1..N PROVE out[k].item = items[k]
      OBVIOUS
    <2>1. Same(k) /\ k \in 1..M
      BY <1>19, <1>20
    <2>2. out[k].to = ItemTo(k) /\ out[k].from = ItemFrom(k)
      BY <1>18, <2>1
    <2> QED BY <1>10, <1>16, <2>1, <2>2
  <1>22. items = [k \in 1..N |-> items[k]]
    BY <1>2 DEF N
  <1> QED BY <1>3, <1>20, <1>21, <1>22 DEF items

-----------------------------------------------------------------------------
(* The specification.                                                       *)

\* A stream of frames leaves the delimiter codec alone.
Idle == inclusive_seen_header = FALSE /\ inclusive_terminated = FALSE /\ search_from = 0

Inv ==
    /\ input \in Inputs
    /\ input.codec = "cobs" => CobsInv /\ Idle
    /\ input.codec = "delimiters" => DelimInv

\* The stream is of one codec.
LEMMA OneCodec ==
    ASSUME input \in Inputs
    PROVE  input.codec = "cobs" \/ input.codec = "delimiters"
  BY InputsAssumption

\* Before anything has arrived.
LEMMA InitInv ==
    Init => Inv
  <1> SUFFICES ASSUME Init PROVE Inv
    OBVIOUS
  <1>1. input \in Inputs /\ FramedInit /\ Idle
    BY DEF Init, FramedInit, Idle
  <1>2. input.codec = "cobs" => CobsInv
    BY <1>1, CobsInit DEF OfFrames
  <1>3. input.codec = "delimiters" => DelimInv
    BY <1>1, ItemsInit DEF OfItems
  <1> QED BY <1>1, <1>2, <1>3 DEF Inv

\* Every step of a stream.
LEMMA NextInv ==
    Inv /\ [Next]_vars => Inv'
  <1> SUFFICES ASSUME Inv, [Next]_vars PROVE Inv'
    OBVIOUS
  <1>1. input \in Inputs
    BY DEF Inv
  <1>2. CASE vars' = vars
    <2>1. /\ input' = input /\ pos' = pos /\ buffer' = buffer /\ phase' = phase /\ out' = out
          /\ inclusive_seen_header' = inclusive_seen_header
          /\ inclusive_terminated' = inclusive_terminated /\ search_from' = search_from
      BY <1>2 DEF vars, framed, codec
    <2>2. CASE input.codec = "cobs"
      <3>1. CobsInv /\ Idle
        BY <2>2 DEF Inv
      <3>2. CobsInv'
        BY <2>1, <3>1, SameBuffer DEF CobsInv, FramedTypeOK
      <3> QED BY <1>1, <2>1, <2>2, <3>1, <3>2 DEF Inv, Idle
    <2>3. CASE input.codec = "delimiters"
      <3>1. DelimInv
        BY <2>3 DEF Inv
      <3>2. Taken' = Taken
        BY <2>1 DEF Taken
      <3>3. /\ delimiter' = delimiter /\ inclusive' = inclusive
            /\ NoneAfter(0)' = NoneAfter(0) /\ NoneAfter(Taken)' = NoneAfter(Taken)
            /\ Chained' = Chained /\ \A at : Dead(at)' = Dead(at)
        BY <2>1, <3>2, SameItems
      <3>4. FramedTypeOK' /\ Searched'
        BY <2>1, <3>1, <3>2, <3>3 DEF FramedTypeOK, Searched, DelimInv
      <3>5. DelimInv'
        BY <2>1, <3>1, <3>2, <3>3, <3>4 DEF DelimInv, Ended
      <3> QED BY <1>1, <2>1, <2>3, <3>5 DEF Inv
    <2> QED BY <1>1, <2>2, <2>3, OneCodec
  <1>3. CASE (Read \/ Eof) /\ UNCHANGED codec
    <2>1. input' = input
      BY <1>3 DEF Read, Eof
    <2>2. CASE input.codec = "cobs"
      <3>1. CobsInv'
        BY <1>1, <1>3, <2>2, ReadKeeps, EofKeeps DEF Inv, OfFrames
      <3>2. Idle'
        BY <1>3, <2>2 DEF Inv, Idle, codec
      <3> QED BY <1>1, <2>1, <2>2, <3>1, <3>2 DEF Inv
    <2>3. CASE input.codec = "delimiters"
      <3>1. DelimInv'
        BY <1>1, <1>3, <2>3, ItemsRead, ItemsEof DEF Inv, OfItems
      <3> QED BY <1>1, <2>1, <2>3, <3>1 DEF Inv
    <2> QED BY <1>1, <2>2, <2>3, OneCodec
  <1>4. CASE input.codec = "cobs" /\ CobsStep /\ UNCHANGED codec
    <2>1. input' = input
      BY <1>4 DEF CobsStep, Decode, DecodeEof
    <2>2. CobsInv'
      BY <1>1, <1>4, CobsStepKeeps DEF Inv, OfFrames
    <2>3. Idle'
      BY <1>4 DEF Inv, Idle, codec
    <2> QED BY <1>1, <1>4, <2>1, <2>2, <2>3 DEF Inv
  <1>5. CASE input.codec = "delimiters" /\ Loop
    <2>1. input' = input
      BY <1>5 DEF Loop, Complete, Partial, PartialAtEnd, NoMatch, EmptyAtEof, None
    <2>2. DelimInv'
      BY <1>1, <1>5, LoopKeeps DEF Inv, OfItems
    <2> QED BY <1>1, <1>5, <2>1, <2>2 DEF Inv
  <1> QED BY <1>2, <1>3, <1>4, <1>5 DEF Next, Codec, Done

\* What the invariant says of both kinds of stream.
LEMMA InvSafe ==
    Inv => CobsFrames /\ DelimitedItems
  <1> SUFFICES ASSUME Inv PROVE CobsFrames /\ DelimitedItems
    OBVIOUS
  <1>1. input \in Inputs
    BY DEF Inv
  <1>2. CASE input.codec = "cobs"
    <2>1. FramedTypeOK /\ FramesDecode
      BY <1>1, <1>2, CobsSafe DEF Inv, OfFrames
    <2>2. 0 \in 0..Len(buffer)
      BY <2>1 DEF FramedTypeOK
    <2>3. CodecTypeOK
      BY <1>2, <2>2 DEF Inv, Idle, CodecTypeOK
    <2> QED BY <1>2, <2>1, <2>3 DEF CobsFrames, DelimitedItems
  <1>3. CASE input.codec = "delimiters"
    <2>1. FramedTypeOK /\ CodecTypeOK /\ SplitsAtDelimiters /\ ItemsComeOut
      BY <1>1, <1>3, ItemsSplit, ItemsOut DEF Inv, OfItems
    <2> QED BY <1>3, <2>1 DEF CobsFrames, DelimitedItems
  <1> QED BY <1>1, <1>2, <1>3, OneCodec

\* Whatever was framed, with whatever bad frames among it, and in whatever pieces it
\* arrives, CobsCodec's decode and decode_eof (codec/src/cobs.rs) give every message
\* exactly once and in order, report every bad frame, and hold back nothing else.
THEOREM CobsFramesHold ==
    Spec => []CobsFrames
  <1>1. Spec => []Inv
    BY InitInv, NextInv, PTL DEF Spec
  <1> QED BY <1>1, InvSafe, PTL

\* Whatever the delimiter and in whatever pieces the bytes arrive,
\* AllDelimiterCodec's decode and decode_eof (codec/src/all_delimiters.rs) split a
\* stream at its delimiters, in both modes, never search outside the buffer, and give
\* the items that encode was given.
THEOREM DelimitedItemsHold ==
    Spec => []DelimitedItems
  <1>1. Spec => []Inv
    BY InitInv, NextInv, PTL DEF Spec
  <1> QED BY <1>1, InvSafe, PTL

=============================================================================
