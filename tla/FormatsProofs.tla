--------------------------- MODULE FormatsProofs ---------------------------
(***************************************************************************)
(* Proofs about Formats, for every message, of any time, number and        *)
(* payload, and whatever the checksum: packing and unpacking are inverse   *)
(* to each other.                                                          *)
(***************************************************************************)
EXTENDS Formats, SequenceTheorems, TLAPS

-----------------------------------------------------------------------------
(* Codes.                                                                   *)

LEMMA CodesAreBytes ==
    /\ \A x \in DOMAIN Destination : Destination[x] \in Byte
    /\ \A x \in DOMAIN Disposition : Disposition[x] \in {0, 1}
    /\ \A x \in DOMAIN Event : Event[x] \in 0..63
  BY DEF Destination, Disposition, Event, Byte

LEMMA CodesNameOne ==
    /\ \A x, y \in DOMAIN Destination : Destination[x] = Destination[y] => x = y
    /\ \A x, y \in DOMAIN Disposition : Disposition[x] = Disposition[y] => x = y
    /\ \A x, y \in DOMAIN Event : Event[x] = Event[y] => x = y
  BY DEF Destination, Disposition, Event

LEMMA NamedIsUnique ==
    /\ \A x \in DOMAIN Destination : Named(Destination, Destination[x]) = {x}
    /\ \A x \in DOMAIN Disposition : Named(Disposition, Disposition[x]) = {x}
    /\ \A x \in DOMAIN Event : Named(Event, Event[x]) = {x}
  BY CodesNameOne DEF Named

-----------------------------------------------------------------------------
(* Headers.                                                                 *)

\* The two bytes of a half of a timestamp, and the bits of the last byte.
LEMMA HalfOfBytes ==
    ASSUME NEW t \in Half
    PROVE  t % 256 \in Byte /\ t \div 256 \in Byte /\ (t % 256) + 256 * (t \div 256) = t
  BY DEF Byte, Half

LEMMA BytesOfHalf ==
    ASSUME NEW a \in Byte, NEW b \in Byte
    PROVE  a + 256 * b \in Half /\ (a + 256 * b) % 256 = a /\ (a + 256 * b) \div 256 = b
  BY DEF Byte, Half

LEMMA TypeByte ==
    ASSUME NEW d \in {0, 1}, NEW v \in {0, 64}, NEW e \in 0..63
    PROVE  /\ 128 * d + v + e \in Byte
           /\ (128 * d + v + e) \div 128 = d
           /\ ((128 * d + v + e) \div 64) % 2 = v \div 64
           /\ (128 * d + v + e) % 64 = e
  BY DEF Byte

LEMMA ByteOfType ==
    ASSUME NEW x \in Byte
    PROVE  x = 128 * (x \div 128) + (IF (x \div 64) % 2 = 1 THEN 64 ELSE 0) + (x % 64)
  BY DEF Byte

\* What PackHeader makes of a header.
LEMMA HeaderBytes ==
    ASSUME NEW h \in Header
    PROVE  /\ PackHeader(h) \in Seq(Byte) /\ Len(PackHeader(h)) = 8
           /\ PackHeader(h)[1] = Magic
  <1>1. /\ Destination[h.destination] \in Byte
        /\ h.time[1] \in Half /\ h.time[2] \in Half /\ h.seq \in Byte
        /\ Disposition[h.disposition] \in {0, 1} /\ Event[h.event] \in 0..63
    BY CodesAreBytes DEF Header
  <1>2. 128 * Disposition[h.disposition] + (IF h.invalid THEN 64 ELSE 0) + Event[h.event] \in Byte
    BY <1>1, TypeByte
  <1>3. Magic \in Byte
    BY DEF Magic, Byte
  <1> QED BY <1>1, <1>2, <1>3, HalfOfBytes DEF PackHeader

LEMMA HeaderUnpacks ==
    ASSUME NEW h \in Header
    PROVE  UnpackHeader(PackHeader(h)) = {h}
  <1> DEFINE b == PackHeader(h)
  <1>1. /\ h.destination \in DOMAIN Destination
        /\ h.time \in Half \X Half /\ h.seq \in Byte
        /\ h.disposition \in DOMAIN Disposition /\ h.invalid \in BOOLEAN /\ h.event \in DOMAIN Event
        /\ h = [destination |-> h.destination, time |-> h.time, seq |-> h.seq,
                disposition |-> h.disposition, invalid |-> h.invalid, event |-> h.event]
    BY DEF Header
  <1>2. /\ b[1] = Magic /\ b[2] = Destination[h.destination] /\ b[7] = h.seq
        /\ b[3] = h.time[2] % 256 /\ b[4] = h.time[2] \div 256
        /\ b[5] = h.time[1] % 256 /\ b[6] = h.time[1] \div 256
        /\ b[8] = 128 * Disposition[h.disposition] + (IF h.invalid THEN 64 ELSE 0) + Event[h.event]
    BY DEF PackHeader
  <1> HIDE DEF b
  <1>3. <<b[5] + 256 * b[6], b[3] + 256 * b[4]>> = h.time
    BY <1>1, <1>2, HalfOfBytes
  <1>4. /\ b[8] \div 128 = Disposition[h.disposition]
        /\ ((b[8] \div 64) % 2 = 1) = h.invalid
        /\ b[8] % 64 = Event[h.event]
    <2>1. Disposition[h.disposition] \in {0, 1} /\ Event[h.event] \in 0..63
      BY <1>1, CodesAreBytes
    <2> DEFINE v == IF h.invalid THEN 64 ELSE 0
    <2>2. v \in {0, 64} /\ ((v \div 64 = 1) = h.invalid)
      BY <1>1
    <2>3. b[8] = 128 * Disposition[h.disposition] + v + Event[h.event]
      BY <1>2
    <2> HIDE DEF v
    <2> QED BY <2>1, <2>2, <2>3, TypeByte
  <1>5. /\ Named(Destination, b[2]) = {h.destination}
        /\ Named(Disposition, b[8] \div 128) = {h.disposition}
        /\ Named(Event, b[8] % 64) = {h.event}
    BY <1>1, <1>2, <1>4, NamedIsUnique
  <1> DEFINE Made(d, k, e) ==
               [destination |-> d, time |-> <<b[5] + 256 * b[6], b[3] + 256 * b[4]>>, seq |-> b[7],
                disposition |-> k, invalid |-> (b[8] \div 64) % 2 = 1, event |-> e]
  <1>6. Made(h.destination, h.disposition, h.event) = h
    BY <1>1, <1>2, <1>3, <1>4
  <1>7. UnpackHeader(b) =
          {x \in {Made(d, k, e) : d \in Named(Destination, b[2]),
                                 k \in Named(Disposition, b[8] \div 128),
                                 e \in Named(Event, b[8] % 64)} : b[1] = Magic}
    BY DEF UnpackHeader
  <1> HIDE DEF Made
  <1> QED BY <1>2, <1>5, <1>6, <1>7 DEF b

\* Bytes that are taken for a header are those the header packs to.
LEMMA HeaderIsCanonical ==
    ASSUME NEW b \in Seq(Byte), Len(b) = 8, NEW h \in UnpackHeader(b)
    PROVE  h \in Header /\ PackHeader(h) = b
  <1>1. /\ b[1] \in Byte /\ b[2] \in Byte /\ b[3] \in Byte /\ b[4] \in Byte
        /\ b[5] \in Byte /\ b[6] \in Byte /\ b[7] \in Byte /\ b[8] \in Byte
    <2>1. \A i \in 1..Len(b) : b[i] \in Byte
      BY ElementOfSeq
    <2> QED BY <2>1
  <1>2. b = <<b[1], b[2], b[3], b[4], b[5], b[6], b[7], b[8]>>
    <2> DEFINE c == <<b[1], b[2], b[3], b[4], b[5], b[6], b[7], b[8]>>
    <2>1. c \in Seq(Byte) /\ Len(c) = 8
      BY <1>1
    <2>2. \A i \in 1..8 : c[i] = b[i]
      OBVIOUS
    <2> HIDE DEF c
    <2>3. b = c
      BY <2>1, <2>2, SeqEqual
    <2> QED BY <2>3 DEF c
  <1>3. PICK d \in Named(Destination, b[2]), k \in Named(Disposition, b[8] \div 128),
             e \in Named(Event, b[8] % 64) :
               /\ h = [destination |-> d, time |-> <<b[5] + 256 * b[6], b[3] + 256 * b[4]>>,
                       seq |-> b[7], disposition |-> k,
                       invalid |-> (b[8] \div 64) % 2 = 1, event |-> e]
               /\ b[1] = Magic
    BY DEF UnpackHeader
  <1>4. /\ d \in DOMAIN Destination /\ Destination[d] = b[2]
        /\ k \in DOMAIN Disposition /\ Disposition[k] = b[8] \div 128
        /\ e \in DOMAIN Event /\ Event[e] = b[8] % 64
    BY <1>3 DEF Named
  <1>5. h \in Header
    BY <1>1, <1>3, <1>4, BytesOfHalf DEF Header
  <1>6. /\ h.destination = d /\ h.time[1] = b[5] + 256 * b[6] /\ h.time[2] = b[3] + 256 * b[4]
        /\ h.seq = b[7] /\ h.disposition = k /\ h.invalid = ((b[8] \div 64) % 2 = 1) /\ h.event = e
    BY <1>3
  <1>7. 128 * Disposition[k] + (IF h.invalid THEN 64 ELSE 0) + Event[e] = b[8]
    <2>1. b[8] = 128 * (b[8] \div 128) + (IF (b[8] \div 64) % 2 = 1 THEN 64 ELSE 0) + (b[8] % 64)
      BY <1>1, ByteOfType
    <2> QED BY <1>4, <1>6, <2>1
  <1>8. /\ h.time[2] % 256 = b[3] /\ h.time[2] \div 256 = b[4]
        /\ h.time[1] % 256 = b[5] /\ h.time[1] \div 256 = b[6]
    BY <1>1, <1>6, BytesOfHalf
  <1>9. Destination[h.destination] = b[2] /\ h.seq = b[7] /\ Magic = b[1]
    BY <1>3, <1>4, <1>6
  <1>10. 128 * Disposition[h.disposition] + (IF h.invalid THEN 64 ELSE 0) + Event[h.event] = b[8]
    BY <1>6, <1>7
  <1> QED BY <1>2, <1>5, <1>8, <1>9, <1>10 DEF PackHeader

-----------------------------------------------------------------------------
(* Taking sequences apart.                                                  *)

LEMMA PartsOfConcat ==
    ASSUME NEW S, NEW a \in Seq(S), NEW d \in Seq(S)
    PROVE  SubSeq(a \o d, 1, Len(a)) = a /\ Rest(a \o d, Len(a)) = d
  <1> DEFINE c == a \o d
             n == Len(a)
             k == Len(d)
  <1>1. /\ c \in Seq(S) /\ n \in Nat /\ k \in Nat /\ Len(c) = n + k
        /\ \A i \in 1..(n + k) : c[i] = IF i <= n THEN a[i] ELSE d[i - n]
    BY ConcatProperties, LenProperties
  <1>2. \A i \in 1..Len(c) : c[i] \in S
    BY <1>1, ElementOfSeq
  <1> HIDE DEF c, n, k
  <1>3. SubSeq(c, 1, n) = a
    <2>1. /\ SubSeq(c, 1, n) \in Seq(S) /\ Len(SubSeq(c, 1, n)) = n
          /\ \A i \in 1..n : SubSeq(c, 1, n)[i] = c[i]
      BY <1>1, <1>2, SubSeqProperties
    <2> QED BY <1>1, <2>1, SeqEqual DEF n
  <1>4. SubSeq(c, n + 1, n + k) = d
    <2>1. /\ SubSeq(c, n + 1, n + k) \in Seq(S) /\ Len(SubSeq(c, n + 1, n + k)) = k
          /\ \A i \in 1..k : SubSeq(c, n + 1, n + k)[i] = c[n + i]
      BY <1>1, <1>2, SubSeqProperties
    <2>2. \A i \in 1..k : c[n + i] = d[i]
      BY <1>1
    <2> QED BY <1>1, <2>1, <2>2, SeqEqual DEF k
  <1> QED BY <1>1, <1>3, <1>4 DEF Rest, c, n

LEMMA PlacesOfConcat ==
    ASSUME NEW S, NEW a \in Seq(S), NEW d \in Seq(S)
    PROVE  /\ a \o d \in Seq(S) /\ Len(a \o d) = Len(a) + Len(d)
           /\ \A i \in 1..Len(a) : (a \o d)[i] = a[i]
           /\ \A i \in 1..Len(d) : (a \o d)[Len(a) + i] = d[i]
  <1> DEFINE c == a \o d
             n == Len(a)
             k == Len(d)
  <1>1. /\ c \in Seq(S) /\ Len(c) = n + k /\ n \in Nat /\ k \in Nat
        /\ \A i \in 1..(n + k) : c[i] = IF i <= n THEN a[i] ELSE d[i - n]
    BY ConcatProperties, LenProperties
  <1> HIDE DEF c, n, k
  <1>2. \A i \in 1..n : c[i] = a[i]
    BY <1>1
  <1>3. \A i \in 1..k : c[n + i] = d[i]
    BY <1>1
  <1> QED BY <1>1, <1>2, <1>3 DEF c, n, k

LEMMA SliceOf ==
    ASSUME NEW S, NEW b \in Seq(S), NEW m \in Nat, NEW d \in Seq(S), m + Len(d) <= Len(b),
           \A i \in 1..Len(d) : b[m + i] = d[i]
    PROVE  SubSeq(b, m + 1, m + Len(d)) = d
  <1> DEFINE k == Len(d)
             x == SubSeq(b, m + 1, m + k)
  <1>1. k \in Nat /\ Len(b) \in Nat /\ \A i \in 1..Len(b) : b[i] \in S
    BY LenProperties, ElementOfSeq
  <1>2. x \in Seq(S) /\ Len(x) = k /\ \A i \in 1..k : x[i] = b[m + i]
    <2>1. \A i \in (m + 1)..(m + k) : b[i] \in S
      BY <1>1
    <2> HIDE DEF k
    <2> QED BY <1>1, <2>1, SubSeqProperties
  <1> HIDE DEF x
  <1>3. \A i \in 1..k : x[i] = d[i]
    BY <1>2
  <1>4. x = d
    BY <1>2, <1>3, SeqEqual
  <1> QED BY <1>4 DEF x

InParts(b, a, d, r) ==
    /\ Len(b) = Len(a) + Len(d) + Len(r)
    /\ SubSeq(b, 1, Len(a)) = a
    /\ SubSeq(b, Len(a) + 1, Len(a) + Len(d)) = d
    /\ SubSeq(b, Len(a) + Len(d) + 1, Len(a) + Len(d) + Len(r)) = r
    /\ \A i \in 1..Len(a) : b[i] = a[i]
    /\ \A i \in 1..Len(d) : b[Len(a) + i] = d[i]

LEMMA PartsOfThree ==
    ASSUME NEW S, NEW a \in Seq(S), NEW d \in Seq(S), NEW r \in Seq(S)
    PROVE  a \o d \o r \in Seq(S) /\ InParts(a \o d \o r, a, d, r)
  <1> DEFINE h == a \o d
             b == h \o r
             n == Len(a)
             k == Len(d)
             l == Len(r)
  <1>1. n \in Nat /\ k \in Nat /\ l \in Nat
    BY LenProperties
  <1>2. /\ h \in Seq(S) /\ Len(h) = n + k
        /\ \A i \in 1..n : h[i] = a[i]
        /\ \A i \in 1..k : h[n + i] = d[i]
    BY PlacesOfConcat
  <1> HIDE DEF h
  <1>3. /\ b \in Seq(S) /\ Len(b) = Len(h) + l
        /\ \A i \in 1..Len(h) : b[i] = h[i]
        /\ \A i \in 1..l : b[Len(h) + i] = r[i]
    <2>1. h \in Seq(S)
      BY <1>2
    <2> QED BY <2>1, PlacesOfConcat
  <1> HIDE DEF b, n, k, l
  <1>4. Len(b) = n + k + l
    BY <1>1, <1>2, <1>3
  <1>5. \A i \in 1..n : b[i] = a[i]
    BY <1>1, <1>2, <1>3
  <1>6. \A i \in 1..k : b[n + i] = d[i]
    <2> SUFFICES ASSUME NEW i \in 1..k PROVE b[n + i] = d[i]
      OBVIOUS
    <2>1. n + i \in 1..Len(h) /\ h[n + i] = d[i]
      BY <1>1, <1>2
    <2> QED BY <1>3, <2>1
  <1>7. \A i \in 1..l : b[(n + k) + i] = r[i]
    BY <1>1, <1>2, <1>3
  <1>8. SubSeq(b, 0 + 1, 0 + n) = a
    <2>1. 0 \in Nat /\ 0 + Len(a) <= Len(b) /\ \A i \in 1..Len(a) : b[0 + i] = a[i]
      BY <1>1, <1>4, <1>5 DEF n
    <2> QED BY <1>3, <2>1, SliceOf DEF n
  <1>9. SubSeq(b, n + 1, n + k) = d
    <2>1. n \in Nat /\ n + Len(d) <= Len(b) /\ \A i \in 1..Len(d) : b[n + i] = d[i]
      BY <1>1, <1>4, <1>6 DEF k
    <2> QED BY <1>3, <2>1, SliceOf DEF k
  <1>10. SubSeq(b, (n + k) + 1, (n + k) + l) = r
    <2>1. n + k \in Nat /\ (n + k) + Len(r) <= Len(b) /\ \A i \in 1..Len(r) : b[(n + k) + i] = r[i]
      BY <1>1, <1>4, <1>7 DEF l
    <2> QED BY <1>3, <2>1, SliceOf DEF l
  <1>11. 0 + 1 = 1 /\ 0 + n = n
    BY <1>1
  <1>12. SubSeq(b, 1, n) = a
    BY <1>8, <1>11
  <1> QED BY <1>3, <1>4, <1>5, <1>6, <1>9, <1>10, <1>12 DEF b, h, n, k, l, InParts

LEMMA ConcatOfParts ==
    ASSUME NEW S, NEW s \in Seq(S), NEW n \in 0..Len(s)
    PROVE  /\ SubSeq(s, 1, n) \in Seq(S) /\ Len(SubSeq(s, 1, n)) = n
           /\ \A i \in 1..n : SubSeq(s, 1, n)[i] = s[i]
           /\ Rest(s, n) \in Seq(S) /\ Len(Rest(s, n)) = Len(s) - n
           /\ SubSeq(s, 1, n) \o Rest(s, n) = s
  <1>1. Len(s) \in Nat /\ \A i \in 1..Len(s) : s[i] \in S
    BY LenProperties, ElementOfSeq
  <1>2. /\ SubSeq(s, 1, n) \in Seq(S) /\ Len(SubSeq(s, 1, n)) = n
        /\ \A i \in 1..n : SubSeq(s, 1, n)[i] = s[i]
    BY <1>1, SubSeqProperties
  <1>3. Rest(s, n) \in Seq(S) /\ Len(Rest(s, n)) = Len(s) - n
    BY <1>1, SubSeqProperties DEF Rest
  <1>4. SubSeq(s, 1, n) \o Rest(s, n) = s
    <2>1. 1 \in 1..(Len(s) + 1) /\ n \in (1 - 1)..Len(s) /\ Len(s) \in n..Len(s)
      BY <1>1
    <2>2. SubSeq(s, 1, n) \o SubSeq(s, n + 1, Len(s)) = SubSeq(s, 1, Len(s))
      BY <2>1, ConcatAdjacentSubSeq
    <2> QED BY <2>2, SubSeqFull DEF Rest
  <1> QED BY <1>2, <1>3, <1>4

\* A last element behind a sequence.
LEMMA FrontOfConcat ==
    ASSUME NEW S, NEW a \in Seq(S), NEW e \in S
    PROVE  /\ a \o <<e>> \in Seq(S) /\ a \o <<e>> # <<>> /\ Len(a \o <<e>>) = Len(a) + 1
           /\ Front(a \o <<e>>) = a /\ Last(a \o <<e>>) = e
  <1>1. <<e>> \in Seq(S) /\ Len(<<e>>) = 1 /\ <<e>>[1] = e /\ Len(a) \in Nat
    BY LenProperties
  <1> DEFINE c == a \o <<e>>
  <1>2. c \in Seq(S) /\ Len(c) = Len(a) + 1 /\ c[Len(a) + 1] = e
    <2>1. /\ a \o <<e>> \in Seq(S) /\ Len(a \o <<e>>) = Len(a) + 1
          /\ (a \o <<e>>)[Len(a) + 1] = <<e>>[(Len(a) + 1) - Len(a)]
      BY <1>1, ConcatProperties
    <2> QED BY <1>1, <2>1
  <1>3. SubSeq(c, 1, Len(a)) = a
    BY <1>1, PartsOfConcat
  <1>4. c # <<>>
    BY <1>1, <1>2
  <1> QED BY <1>1, <1>2, <1>3, <1>4 DEF Front, Last

LEMMA FrontAndLast ==
    ASSUME NEW S, NEW s \in Seq(S), s # <<>>
    PROVE  /\ Front(s) \in Seq(S) /\ Len(Front(s)) = Len(s) - 1 /\ Len(s) \in Nat \ {0}
           /\ \A i \in 1..(Len(s) - 1) : Front(s)[i] = s[i]
           /\ Last(s) \in S /\ Front(s) \o <<Last(s)>> = s
  <1>1. Len(s) \in Nat \ {0}
    BY EmptySeq
  <1> DEFINE n == Len(s) - 1
  <1>2. n \in 0..Len(s) /\ n \in Nat
    BY <1>1
  <1>3. /\ SubSeq(s, 1, n) \in Seq(S) /\ Len(SubSeq(s, 1, n)) = n
        /\ \A i \in 1..n : SubSeq(s, 1, n)[i] = s[i]
        /\ Rest(s, n) \in Seq(S) /\ Len(Rest(s, n)) = Len(s) - n
        /\ SubSeq(s, 1, n) \o Rest(s, n) = s
    BY <1>2, ConcatOfParts
  <1>4. s[Len(s)] \in S
    BY <1>1, ElementOfSeq
  <1>5. Rest(s, n) = <<s[Len(s)]>>
    <2>1. Rest(s, n) = SubSeq(s, Len(s), Len(s))
      BY <1>1 DEF Rest
    <2>2. SubSeq(s, Len(s), Len(s))[1] = s[Len(s)] /\ Len(SubSeq(s, Len(s), Len(s))) = 1
      BY <1>1, <1>4, SubSeqProperties
    <2>3. <<s[Len(s)]>> \in Seq(S) /\ Len(<<s[Len(s)]>>) = 1 /\ <<s[Len(s)]>>[1] = s[Len(s)]
      BY <1>4
    <2>4. Rest(s, n) \in Seq(S) /\ Len(Rest(s, n)) = 1 /\ Rest(s, n)[1] = s[Len(s)]
      BY <1>1, <1>3, <2>1, <2>2
    <2>5. \A i \in 1..Len(Rest(s, n)) : Rest(s, n)[i] = <<s[Len(s)]>>[i]
      BY <2>3, <2>4
    <2> HIDE DEF n
    <2> QED BY <2>3, <2>4, <2>5, SeqEqual
  <1> QED BY <1>1, <1>3, <1>4, <1>5 DEF Front, Last

-----------------------------------------------------------------------------
(* Sources and messages.  C holds their checksums, P what payloads are made *)
(* of.                                                                      *)

Source(C) == {Empty} \cup [kind : {"Info"}, header : Header, checksum : C]
MessageOf(C, P) == [header : Header, source : Source(C), payload : Seq(P)]

\* Only the first eight bytes make the header.
LEMMA HeaderOfPrefix ==
    ASSUME NEW a, NEW b, \A i \in 1..8 : a[i] = b[i]
    PROVE  UnpackHeader(a) = UnpackHeader(b)
  <1>1. /\ a[1] = b[1] /\ a[2] = b[2] /\ a[3] = b[3] /\ a[4] = b[4]
        /\ a[5] = b[5] /\ a[6] = b[6] /\ a[7] = b[7] /\ a[8] = b[8]
    OBVIOUS
  <1> QED BY <1>1 DEF UnpackHeader

LEMMA SourceUnpacks ==
    ASSUME NEW C, NEW s \in Source(C), NEW S, Byte \subseteq S, C \subseteq S
    PROVE  /\ PackSource(s) \in Seq(S) /\ Len(PackSource(s)) = 9
           /\ \A i \in 1..8 : PackSource(s)[i] \in Byte
           /\ UnpackSource(PackSource(s)) = {s}
  <1> DEFINE Zero == [i \in 1..9 |-> 0]
  <1>1. CASE s = Empty
    <2>1. PackSource(s) = Zero
      BY <1>1 DEF PackSource
    <2>2. Zero \in Seq(S) /\ Len(Zero) = 9 /\ \A i \in 1..8 : Zero[i] \in Byte
      BY DEF Byte
    <2>3. UnpackSource(Zero) = {Empty}
      BY DEF UnpackSource
    <2> QED BY <1>1, <2>1, <2>2, <2>3
  <1>2. CASE s \in [kind : {"Info"}, header : Header, checksum : C]
    <2> DEFINE h == s.header
               c == s.checksum
               b == PackHeader(h) \o <<c>>
    <2>1. /\ s = [kind |-> "Info", header |-> h, checksum |-> c]
          /\ h \in Header /\ c \in C /\ s # Empty
      BY <1>2 DEF Empty
    <2>2. PackHeader(h) \in Seq(Byte) /\ Len(PackHeader(h)) = 8 /\ PackHeader(h)[1] = Magic
      BY <2>1, HeaderBytes
    <2>3. PackHeader(h) \in Seq(S)
      BY <2>2, SeqMonotonic
    <2>4. /\ b \in Seq(S) /\ Len(b) = 9
          /\ \A i \in 1..8 : b[i] = PackHeader(h)[i]
          /\ b[9] = c
      <3> DEFINE a == PackHeader(h)
      <3>1. <<c>> \in Seq(S) /\ Len(<<c>>) = 1 /\ <<c>>[1] = c
        BY <2>1
      <3>2. a \in Seq(S) /\ Len(a) = 8
        BY <2>2, <2>3
      <3> HIDE DEF a
      <3>3. /\ a \o <<c>> \in Seq(S) /\ Len(a \o <<c>>) = 8 + 1
            /\ \A i \in 1..(8 + 1) : (a \o <<c>>)[i] = IF i <= 8 THEN a[i] ELSE <<c>>[i - 8]
        <4> DEFINE e == <<c>>
        <4>1. e \in Seq(S) /\ Len(e) = 1
          BY <3>1
        <4> HIDE DEF e
        <4>2. /\ a \o e \in Seq(S) /\ Len(a \o e) = Len(a) + Len(e)
              /\ \A i \in 1..(Len(a) + Len(e)) : (a \o e)[i] = IF i <= Len(a) THEN a[i] ELSE e[i - Len(a)]
          BY <3>2, <4>1, ConcatProperties
        <4> QED BY <3>2, <4>1, <4>2 DEF e
      <3>4. /\ \A i \in 1..8 : (a \o <<c>>)[i] = a[i]
            /\ (a \o <<c>>)[9] = c
        BY <3>1, <3>3
      <3> QED BY <3>3, <3>4 DEF a
    <2>5. \A i \in 1..8 : PackHeader(h)[i] \in Byte
      BY <2>2, ElementOfSeq
    <2> HIDE DEF b, h, c
    <2>6. b # Zero
      <3>1. b[1] = 235 /\ Zero[1] = 0
        BY <2>2, <2>4 DEF Magic
      <3> QED BY <3>1
    <2>7. UnpackHeader(b) = {h}
      BY <2>1, <2>4, HeaderOfPrefix, HeaderUnpacks
    <2>8. UnpackSource(b) = {[kind |-> "Info", header |-> x, checksum |-> b[9]] : x \in UnpackHeader(b)}
      BY <2>6 DEF UnpackSource
    <2>9. UnpackSource(b) = {s}
      BY <2>1, <2>4, <2>7, <2>8
    <2>10. PackSource(s) = b
      BY <2>1 DEF PackSource, b, h, c
    <2> QED BY <2>4, <2>5, <2>9, <2>10
  <1> QED BY <1>1, <1>2 DEF Source

\* Nine zeros are no source, and other bytes are those the source packs to.
LEMMA SourceIsCanonical ==
    ASSUME NEW S, NEW b \in Seq(S), Len(b) = 9, \A i \in 1..8 : b[i] \in Byte,
           NEW s \in UnpackSource(b)
    PROVE  s \in Source(S) /\ PackSource(s) = b
  <1> DEFINE Zero == [i \in 1..9 |-> 0]
  <1>1. CASE b = Zero
    <2>1. s = Empty
      BY <1>1 DEF UnpackSource
    <2> QED BY <1>1, <2>1 DEF PackSource, Source
  <1>2. CASE b # Zero
    <2>1. PICK h \in UnpackHeader(b) : s = [kind |-> "Info", header |-> h, checksum |-> b[9]]
      BY <1>2 DEF UnpackSource
    <2> DEFINE a == SubSeq(b, 1, 8)
    <2>2. /\ Len(a) = 8 /\ \A i \in 1..8 : a[i] = b[i]
          /\ Len(Front(b)) = 8 /\ Front(b) = a /\ Last(b) = b[9] /\ b[9] \in S
          /\ a \o <<b[9]>> = b
      <3>1. b # <<>>
        <4>1. Len(<<>>) = 0 /\ Len(b) # 0
          OBVIOUS
        <4> QED BY <4>1
      <3>2. Front(b) = a /\ Last(b) = b[9]
        BY DEF Front, Last
      <3> HIDE DEF a
      <3>3. /\ Len(Front(b)) = Len(b) - 1 /\ Last(b) \in S
            /\ \A i \in 1..(Len(b) - 1) : Front(b)[i] = b[i]
            /\ Front(b) \o <<Last(b)>> = b
        BY <3>1, FrontAndLast
      <3>4. Len(b) - 1 = 8
        OBVIOUS
      <3> QED BY <3>2, <3>3, <3>4
    <2>3. a \in Seq(Byte)
      BY SubSeqProperties
    <2> HIDE DEF a
    <2>4. h \in UnpackHeader(a)
      BY <2>1, <2>2, HeaderOfPrefix
    <2>5. h \in Header /\ PackHeader(h) = a
      BY <2>2, <2>3, <2>4, HeaderIsCanonical
    <2>6. s # Empty /\ s \in Source(S) /\ s.header = h /\ s.checksum = b[9]
      BY <2>1, <2>2, <2>5 DEF Empty, Source
    <2> QED BY <2>2, <2>5, <2>6 DEF PackSource
  <1> QED BY <1>1, <1>2

\* What stands before the source's checksum.
HeadersAreBytes(b) == \A i \in 1..Len(b) : i <= 16 => b[i] \in Byte

Joined(H, Q, r) == {[header |-> h, source |-> s, payload |-> r] : h \in H, s \in Q}

LEMMA BodyUnpacks ==
    ASSUME NEW C, NEW P, NEW m \in MessageOf(C, P), NEW S, Byte \subseteq S, C \subseteq S, P \subseteq S
    PROVE  /\ PackBody(m) \in Seq(S) /\ Len(PackBody(m)) >= 17 /\ Len(PackBody(m)) \in Nat
           /\ HeadersAreBytes(PackBody(m))
           /\ UnpackBody(PackBody(m)) = {m}
  <1> DEFINE a == PackHeader(m.header)
             d == PackSource(m.source)
             r == m.payload
             b == a \o d \o r
  <1>1. /\ m.header \in Header /\ m.source \in Source(C) /\ r \in Seq(P)
        /\ m = [header |-> m.header, source |-> m.source, payload |-> r]
    BY DEF MessageOf
  <1>2. a \in Seq(Byte) /\ Len(a) = 8 /\ UnpackHeader(a) = {m.header}
    BY <1>1, HeaderBytes, HeaderUnpacks
  <1>3. a \in Seq(S) /\ \A i \in 1..8 : a[i] \in Byte
    BY <1>2, SeqMonotonic, ElementOfSeq
  <1>4. /\ d \in Seq(S) /\ Len(d) = 9 /\ UnpackSource(d) = {m.source}
        /\ \A i \in 1..8 : d[i] \in Byte
    BY <1>1, SourceUnpacks
  <1>5. r \in Seq(S)
    BY <1>1, SeqMonotonic
  <1> HIDE DEF a, d, r
  <1>6. /\ b \in Seq(S) /\ Len(b) = 17 + Len(r) /\ Len(r) \in Nat
        /\ SubSeq(b, 1, 8) = a /\ SubSeq(b, 9, 17) = d /\ Rest(b, 17) = r
        /\ \A i \in 1..8 : b[i] = a[i] /\ b[8 + i] = d[i]
    <2>1. b \in Seq(S) /\ InParts(b, a, d, r)
      <3>1. a \in Seq(S) /\ d \in Seq(S)
        BY <1>3, <1>4
      <3> QED BY <1>5, <3>1, PartsOfThree
    <2> HIDE DEF b
    <2>2. /\ Len(a) = 8 /\ Len(a) + 1 = 9 /\ Len(d) = 9
          /\ Len(a) + Len(d) = 17 /\ Len(a) + Len(d) + 1 = 18 /\ Len(r) \in Nat
      BY <1>2, <1>4, <1>5, LenProperties
    <2>3. Len(a) + Len(d) + Len(r) = Len(b)
      BY <2>1 DEF InParts
    <2>4. SubSeq(b, 1, 8) = a /\ SubSeq(b, 9, 17) = d /\ SubSeq(b, 18, Len(b)) = r
      BY <2>1, <2>2, <2>3 DEF InParts
    <2>5. ASSUME NEW i \in 1..8 PROVE b[i] = a[i] /\ b[8 + i] = d[i]
      <3>1. i \in 1..Len(a) /\ i \in 1..Len(d) /\ Len(a) + i = 8 + i
        BY <2>2
      <3>2. b[i] = a[i] /\ b[Len(a) + i] = d[i]
        BY <2>1, <3>1 DEF InParts
      <3> QED BY <3>1, <3>2
    <2> QED BY <2>1, <2>2, <2>3, <2>4, <2>5 DEF Rest
  <1>7. PackBody(m) = b
    BY DEF PackBody, a, d, r
  <1> HIDE DEF b
  <1>8. Len(b) >= 17 /\ Len(b) \in Nat
    BY <1>6
  <1>9. UnpackBody(b) = Joined(UnpackHeader(a), UnpackSource(d), r)
    <2>1. ~(Len(b) < 17)
      BY <1>8
    <2>2. UnpackBody(b) =
            Joined(UnpackHeader(SubSeq(b, 1, 8)), UnpackSource(SubSeq(b, 9, 17)), Rest(b, 17))
      BY <2>1 DEF UnpackBody, Joined
    <2>3. SubSeq(b, 1, 8) = a /\ SubSeq(b, 9, 17) = d /\ Rest(b, 17) = r
      BY <1>6
    <2> QED BY <2>2, <2>3
  <1>10. UnpackBody(b) = {[header |-> m.header, source |-> m.source, payload |-> r]}
    BY <1>2, <1>4, <1>9 DEF Joined
  <1>11. HeadersAreBytes(b)
    <2> SUFFICES ASSUME NEW i \in 1..Len(b), i <= 16 PROVE b[i] \in Byte
      BY DEF HeadersAreBytes
    <2>1. CASE i <= 8
      <3>1. i \in 1..8
        BY <1>8, <2>1
      <3> QED BY <1>3, <1>6, <3>1
    <2>2. CASE ~(i <= 8)
      <3>1. i - 8 \in 1..8 /\ 8 + (i - 8) = i
        BY <1>8, <2>2
      <3>2. b[8 + (i - 8)] = d[i - 8] /\ d[i - 8] \in Byte
        BY <1>4, <1>6, <3>1
      <3> QED BY <3>1, <3>2
    <2> QED BY <2>1, <2>2
  <1> QED BY <1>1, <1>6, <1>7, <1>8, <1>10, <1>11

LEMMA BodyIsCanonical ==
    ASSUME NEW S, NEW b \in Seq(S), HeadersAreBytes(b),
           NEW m \in UnpackBody(b)
    PROVE  m \in MessageOf(S, S) /\ PackBody(m) = b
  <1>1. Len(b) \in Nat /\ Len(b) >= 17
    <2>1. Len(b) \in Nat
      BY LenProperties
    <2> QED BY <2>1 DEF UnpackBody
  <1> DEFINE a == SubSeq(b, 1, 8)
             d == SubSeq(b, 9, 17)
             r == Rest(b, 17)
  <1>2. PICK h \in UnpackHeader(a), s \in UnpackSource(d) :
          m = [header |-> h, source |-> s, payload |-> r]
    BY <1>1 DEF UnpackBody
  <1>3. \A i \in 1..Len(b) : b[i] \in S
    BY ElementOfSeq
  <1>4. a \in Seq(Byte) /\ Len(a) = 8
    <2> SUFFICES \A i \in 1..8 : b[i] \in Byte
      BY SubSeqProperties
    <2> TAKE i \in 1..8
    <2>1. i \in 1..Len(b) /\ i <= 16
      BY <1>1
    <2> QED BY <2>1 DEF HeadersAreBytes
  <1>5. d \in Seq(S) /\ Len(d) = 9 /\ \A i \in 1..8 : d[i] \in Byte
    <2>1. \A i \in 9..17 : b[i] \in S
      BY <1>1, <1>3
    <2>2. d \in Seq(S) /\ Len(d) = 9 /\ \A i \in 1..9 : d[i] = b[9 + i - 1]
      BY <2>1, SubSeqProperties
    <2>3. ASSUME NEW i \in 1..8 PROVE b[9 + i - 1] \in Byte
      <3>1. 9 + i - 1 \in 1..Len(b) /\ 9 + i - 1 <= 16
        BY <1>1
      <3> QED BY <3>1 DEF HeadersAreBytes
    <2> QED BY <2>2, <2>3
  <1>6. r \in Seq(S) /\ SubSeq(b, 1, 17) \o r = b
    <2>1. 17 \in 0..Len(b)
      BY <1>1
    <2> QED BY <2>1, ConcatOfParts
  <1>7. a \o d = SubSeq(b, 1, 17)
    <2>1. 1 \in 1..(Len(b) + 1) /\ 8 \in (1 - 1)..Len(b) /\ 17 \in 8..Len(b)
      BY <1>1
    <2>2. SubSeq(b, 1, 8) \o SubSeq(b, 8 + 1, 17) = SubSeq(b, 1, 17)
      BY <2>1, ConcatAdjacentSubSeq
    <2> QED BY <2>2
  <1> HIDE DEF a, d, r
  <1>8. h \in Header /\ PackHeader(h) = a
    BY <1>2, <1>4, HeaderIsCanonical
  <1>9. s \in Source(S) /\ PackSource(s) = d
    BY <1>2, <1>5, SourceIsCanonical
  <1>10. m \in MessageOf(S, S)
    BY <1>2, <1>6, <1>8, <1>9 DEF MessageOf
  <1>11. m.header = h /\ m.source = s /\ m.payload = r
    BY <1>2
  <1> QED BY <1>6, <1>7, <1>8, <1>9, <1>10, <1>11 DEF PackBody

\* Packing a message, and unpacking what came of it.
LEMMA MessageUnpacks ==
    ASSUME NEW C, NEW P, NEW m \in MessageOf(C, P), NEW S, Byte \subseteq S, C \subseteq S, P \subseteq S,
           Checksum(PackBody(m)) \in S
    PROVE  /\ Pack(m) \in Seq(S) /\ Len(Pack(m)) >= 18 /\ HeadersAreBytes(Pack(m))
           /\ Last(Pack(m)) = Checksum(PackBody(m))
           /\ Unpack(Pack(m)) = {m}
  <1> DEFINE b == PackBody(m)
             c == Checksum(PackBody(m))
             w == Pack(m)
  <1>1. /\ b \in Seq(S) /\ Len(b) >= 17 /\ Len(b) \in Nat /\ HeadersAreBytes(b)
        /\ UnpackBody(b) = {m}
    BY BodyUnpacks
  <1>2. w = b \o <<c>> /\ c \in S
    BY DEF Pack
  <1> HIDE DEF b, c, w
  <1>3. /\ w \in Seq(S) /\ w # <<>> /\ Len(w) = Len(b) + 1
        /\ Front(w) = b /\ Last(w) = c
    <2>1. b \in Seq(S) /\ c \in S
      BY <1>1, <1>2
    <2>2. /\ b \o <<c>> \in Seq(S) /\ b \o <<c>> # <<>> /\ Len(b \o <<c>>) = Len(b) + 1
          /\ Front(b \o <<c>>) = b /\ Last(b \o <<c>>) = c
      BY <2>1, FrontOfConcat
    <2> QED BY <1>2, <2>2
  <1>4. \A i \in 1..Len(b) : w[i] = b[i]
    <2>1. /\ Len(Front(w)) = Len(w) - 1
          /\ \A i \in 1..(Len(w) - 1) : Front(w)[i] = w[i]
      BY <1>3, FrontAndLast
    <2>2. Len(w) - 1 = Len(b)
      BY <1>1, <1>3
    <2> QED BY <1>3, <2>1, <2>2
  <1>5. HeadersAreBytes(w)
    <2> SUFFICES ASSUME NEW i \in 1..Len(w), i <= 16 PROVE w[i] \in Byte
      BY DEF HeadersAreBytes
    <2>1. i \in 1..Len(b)
      BY <1>1, <1>3
    <2> QED BY <1>1, <1>4, <2>1 DEF HeadersAreBytes
  <1>6. Unpack(w) = {x \in UnpackBody(b) : Checksum(PackBody(x)) = c}
    BY <1>3 DEF Unpack
  <1>7. Unpack(w) = {m}
    BY <1>1, <1>6 DEF c
  <1>8. Len(w) >= 18
    BY <1>1, <1>3
  <1> QED BY <1>3, <1>5, <1>7, <1>8 DEF w, c

\* Bytes that are accepted are those of the message they are accepted as.
LEMMA MessageIsCanonical ==
    ASSUME NEW S, NEW w \in Seq(S), HeadersAreBytes(w), NEW m \in Unpack(w)
    PROVE  m \in MessageOf(S, S) /\ Pack(m) = w
  <1>1. /\ w # <<>> /\ m \in UnpackBody(Front(w)) /\ Checksum(PackBody(m)) = Last(w)
    BY DEF Unpack
  <1>2. /\ Front(w) \in Seq(S) /\ Len(Front(w)) = Len(w) - 1 /\ Len(w) \in Nat \ {0}
        /\ \A i \in 1..(Len(w) - 1) : Front(w)[i] = w[i]
        /\ Last(w) \in S /\ Front(w) \o <<Last(w)>> = w
    BY <1>1, FrontAndLast
  <1>3. HeadersAreBytes(Front(w))
    <2> SUFFICES ASSUME NEW i \in 1..Len(Front(w)), i <= 16 PROVE Front(w)[i] \in Byte
      BY DEF HeadersAreBytes
    <2>1. i \in 1..(Len(w) - 1) /\ i \in 1..Len(w)
      BY <1>2
    <2> QED BY <1>2, <2>1 DEF HeadersAreBytes
  <1>4. m \in MessageOf(S, S) /\ PackBody(m) = Front(w)
    BY <1>1, <1>2, <1>3, BodyIsCanonical
  <1> QED BY <1>1, <1>2, <1>4 DEF Pack

\* What the line may carry, damaged or not.
Sound(w) == w \in Seq(ToSet(w)) /\ Len(w) >= 18 /\ HeadersAreBytes(w)
\* Bytes are accepted as one message at most.
LEMMA UnpackIsUnique ==
    ASSUME NEW w, Sound(w), NEW m \in Unpack(w)
    PROVE  Unpack(w) = {m}
  <1> DEFINE T == ToSet(w)
             S == Byte \cup T \cup {Checksum(PackBody(m))}
  <1>1. w \in Seq(T) /\ HeadersAreBytes(w)
    BY DEF Sound
  <1> HIDE DEF T
  <1>2. m \in MessageOf(T, T) /\ Pack(m) = w
    BY <1>1, MessageIsCanonical
  <1>3. Byte \subseteq S /\ T \subseteq S /\ Checksum(PackBody(m)) \in S
    OBVIOUS
  <1> HIDE DEF S
  <1>4. Unpack(Pack(m)) = {m}
    BY <1>2, <1>3, MessageUnpacks
  <1> QED BY <1>2, <1>4

-----------------------------------------------------------------------------
(* The inductive invariant.                                                 *)

\* What is sent survives packing, be it one of Messages or an acknowledgement.
SentIsSound ==
    \/ sent \in Messages /\ request = {}
    \/ \E r \in request :
         /\ request = {r} /\ sent = AckOf(r) /\ r.header \in Header
         /\ Last(Pack(r)) = Checksum(PackBody(r))

\* Nothing happened on the way.
Clean == flipped = {} /\ ~patched

WireIsSound ==
    /\ stage \in {"built", "packed"} => Clean
    /\ stage # "built" => Sound(wire) /\ (Clean => wire = Pack(sent))

GotIsUnpacked == stage = "unpacked" => got = Unpack(wire)

Inv == SentIsSound /\ WireIsSound /\ GotIsUnpacked

LEMMA SoundSeq ==
    ASSUME NEW S, NEW w \in Seq(S)
    PROVE  w \in Seq(ToSet(w))
  <1>1. Len(w) \in Nat /\ DOMAIN w = 1..Len(w)
    BY LenProperties
  <1>2. \A i \in 1..Len(w) : w[i] \in ToSet(w)
    BY <1>1 DEF ToSet
  <1>3. SubSeq(w, 1, Len(w)) \in Seq(ToSet(w))
    BY <1>1, <1>2, SubSeqProperties
  <1> QED BY <1>3, SubSeqFull

\* The message that is sent, packed.
LEMMA SentUnpacks ==
    ASSUME SentIsSound
    PROVE  Sound(Pack(sent)) /\ Unpack(Pack(sent)) = {sent}
  <1>1. \E C, P : sent \in MessageOf(C, P)
    <2>1. CASE sent \in Messages
      <3>1. sent \in Message
        BY <2>1, MessagesAssumption
      <3>2. sent \in MessageOf(Byte, Byte)
        BY <3>1 DEF Message, MessageOf, Source
      <3> QED BY <3>2
    <2>2. ASSUME NEW r \in request, sent = AckOf(r), r.header \in Header
          PROVE  \E C, P : sent \in MessageOf(C, P)
      <3>1. [r.header EXCEPT !.disposition = "Ack"] \in Header
        BY <2>2 DEF Header, Disposition
      <3>2. <<>> \in Seq({})
        BY EmptySeq
      <3>3. sent \in MessageOf({Checksum(PackBody(r))}, {})
        BY <2>2, <3>1, <3>2 DEF AckOf, MessageOf, Source
      <3> QED BY <3>3
    <2> QED BY <2>1, <2>2 DEF SentIsSound
  <1>2. PICK C, P : sent \in MessageOf(C, P)
    BY <1>1
  <1> DEFINE S == Byte \cup C \cup P \cup {Checksum(PackBody(sent))}
  <1>3. Byte \subseteq S /\ C \subseteq S /\ P \subseteq S /\ Checksum(PackBody(sent)) \in S
    OBVIOUS
  <1> HIDE DEF S
  <1>4. /\ Pack(sent) \in Seq(S) /\ Len(Pack(sent)) >= 18 /\ HeadersAreBytes(Pack(sent))
        /\ Unpack(Pack(sent)) = {sent}
    BY <1>2, <1>3, MessageUnpacks
  <1> QED BY <1>4, SoundSeq DEF Sound

LEMMA BitsOfByte ==
    ASSUME NEW x \in Byte
    PROVE  /\ Bit(x, 1) \in {0, 1} /\ Bit(x, 2) \in {0, 1} /\ Bit(x, 3) \in {0, 1}
           /\ Bit(x, 4) \in {0, 1} /\ Bit(x, 5) \in {0, 1} /\ Bit(x, 6) \in {0, 1}
           /\ Bit(x, 7) \in {0, 1} /\ Bit(x, 8) \in {0, 1}
  BY DEF Bit, Byte

Joint(a, b, c, d, e, f, g, h) ==
    128 * a + 64 * b + 32 * c + 16 * d + 8 * e + 4 * f + 2 * g + h

LEMMA ByteOfBits ==
    ASSUME NEW a \in {0, 1}, NEW b \in {0, 1}, NEW c \in {0, 1}, NEW d \in {0, 1},
           NEW e \in {0, 1}, NEW f \in {0, 1}, NEW g \in {0, 1}, NEW h \in {0, 1}
    PROVE  Joint(a, b, c, d, e, f, g, h) \in Byte
  <1> DEFINE high == 128 * a + 64 * b + 32 * c + 16 * d
             low == 8 * e + 4 * f + 2 * g + h
  <1>1. high \in Int /\ 0 <= high /\ high <= 240
    OBVIOUS
  <1>2. low \in Int /\ 0 <= low /\ low <= 15
    OBVIOUS
  <1> QED BY <1>1, <1>2 DEF Byte, Joint

\* Damage leaves bytes.
LEMMA FlipIsSound ==
    ASSUME NEW w, Sound(w), NEW bits
    PROVE  Sound(Flip(w, bits))
  <1> DEFINE f == Flip(w, bits)
             n == Len(w)
  <1>1. n \in Nat /\ n >= 18 /\ DOMAIN w = 1..n
    BY LenProperties DEF Sound
  <1>2. DOMAIN f = 1..n
    BY <1>1 DEF Flip
  <1>3. ASSUME NEW k \in 1..n, k <= 16 PROVE f[k] \in Byte
    <2>1. w[k] \in Byte
      BY <1>3 DEF Sound, HeadersAreBytes
    <2> DEFINE Now(b) == IF 8 * (k - 1) + b \in bits THEN 1 - Bit(w[k], b) ELSE Bit(w[k], b)
    <2>2. /\ Now(1) \in {0, 1} /\ Now(2) \in {0, 1} /\ Now(3) \in {0, 1} /\ Now(4) \in {0, 1}
          /\ Now(5) \in {0, 1} /\ Now(6) \in {0, 1} /\ Now(7) \in {0, 1} /\ Now(8) \in {0, 1}
      <3>1. ASSUME NEW b, Bit(w[k], b) \in {0, 1} PROVE Now(b) \in {0, 1}
        BY <3>1
      <3> HIDE DEF Now
      <3>2. /\ Bit(w[k], 1) \in {0, 1} /\ Bit(w[k], 2) \in {0, 1} /\ Bit(w[k], 3) \in {0, 1}
            /\ Bit(w[k], 4) \in {0, 1} /\ Bit(w[k], 5) \in {0, 1} /\ Bit(w[k], 6) \in {0, 1}
            /\ Bit(w[k], 7) \in {0, 1} /\ Bit(w[k], 8) \in {0, 1}
        BY <2>1, BitsOfByte
      <3>3. Now(1) \in {0, 1} /\ Now(2) \in {0, 1} /\ Now(3) \in {0, 1} /\ Now(4) \in {0, 1}
        BY <3>1, <3>2
      <3>4. Now(5) \in {0, 1} /\ Now(6) \in {0, 1} /\ Now(7) \in {0, 1} /\ Now(8) \in {0, 1}
        BY <3>1, <3>2
      <3> QED BY <3>3, <3>4
    <2>3. f[k] = Joint(Now(1), Now(2), Now(3), Now(4), Now(5), Now(6), Now(7), Now(8))
      BY <1>1 DEF Flip, Joint
    <2> HIDE DEF Now, f
    <2>4. Joint(Now(1), Now(2), Now(3), Now(4), Now(5), Now(6), Now(7), Now(8)) \in Byte
      BY <2>2, ByteOfBits
    <2> QED BY <2>3, <2>4
  <1> HIDE DEF f
  <1>4. f = [i \in 1..n |-> f[i]]
    BY <1>2 DEF f, Flip
  <1>5. f \in Seq(ToSet(f)) /\ Len(f) = n
    <2> DEFINE T == ToSet(f)
    <2>1. \A i \in 1..n : f[i] \in T
      BY <1>2 DEF ToSet
    <2> HIDE DEF T, n
    <2>2. f \in [1..n -> T]
      BY <1>4, <2>1
    <2>3. f \in Seq(T) /\ Len(f) = n
      BY <1>1, <2>2
    <2> QED BY <2>3 DEF T
  <1> QED BY <1>1, <1>3, <1>5 DEF Sound, HeadersAreBytes, f

\* So does another sender.
LEMMA PatchIsSound ==
    ASSUME NEW w, Sound(w), NEW p \in Patches, NEW c
    PROVE  Sound(Append([Front(w) EXCEPT ![p.at] = p.value], c))
  <1> DEFINE S == ToSet(w) \cup {p.value, c}
             n == Len(w) - 1
             b == [Front(w) EXCEPT ![p.at] = p.value]
             a == Append(b, c)
  <1>1. w \in Seq(ToSet(w)) /\ Len(w) \in Nat /\ n \in Nat /\ n >= 17
    BY LenProperties DEF Sound
  <1>2. w # <<>>
    <2>1. Len(<<>>) = 0 /\ Len(w) # 0
      BY <1>1
    <2> QED BY <2>1
  <1>3. /\ Front(w) \in Seq(ToSet(w)) /\ Len(Front(w)) = n
        /\ \A i \in 1..n : Front(w)[i] = w[i]
    BY <1>1, <1>2, FrontAndLast
  <1>4. /\ Front(w) \in Seq(S) /\ DOMAIN Front(w) = 1..n
        /\ p.value \in S /\ c \in S /\ p.value \in Byte
    BY <1>3, SeqMonotonic, LenProperties, DamageAssumption
  <1>5. b \in Seq(S) /\ Len(b) = n /\ \A i \in 1..n : b[i] = IF i = p.at THEN p.value ELSE Front(w)[i]
    <2>1. CASE p.at \in 1..n
      BY <1>3, <1>4, <2>1, ExceptSeq
    <2>2. CASE p.at \notin 1..n
      <3>1. b = Front(w)
        BY <1>4, <2>2
      <3> QED BY <1>3, <1>4, <2>2, <3>1
    <2> QED BY <2>1, <2>2
  <1> HIDE DEF b, S
  <1>6. a \in Seq(S) /\ Len(a) = n + 1 /\ \A i \in 1..n : a[i] = b[i]
    BY <1>4, <1>5, AppendProperties
  <1> HIDE DEF a, n
  <1>7. HeadersAreBytes(a)
    <2> SUFFICES ASSUME NEW i \in 1..Len(a), i <= 16 PROVE a[i] \in Byte
      BY DEF HeadersAreBytes
    <2>1. i \in 1..n /\ i \in 1..Len(w)
      BY <1>1, <1>6 DEF n
    <2>2. w[i] \in Byte
      BY <2>1 DEF Sound, HeadersAreBytes
    <2> QED BY <1>3, <1>4, <1>5, <1>6, <2>1, <2>2
  <1>8. Len(a) >= 18 /\ a \in Seq(ToSet(a))
    BY <1>1, <1>6, SoundSeq
  <1> QED BY <1>7, <1>8 DEF Sound, a, b

-----------------------------------------------------------------------------
(* The steps.                                                               *)

LEMMA InvInit == Init => Inv
  BY DEF Init, Inv, SentIsSound, WireIsSound, GotIsUnpacked, Clean

LEMMA InvStep == Inv /\ [Next]_vars => Inv'
  <1> SUFFICES ASSUME Inv, [Next]_vars PROVE Inv'
    OBVIOUS
  <1> USE DEF Inv, WireIsSound, GotIsUnpacked, Clean
  <1>1. CASE Send
    <2>1. SentIsSound'
      BY <1>1 DEF Send, SentIsSound
    <2>2. Sound(Pack(sent))
      BY SentUnpacks
    <2> QED BY <1>1, <2>1, <2>2 DEF Send
  <1>2. CASE Deliver
    <2>1. SentIsSound'
      BY <1>2 DEF Deliver, SentIsSound
    <2> QED BY <1>2, <2>1 DEF Deliver
  <1>3. CASE Corrupt
    <2>1. SentIsSound'
      BY <1>3 DEF Corrupt, SentIsSound
    <2>2. Sound(wire') /\ flipped' # {}
      BY <1>3, FlipIsSound, DamageAssumption DEF Corrupt
    <2> QED BY <1>3, <2>1, <2>2 DEF Corrupt
  <1>4. CASE Patch
    <2>1. SentIsSound'
      BY <1>4 DEF Patch, SentIsSound
    <2>2. PICK p \in Patches :
            \E c : wire' = Append([Front(wire) EXCEPT ![p.at] = p.value], c)
      BY <1>4 DEF Patch
    <2>3. Sound(wire')
      BY <1>4, <2>2, PatchIsSound DEF Patch
    <2> QED BY <1>4, <2>1, <2>3 DEF Patch
  <1>5. CASE Receive
    <2>1. SentIsSound'
      BY <1>5 DEF Receive, SentIsSound
    <2> QED BY <1>5, <2>1 DEF Receive
  <1>6. CASE AutoAck
    <2>1. PICK m \in got : sent' = AckOf(m)
      BY <1>6 DEF AutoAck
    <2>2. Sound(wire) /\ m \in Unpack(wire) /\ stage' = "built"
      BY <1>6 DEF AutoAck
    <2>3. m \in MessageOf(ToSet(wire), ToSet(wire)) /\ Pack(m) = wire
      BY <2>2, MessageIsCanonical DEF Sound
    <2>4. Last(Pack(m)) = Checksum(PackBody(m)) /\ m.header \in Header
      BY <2>2, <2>3 DEF Unpack, MessageOf, Last
    <2>5. got = {m}
      BY <1>6, <2>2, UnpackIsUnique DEF AutoAck
    <2> QED BY <1>6, <2>1, <2>2, <2>4, <2>5 DEF AutoAck, SentIsSound
  <1>7. CASE Done \/ UNCHANGED vars
    BY <1>7 DEF Done, vars, SentIsSound
  <1> QED BY <1>1, <1>2, <1>3, <1>4, <1>5, <1>6, <1>7 DEF Next

-----------------------------------------------------------------------------
(* The theorems.                                                            *)

LEMMA InvImplies == Inv => FormatsInv
  <1> SUFFICES ASSUME Inv PROVE FormatsInv
    OBVIOUS
  <1> USE DEF Inv
  <1>1. RoundTrip
    BY SentUnpacks DEF RoundTrip, WireIsSound, GotIsUnpacked, Clean
  <1>2. AcceptedIsCanonical
    <2> SUFFICES ASSUME stage = "unpacked", NEW m \in got PROVE Pack(m) = wire
      BY DEF AcceptedIsCanonical
    <2>1. Sound(wire) /\ m \in Unpack(wire)
      BY DEF WireIsSound, GotIsUnpacked
    <2> QED BY <2>1, MessageIsCanonical DEF Sound
  <1>3. AckNamesRequest
    <2> SUFFICES ASSUME stage = "unpacked", request # {}, flipped = {}, ~patched,
                        NEW r \in request, sent = AckOf(r), Last(Pack(r)) = Checksum(PackBody(r))
                 PROVE  /\ sent \in got
                        /\ sent.source # Empty /\ UniqueId(sent.source.header) = UniqueId(r.header)
                        /\ sent.source.checksum = Last(Pack(r)) /\ sent.source.header = r.header
                        /\ sent.header.disposition = "Ack"
      BY DEF AckNamesRequest, SentIsSound
    <2>1. sent \in got
      BY <1>1 DEF RoundTrip
    <2>2. r.header \in Header
      BY DEF SentIsSound
    <2> QED BY <2>1, <2>2 DEF AckOf, Empty, Header
  <1>4. RelayUnwraps
    <2> SUFFICES ASSUME stage = "unpacked", flipped = {}, ~patched, NEW r \in Relays,
                        sent = RelayMessage(r.cs, r.ant)
                 PROVE  UnpackRelay(sent.payload) = {r.ant}
      BY <1>1 DEF RelayUnwraps, RoundTrip
    <2> DEFINE c == Checksum(PackBody(r.ant))
               S == Byte \cup {c}
               b == r.cs \o Pack(r.ant)
    <2>1. /\ r.cs \in [1..CsBytes -> Byte] /\ CsBytes \in Nat
          /\ r.ant \in MessageOf(Byte, Byte) /\ Len(r.ant.payload) = AntBytes
      BY RelaysAssumption, SizeAssumption DEF Message, MessageOf, Source
    <2>2. r.cs \in Seq(S) /\ Len(r.cs) = CsBytes
      BY <2>1
    <2>3. Byte \subseteq S /\ c \in S
      OBVIOUS
    <2> HIDE DEF S
    <2>4. Pack(r.ant) \in Seq(S) /\ Unpack(Pack(r.ant)) = {r.ant}
      BY <2>1, <2>3, MessageUnpacks
    <2>5. Rest(b, CsBytes) = Pack(r.ant) /\ ~(Len(b) < CsBytes)
      <3>1. Rest(b, Len(r.cs)) = Pack(r.ant) /\ Len(b) = Len(r.cs) + Len(Pack(r.ant))
        BY <2>2, <2>4, PartsOfConcat, ConcatProperties
      <3>2. Len(Pack(r.ant)) \in Nat
        BY <2>4, LenProperties
      <3> QED BY <2>1, <2>2, <3>1, <3>2
    <2> HIDE DEF b
    <2>6. UnpackRelay(b) = {m \in Unpack(Rest(b, CsBytes)) : Len(m.payload) = AntBytes}
      BY <2>5 DEF UnpackRelay
    <2>7. sent.payload = b
      BY DEF RelayMessage, PackRelay, b
    <2> QED BY <2>1, <2>4, <2>5, <2>6, <2>7
  <1> QED BY <1>1, <1>2, <1>3, <1>4 DEF FormatsInv

\* A message of any header, source and payload comes out of the line as it went in,
\* what is accepted is the one form of its message, an acknowledgement names its
\* request and a relay gives back the ant's message, whatever the checksums are.
THEOREM FormatsAreSound == Spec => []FormatsInv
  BY InvInit, InvStep, InvImplies, PTL DEF Spec

=============================================================================
