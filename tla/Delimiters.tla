----------------------------- MODULE Delimiters -----------------------------
(***************************************************************************)
(* The delimiter codec (codec/src/all_delimiters.rs).  Each turn of        *)
(* decode's loop is a step.  AhoCorasick, built from all prefixes of the   *)
(* delimiter, is external: it finds the leftmost place where one of them   *)
(* occurs, and the longest of them there.                                  *)
(*                                                                         *)
(* An input has the delimiter, the mode and, unless its wire is any bytes, *)
(* the items encoded in it.                                                *)
(***************************************************************************)
EXTENDS FramedRead

VARIABLES
    inclusive_seen_header,
    inclusive_terminated,
    search_from

codec == <<inclusive_seen_header, inclusive_terminated, search_from>>

delimiter == input.delimiter
inclusive == input.inclusive

\* encode, of an item that in inclusive mode starts with the delimiter.
EncodeItem(delim, incl, item) == IF incl THEN item ELSE item \o delim

-----------------------------------------------------------------------------
\* The match in a buffer from search_from on: bytes before it and its length.
Starts == {i \in 1..Len(buffer) - search_from : buffer[search_from + i] = delimiter[1]}
MatchStart == (CHOOSE i \in Starts : \A j \in Starts : i <= j) - 1
MatchLen ==
    LET at == search_from + MatchStart
        fits == {n \in 1..Len(delimiter) :
                    at + n <= Len(buffer) /\ SubSeq(buffer, at + 1, at + n) = SubSeq(delimiter, 1, n)}
    IN  CHOOSE n \in fits : \A m \in fits : m <= n
MatchEnd == search_from + MatchStart + MatchLen

\* make_decoded.
Decoded(b) == IF inclusive THEN delimiter \o b ELSE b

\* An item is made of the first n bytes in the buffer, from here to there on the wire.
Give(n) ==
    out' = Append(out, [from |-> Taken, to |-> Taken + n, item |-> Decoded(SubSeq(buffer, 1, n))])

CodecTypeOK ==
    /\ inclusive_seen_header \in BOOLEAN /\ inclusive_terminated \in BOOLEAN
    /\ search_from \in 0..Len(buffer)

\* In decode; decode_eof in inclusive mode looks at an empty buffer first.
Decoding ==
    \/ phase = "decoding"
    \/ phase = "draining" /\ (inclusive => buffer # <<>>)

\* A whole delimiter: it ends an item, or is the first in inclusive mode.
Complete ==
    /\ Decoding /\ Starts # {} /\ MatchLen = Len(delimiter)
    /\ buffer' = Rest(buffer, MatchEnd) /\ search_from' = 0
    /\ IF inclusive /\ ~inclusive_seen_header
       THEN inclusive_seen_header' = TRUE /\ UNCHANGED out
       ELSE /\ Give(MatchEnd - Len(delimiter))
            /\ UNCHANGED inclusive_seen_header
    /\ UNCHANGED <<input, pos, phase, inclusive_terminated>>

\* Mutant of Partial: the whole of the partial match is passed over.
PartialSkipsAll ==
    /\ Decoding /\ Starts # {} /\ MatchLen < Len(delimiter) /\ MatchEnd < Len(buffer)
    /\ search_from' = MatchEnd
    /\ UNCHANGED <<input, pos, buffer, phase, inclusive_seen_header, inclusive_terminated, out>>

\* Mutant of Partial: the search is tried again at the same place.
PartialStays ==
    /\ Decoding /\ Starts # {} /\ MatchLen < Len(delimiter) /\ MatchEnd < Len(buffer)
    /\ search_from' = search_from + MatchStart
    /\ UNCHANGED <<input, pos, buffer, phase, inclusive_seen_header, inclusive_terminated, out>>

\* Part of one, with other bytes after it: the search goes on one byte later.
Partial ==
    /\ Decoding /\ Starts # {} /\ MatchLen < Len(delimiter) /\ MatchEnd < Len(buffer)
    /\ search_from' = search_from + MatchStart + 1
    /\ UNCHANGED <<input, pos, buffer, phase, inclusive_seen_header, inclusive_terminated, out>>

\* decode returns None, to FramedRead or to decode_eof.
None(from) ==
    IF phase = "draining" /\ inclusive
    THEN /\ inclusive_terminated' = TRUE /\ search_from' = 0
         /\ Give(Len(buffer)) /\ buffer' = <<>>
         /\ UNCHANGED <<input, pos, phase, inclusive_seen_header>>
    ELSE /\ search_from' = from
         /\ AskForMore
         /\ UNCHANGED <<input, pos, buffer, inclusive_seen_header, inclusive_terminated, out>>

\* Part of a delimiter at the end of the buffer.
PartialAtEnd ==
    /\ Decoding /\ Starts # {} /\ MatchLen < Len(delimiter) /\ MatchEnd = Len(buffer)
    /\ None(search_from + MatchStart)

NoMatch == Decoding /\ Starts = {} /\ None(Len(buffer))

\* decode_eof with an empty buffer: an item of only the delimiter, once.
EmptyAtEof ==
    /\ phase = "draining" /\ inclusive /\ buffer = <<>>
    /\ IF inclusive_seen_header /\ ~inclusive_terminated
       THEN inclusive_terminated' = TRUE /\ Give(0) /\ UNCHANGED phase
       ELSE phase' = "done" /\ UNCHANGED <<inclusive_terminated, out>>
    /\ UNCHANGED <<input, pos, buffer, inclusive_seen_header, search_from>>

Loop == Complete \/ Partial \/ PartialAtEnd \/ NoMatch \/ EmptyAtEof

\* What the encoder wrote, of items that do not have the delimiter in them, but for
\* the one they start with in inclusive mode; no prefix of the delimiter is a suffix
\* of it.
Encoded(i) ==
    LET d == i.delimiter
        parts == [k \in DOMAIN i.items |-> EncodeItem(d, i.inclusive, i.items[k])]
        InIt(s, at) == at + Len(d) <= Len(s) /\ SubSeq(s, at + 1, at + Len(d)) = d
    IN  /\ LaidOut(i.wire, parts, i.ends)
        /\ \A k \in DOMAIN i.items :
             /\ i.inclusive => InIt(i.items[k], 0)
             /\ \A at \in (IF i.inclusive THEN Len(d) ELSE 0)..Len(i.items[k]) : ~InIt(i.items[k], at)
        /\ \A n \in 1..Len(d) - 1 : \E m \in 1..Len(d) - n : d[n + m] # d[m]

\* The delimiter is not empty; the bytes may be any.
DelimitedInput(i) ==
    /\ i.delimiter \in Seq(Nat) /\ i.delimiter # <<>> /\ i.inclusive \in BOOLEAN
    /\ i.wire \in Seq(Nat) /\ i.items \in Seq(Seq(Nat))
    /\ i.items # <<>> => Encoded(i)

-----------------------------------------------------------------------------
\* A delimiter has arrived after these bytes.
Occurs(at) ==
    at + Len(delimiter) <= pos /\ SubSeq(input.wire, at + 1, at + Len(delimiter)) = delimiter

FirstAfter(from, at) == from <= at /\ Occurs(at) /\ \A b \in from..at - 1 : ~Occurs(b)
NoneAfter(from) == \A b \in from..pos : ~Occurs(b)

\* The k-th item is what is between two delimiters, or, the last in inclusive mode,
\* between one and the end of the stream.
Cut(k) ==
    LET from == out[k].from  to == out[k].to IN
    /\ out[k].item = Decoded(SubSeq(input.wire, from + 1, to))
    /\ IF inclusive /\ phase = "done" /\ k = Len(out)
       THEN to = pos /\ NoneAfter(from)
       ELSE FirstAfter(from, to)

\* Where the item after the k-th begins; the first begins at the beginning, in inclusive
\* mode behind the first delimiter.
After(k, first) == IF k = 0 THEN first ELSE out[k].to + Len(delimiter)
First(first) == IF inclusive THEN FirstAfter(0, first - Len(delimiter)) ELSE first = 0

\* Between reads, and at the end, whatever the pieces the bytes arrived in and the
\* parts of delimiters among them: in exclusive mode the items are the bytes
\* between delimiters, and an unfinished one is never given out; in inclusive mode
\* what comes before the first delimiter is discarded, and every delimiter starts
\* an item that the next one or the end of the stream ends.
SplitsAtDelimiters ==
    phase \in {"reading", "done"} =>
        \/ inclusive /\ NoneAfter(0) /\ (phase = "reading" => out = <<>>)
        \/ \E first \in 0..pos :
             /\ First(first)
             /\ \A k \in DOMAIN out : out[k].from = After(k - 1, first) /\ Cut(k)
             /\ NoneAfter(After(Len(out), first))
             /\ inclusive /\ phase = "done" => out # <<>>

\* What the encoder wrote is what the decoder gives, the stream read to its end
\* (the properties at all_delimiters.rs:292 and :313; see Encoded).
ItemsComeOut ==
    phase = "done" /\ pos = Len(input.wire) /\ input.items # <<>> =>
        [k \in DOMAIN out |-> out[k].item] = input.items
=============================================================================
