------------------------------ MODULE MCCodecs ------------------------------
(***************************************************************************)
(* The instance of Codecs for TLC.                                         *)
(***************************************************************************)
EXTENDS Codecs, FiniteSets

Bytes(n, S) == UNION {[1..k -> S] : k \in 0..n}

\* With a largest code of 4 a block holds at most three bytes, so messages of
\* four bytes need a second block.
Messages  == Bytes(2, {0, 1, 4}) \cup Bytes(4, {0, 4})
Bad       == {s \in Bytes(2, {1, 2, 4}) \cup Bytes(3, {1, 4}) : ~CobsDecode(s).ok}
AllFrames ==
    {[good |-> TRUE, msg |-> m, bytes |-> Encode(m)] : m \in Messages} \cup
    {[good |-> FALSE, msg |-> b, bytes |-> Append(b, 0)] : b \in Bad}

\* Two frames one after the other.
CobsInputs ==
    {[codec |-> "cobs", frames |-> <<f, g>>, wire |-> f.bytes \o g.bytes,
      ends |-> <<Len(f.bytes), Len(f.bytes) + Len(g.bytes)>>] : f, g \in AllFrames}

\* Every short stream of two different bytes, with delimiters that overlap
\* themselves and that do not.
RawInputs ==
    [codec : {"delimiters"}, delimiter : {<<0>>, <<0, 0>>, <<0, 1>>, <<0, 0, 1>>, <<0, 1, 0>>},
     inclusive : BOOLEAN, items : {<<>>}, ends : {<<>>}, wire : Bytes(6, {0, 1})]

\* Two items as encoded, those among them that the decoder can tell apart.
ItemInputs ==
    LET Given(delim, incl) ==
            {IF incl THEN delim \o s ELSE s : s \in Bytes(2, {0, 1})}
        Input(delim, incl, s, t) ==
            LET a == EncodeItem(delim, incl, s)
                b == EncodeItem(delim, incl, t)
            IN  [codec |-> "delimiters", delimiter |-> delim, inclusive |-> incl, items |-> <<s, t>>,
                 ends |-> <<Len(a), Len(a) + Len(b)>>, wire |-> a \o b]
    IN  UNION {{i \in {Input(delim, incl, s, t) : s, t \in Given(delim, incl)} : Encoded(i)} :
                  delim \in {<<0>>, <<0, 1>>, <<0, 0, 1>>, <<0, 0>>}, incl \in BOOLEAN}

AllInputs == CobsInputs \cup RawInputs \cup ItemInputs
=============================================================================
