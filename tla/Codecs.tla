------------------------------- MODULE Codecs -------------------------------
(***************************************************************************)
(* A stream read through one of the codecs of codec/src.                   *)
(***************************************************************************)
EXTENDS Cobs, Delimiters

ASSUME InputsAssumption ==
    \A i \in Inputs :
        \/ i.codec = "cobs" /\ CobsInput(i)
        \/ i.codec = "delimiters" /\ DelimitedInput(i)

vars == <<framed, codec>>

Init ==
    /\ FramedInit
    /\ inclusive_seen_header = FALSE /\ inclusive_terminated = FALSE
    /\ search_from = 0

\* The codec is called, or works on.
Codec ==
    \/ input.codec = "cobs" /\ CobsStep /\ UNCHANGED codec
    \/ input.codec = "delimiters" /\ Loop

Done == phase = "done" /\ UNCHANGED vars

Next ==
    \/ (Read \/ Eof) /\ UNCHANGED codec
    \/ Codec
    \/ Done

Spec == Init /\ [][Next]_vars /\ WF_vars(Codec)

-----------------------------------------------------------------------------
\* COBS frames come out of the bytes they went into (codec/src/cobs.rs).
CobsFrames == FramedTypeOK /\ (input.codec = "cobs" => FramesDecode)

\* The items of the delimiter codec are those of a plain definition of splitting
\* and those that were encoded, and the place of its search stays within the
\* buffer, so that slicing there cannot panic (all_delimiters.rs:139).
DelimitedItems ==
    CodecTypeOK /\ (input.codec = "delimiters" => SplitsAtDelimiters /\ ItemsComeOut)

\* A call of the decoder comes to an end: it asks for more, or the stream is over.
DecodingEnds == phase \in {"decoding", "draining"} ~> phase \in {"reading", "done"}
=============================================================================
