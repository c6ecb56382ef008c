----------------------------- MODULE FramedRead -----------------------------
(***************************************************************************)
(* The reader both codecs run in (external, tokio-util): it gathers bytes  *)
(* in pieces of any size and calls decode until it asks for more; at the   *)
(* end of the stream it calls decode_eof until that asks for more.         *)
(***************************************************************************)
EXTENDS Naturals, Sequences, SequencesExt

CONSTANT Inputs    \* what is on the wire, with what the encoder was given

VARIABLES
    input,         \* what arrives in this behaviour
    pos,           \* bytes of it that have arrived
    buffer,
    phase,         \* "reading", "decoding", "draining" (after the end) or "done"
    out            \* history: what the codec gave

framed == <<input, pos, buffer, phase, out>>

Rest(s, n) == SubSeq(s, n + 1, Len(s))

\* Bytes that the codec has taken from the buffer.
Taken == pos - Len(buffer)

\* Where the k-th part of a wire begins (after so many bytes), if they end at ends.
Start(ends, k) == IF k = 1 THEN 0 ELSE ends[k - 1]

\* The wire is these parts, one after the other.
LaidOut(wire, parts, ends) ==
    /\ wire \in Seq(Nat) /\ parts \in Seq(Seq(Nat))
    /\ ends \in Seq(Nat) /\ Len(ends) = Len(parts)
    /\ \A k \in DOMAIN parts :
         /\ ends[k] = Start(ends, k) + Len(parts[k]) /\ ends[k] <= Len(wire)
         /\ SubSeq(wire, Start(ends, k) + 1, ends[k]) = parts[k]
    /\ Len(wire) = IF parts = <<>> THEN 0 ELSE ends[Len(ends)]

FramedTypeOK ==
    /\ pos \in 0..Len(input.wire)
    /\ buffer \in Seq(Nat)
    /\ phase \in {"reading", "decoding", "draining", "done"}

FramedInit ==
    /\ input \in Inputs
    /\ pos = 0 /\ buffer = <<>> /\ phase = "reading" /\ out = <<>>

\* Some bytes arrive.
Read ==
    /\ phase = "reading" /\ phase' = "decoding"
    /\ \E n \in (pos + 1)..Len(input.wire) :
         pos' = n /\ buffer' = buffer \o SubSeq(input.wire, pos + 1, n)
    /\ UNCHANGED <<input, out>>

\* The stream ends, perhaps inside a frame.
Eof ==
    /\ phase = "reading" /\ phase' = "draining"
    /\ UNCHANGED <<input, pos, buffer, out>>

\* The codec asks for more.
AskForMore == phase' = IF phase = "draining" THEN "done" ELSE "reading"
=============================================================================
