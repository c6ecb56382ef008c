-------------------------------- MODULE Cobs --------------------------------
(***************************************************************************)
(* The COBS framing of the serial link (codec/src/cobs.rs), as RawIO reads *)
(* it.  The cobs crate is external: it decodes in place, and how much of   *)
(* what it has decoded a failed attempt leaves in the buffer is left open. *)
(*                                                                         *)
(* An input has its frames, each a message encoded or bytes that no        *)
(* message encodes to, the wire they make, and where in it each ends.      *)
(***************************************************************************)
EXTENDS FramedRead

CONSTANT MaxCode   \* the largest byte; 255 in the code

ASSUME CodeAssumption == MaxCode \in Nat /\ MaxCode > 1

Byte == 0..MaxCode

frames == input.frames
ends   == input.ends

-----------------------------------------------------------------------------
(* The crate.                                                               *)

FirstZero(s) == SelectInSeq(s, LAMBDA b : b = 0)

\* A block ends where it is full, at a zero, or with the message.
BlockLen(msg, i) ==
    Min({n \in 0..MaxCode - 1 : n = MaxCode - 1 \/ i + n > Len(msg) \/ msg[i + n] = 0})

\* What msg encodes to, from each place on: blocks of bytes other than zero, each
\* after its length plus one; the zero after a block that is not full is left out.
EncodeFrom(msg) ==
    LET From[i \in 1..Len(msg) + 1] ==
            LET n == BlockLen(msg, i) IN
            IF n < MaxCode - 1 /\ i + n > Len(msg)
            THEN <<n + 1>> \o SubSeq(msg, i, Len(msg))
            ELSE <<n + 1>> \o SubSeq(msg, i, (i + n) - 1)
                     \o From[IF n = MaxCode - 1 THEN i + n ELSE i + n + 1]
    IN  From

CobsEncode(msg) == EncodeFrom(msg)[1]

Prefixed(data, report) == [report EXCEPT !.msg = data \o @]

\* What the bytes decode to, from each place where a block begins on.  ok: every
\* block ends within the frame; msg: what there is up to the end, or up to where a
\* block should go on.
DecodeFrom(bytes) ==
    LET From[i \in 1..Len(bytes) + 1] ==
            IF i > Len(bytes) THEN [ok |-> TRUE, msg |-> <<>>]
            ELSE IF i + bytes[i] > Len(bytes) + 1
            THEN [ok |-> FALSE, msg |-> Rest(bytes, i)]
            ELSE LET next == i + bytes[i]
                     zero == IF bytes[i] = MaxCode \/ next > Len(bytes) THEN <<>> ELSE <<0>>
                 IN  Prefixed(SubSeq(bytes, i + 1, next - 1) \o zero, From[next])
    IN  From

CobsDecode(bytes) == DecodeFrom(bytes)[1]

-----------------------------------------------------------------------------
(* CobsCodec.                                                               *)

\* encode.
Encode(msg) == Append(CobsEncode(msg), 0)

\* A bad frame in the buffer, its front overwritten with some of what was decoded.
AfterError(src) ==
    LET done == CobsDecode(SubSeq(src, 1, FirstZero(src) - 1)).msg
    IN  {[i \in 1..Len(src) |-> IF i <= n THEN done[i] ELSE src[i]] :
            n \in {n \in 0..Len(done) : n < FirstZero(src)}}

\* Mutant of Discard: all that is buffered goes.
DiscardAll(src) == {<<>>}

\* After an error: everything up to the first zero is discarded.
Discard(src) == {Rest(s, FirstZero(s)) : s \in AfterError(src)}

\* src_used and the zero after it.
Consumed(src) == FirstZero(src)

\* A result, with the place on the wire of the first byte in the buffer.
Emit(ok, msg) == out' = Append(out, [at |-> Taken, ok |-> ok, msg |-> msg])

\* decode, when there is a zero.
DecodeFrame(src) ==
    LET report == CobsDecode(SubSeq(src, 1, FirstZero(src) - 1)) IN
    IF report.ok
    THEN buffer' = Rest(src, Consumed(src)) /\ Emit(TRUE, report.msg)
    ELSE buffer' \in Discard(src) /\ Emit(FALSE, <<>>)

\* decode_eof ends an unfinished frame.
Completed(src) == IF src # <<>> /\ Last(src) # 0 THEN Append(src, 0) ELSE src

Decode ==
    /\ phase = "decoding"
    /\ IF FirstZero(buffer) = 0
       THEN AskForMore /\ UNCHANGED <<buffer, out>>
       ELSE DecodeFrame(buffer) /\ UNCHANGED phase
    /\ UNCHANGED <<input, pos>>

DecodeEof ==
    /\ phase = "draining"
    /\ IF FirstZero(Completed(buffer)) = 0
       THEN AskForMore /\ UNCHANGED <<buffer, out>>
       ELSE DecodeFrame(Completed(buffer)) /\ UNCHANGED phase
    /\ UNCHANGED <<input, pos>>

CobsStep == Decode \/ DecodeEof

\* What the encoder wrote, with frames among it that no encoder writes.
CobsInput(i) ==
    /\ LaidOut(i.wire, [k \in DOMAIN i.frames |-> i.frames[k].bytes], i.ends)
    /\ \A k \in DOMAIN i.frames :
         LET f == i.frames[k] IN
         IF f.good
         THEN f.msg \in Seq(Byte) /\ f.bytes = Encode(f.msg)
         ELSE f.msg \in Seq(Byte \ {0}) /\ f.bytes = Append(f.msg, 0) /\ ~CobsDecode(f.msg).ok

-----------------------------------------------------------------------------
\* The results from a place within the i-th frame.
Results(i) == {k \in DOMAIN out : Start(ends, i) <= out[k].at /\ out[k].at < ends[i]}

\* A good frame has given its message and nothing else, a bad one is reported before
\* anything else is made of it.
Reported(i) ==
    IF frames[i].good
    THEN \E k \in DOMAIN out : Results(i) = {k} /\ out[k].ok /\ out[k].msg = frames[i].msg
    ELSE \E k \in Results(i) : ~out[k].ok /\ \A j \in Results(i) : k <= j

\* Whatever the pieces the bytes arrive in and whatever bad frames come before
\* or after: what is made of a frame is right once its end has been passed, results
\* come in the order of the frames, and when the codec asks for more only an
\* unfinished frame is held back, at the end of the stream not even that.
FramesDecode ==
    /\ \A i \in DOMAIN frames : ends[i] <= Taken => Reported(i)
    /\ \A j, k \in DOMAIN out : j < k => out[j].at <= out[k].at
    /\ phase = "reading" => \A i \in DOMAIN frames : ends[i] <= pos => ends[i] <= Taken
    /\ phase = "done" => buffer = <<>>
=============================================================================
