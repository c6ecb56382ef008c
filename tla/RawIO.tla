------------------------------- MODULE RawIO -------------------------------
(***************************************************************************)
(* The serial port (runtime/src/serial/raw.rs): the RawIO actor, its two   *)
(* items (one writes the packets of a channel, one reads frames), the      *)
(* supervisor that restarts it, and a device that may go away.             *)
(*                                                                         *)
(* Packets to the peer and frames from it are numbered in the order of     *)
(* their publication.  The broker has one queue and one thread, so it is   *)
(* left out: a packet is published when the broker hands it to whoever is  *)
(* subscribed at that moment.                                              *)
(***************************************************************************)
EXTENDS Naturals, Sequences, SequencesExt

CONSTANTS
    MaxUp,       \* bound: packets published for the port
    MaxDown,     \* bound: frames from the peer
    MaxHangups,  \* bound: failures of the device
    Kinds,       \* what a frame of the peer may hold besides "garbled"
    ReadErrors   \* may a read of a failed device give an error, not only EOF?

ASSUME BoundsAssumption == MaxUp \in Nat /\ MaxDown \in Nat /\ MaxHangups \in Nat
ASSUME KindsAssumption == "garbled" \notin Kinds /\ ReadErrors \in BOOLEAN

Frames == [n : Nat, kind : Kinds \cup {"garbled"}]

VARIABLES
    alive,       \* the task of the supervised actor; a panic ends it
    wait,        \* futures given to ctx.wait: "open" (make_io) and "sleep"
    subscribed,  \* subscribe_once has run
    tx,          \* RawIO.tx is Some
    writer,      \* the writing item, which owns the channel's receiver
    reader,      \* the reading item: "none", "reading", "ended"
    port,        \* the opened device: "closed", "up", "gone"
    chan,        \* packets in the channel
    mbox,        \* packets in the actor's mailbox
    line,        \* frames from the peer that were not read yet
    torn,        \* the last bytes the peer got are part of a frame
    published,   \* history: packets published
    heard,       \* history: packets the peer received whole
    lost,        \* history: packets nobody will write any more
    sent,        \* history: frames the peer sent
    received,    \* history: DownPackets published
    hangups      \* history: failures of the device

conn == <<wait, tx, writer, reader, port>>
up   == <<chan, mbox, torn, published, heard, lost>>
down == <<line, sent, received>>
rawVars == <<alive, subscribed, conn, up, down, hangups>>

TypeOK ==
    /\ alive \in BOOLEAN /\ subscribed \in BOOLEAN /\ tx \in BOOLEAN
    /\ writer \in BOOLEAN /\ torn \in BOOLEAN
    /\ wait \subseteq {"open", "sleep"}
    /\ reader \in {"none", "reading", "ended"}
    /\ port \in {"closed", "up", "gone"}
    /\ chan \in Seq(Nat) /\ mbox \in Seq(Nat) /\ heard \in Seq(Nat)
    /\ lost \subseteq 1..published
    /\ line \in Seq(Frames) /\ received \in Seq(Frames)
    /\ published \in Nat /\ sent \in Nat /\ hangups \in Nat

RawInit ==
    /\ alive = TRUE /\ subscribed = FALSE
    /\ wait = {"open"} /\ tx = FALSE /\ writer = FALSE /\ reader = "none"
    /\ port = "closed"
    /\ chan = <<>> /\ mbox = <<>> /\ heard = <<>> /\ lost = {} /\ torn = FALSE
    /\ line = <<>> /\ received = <<>>
    /\ published = 0 /\ sent = 0 /\ hangups = 0

\* The context handles messages and polls its items only without wait futures.
Polled == alive /\ wait = {}

-----------------------------------------------------------------------------
(* Connecting and reconnecting.                                             *)

\* Mutant of Restart: started is not called again.
RestartWithoutStarted ==
    /\ tx' = FALSE /\ writer' = FALSE /\ reader' = "none"
    /\ wait' = {"sleep"} /\ port' = "closed"
    /\ chan' = <<>> /\ lost' = lost \cup ToSet(chan) /\ line' = <<>>
    /\ UNCHANGED <<alive, subscribed, mbox, heard, published, sent, received, hangups>>

\* Mutant of Restart: a new actor with a new mailbox takes its place.
RestartAfresh ==
    /\ tx' = FALSE /\ writer' = FALSE /\ reader' = "none"
    /\ wait' = {"open", "sleep"} /\ port' = "closed"
    /\ chan' = <<>> /\ mbox' = <<>> /\ lost' = lost \cup ToSet(chan) /\ line' = <<>>
    /\ UNCHANGED <<alive, subscribed, heard, published, sent, received, hangups>>

\* ctx.stop: the supervisor drops the items and what they own, calls
\* restarting and then started, and leaves actor and mailbox as they are.
Restart ==
    /\ tx' = FALSE /\ writer' = FALSE /\ reader' = "none"
    /\ wait' = {"open", "sleep"} /\ port' = "closed"
    /\ chan' = <<>> /\ lost' = lost \cup ToSet(chan) /\ line' = <<>>
    /\ UNCHANGED <<alive, subscribed, mbox, heard, published, sent, received, hangups>>

\* The port opens: a new channel, its writer and a reader.  Which of two wait
\* futures is polled first is left open.
OpenOk ==
    /\ alive /\ "open" \in wait
    /\ wait' = wait \ {"open"}
    /\ tx' = TRUE /\ writer' = TRUE /\ reader' = "reading" /\ port' = "up"
    /\ subscribed' = TRUE
    /\ UNCHANGED <<alive, up, down, hangups>>

OpenFails ==
    /\ alive /\ "open" \in wait
    /\ Restart /\ UNCHANGED torn

\* The second of restarting is over.
Wake ==
    /\ alive /\ "sleep" \in wait
    /\ wait' = wait \ {"sleep"}
    /\ UNCHANGED <<alive, subscribed, tx, writer, reader, port, up, down, hangups>>

-----------------------------------------------------------------------------
(* Packets for the peer.                                                    *)

\* Serial publishes a packet; without a subscription nobody gets it.
Publish ==
    /\ published < MaxUp
    /\ published' = published + 1
    /\ IF alive /\ subscribed
       THEN mbox' = Append(mbox, published') /\ UNCHANGED lost
       ELSE lost' = lost \cup {published'} /\ UNCHANGED mbox
    /\ UNCHANGED <<alive, subscribed, conn, chan, torn, heard, down, hangups>>

\* The handler drops the packet when there is no channel or nobody reads it.
HandleUpPacket ==
    /\ Polled /\ mbox # <<>>
    /\ mbox' = Tail(mbox)
    /\ IF tx /\ writer
       THEN chan' = Append(chan, Head(mbox)) /\ UNCHANGED lost
       ELSE lost' = lost \cup {Head(mbox)} /\ UNCHANGED chan
    /\ UNCHANGED <<alive, subscribed, conn, torn, published, heard, down, hangups>>

\* A frame is written.  After part of another one the peer reads both as one
\* and cannot decode it.
Write ==
    /\ Polled /\ writer /\ port = "up" /\ chan # <<>>
    /\ chan' = Tail(chan)
    /\ heard' = IF torn THEN heard ELSE Append(heard, Head(chan))
    /\ lost' = IF torn THEN lost \cup {Head(chan)} ELSE lost
    /\ torn' = FALSE
    /\ UNCHANGED <<alive, subscribed, conn, mbox, published, down, hangups>>

\* Mutant of WriteFails: the error is logged like any other.
WriteErrorLogged ==
    /\ Polled /\ writer /\ port = "gone"
    /\ writer' = FALSE /\ chan' = <<>> /\ lost' = lost \cup ToSet(chan)
    /\ UNCHANGED <<alive, subscribed, wait, tx, reader, port, mbox, torn,
                   published, heard, down, hangups>>

\* Mutant of WriteFails: the error is swallowed.
WriteErrorSwallowed == Polled /\ writer /\ port = "gone" /\ UNCHANGED rawVars

\* Mutant of WriteFails: packets of the failed connection are tried again.
WriteRetries ==
    /\ Polled /\ writer /\ port = "gone"
    /\ tx' = FALSE /\ writer' = FALSE /\ reader' = "none"
    /\ wait' = {"open", "sleep"} /\ port' = "closed"
    /\ chan' = <<>> /\ mbox' = mbox \o chan /\ line' = <<>>
    /\ torn' \in {torn, chan # <<>>}
    /\ UNCHANGED <<alive, subscribed, published, heard, lost, sent, received, hangups>>

\* Writing or flushing fails, perhaps within a frame: send_all ends, its
\* receiver goes with what it holds, and the continuation stops the context.
WriteFails ==
    /\ Polled /\ writer /\ port = "gone"
    /\ torn' \in {torn, torn \/ chan # <<>>}
    /\ Restart

-----------------------------------------------------------------------------
(* Frames from the peer.                                                    *)

\* A frame is published, or logged when COBS rejects it.
ReadFrame ==
    /\ Polled /\ reader = "reading" /\ line # <<>>
    /\ line' = Tail(line)
    /\ received' = IF Head(line).kind = "garbled" THEN received
                   ELSE Append(received, Head(line))
    /\ UNCHANGED <<alive, subscribed, conn, up, sent, hangups>>

\* At the end of the stream the item is finished; nobody stops the context.
ReadEof ==
    /\ Polled /\ reader = "reading" /\ line = <<>> /\ port = "gone"
    /\ reader' = "ended"
    /\ UNCHANGED <<alive, subscribed, wait, tx, writer, port, up, down, hangups>>

\* An I/O error reaches unwrap before the arm that would stop the context: the
\* task panics, and the actor is gone with its mailbox and its items.
ReadFails ==
    /\ ReadErrors
    /\ Polled /\ reader = "reading" /\ port = "gone"
    /\ alive' = FALSE
    /\ tx' = FALSE /\ writer' = FALSE /\ reader' = "none" /\ port' = "closed"
    /\ chan' = <<>> /\ mbox' = <<>> /\ line' = <<>>
    /\ lost' = lost \cup ToSet(chan) \cup ToSet(mbox)
    /\ UNCHANGED <<wait, subscribed, torn, published, heard, sent, received, hangups>>

-----------------------------------------------------------------------------
(* The device and the peer.                                                 *)

PeerSends(k) ==
    /\ port = "up" /\ sent < MaxDown
    /\ sent' = sent + 1
    /\ line' = Append(line, [n |-> sent', kind |-> k])
    /\ UNCHANGED <<alive, subscribed, conn, up, received, hangups>>

Hangup ==
    /\ port = "up" /\ hangups < MaxHangups
    /\ port' = "gone" /\ hangups' = hangups + 1
    /\ UNCHANGED <<alive, subscribed, wait, tx, writer, reader, up, down>>

\* What the actor and the device do by themselves.
RawStep ==
    \/ OpenOk \/ OpenFails \/ Wake
    \/ HandleUpPacket \/ Write \/ WriteFails
    \/ ReadFrame \/ ReadEof \/ ReadFails
    \/ \E k \in Kinds \cup {"garbled"} : PeerSends(k)
    \/ Hangup

\* Opening succeeds in the end; the context is polled while there is work.
RawFairness ==
    /\ WF_rawVars(OpenOk) /\ WF_rawVars(Wake)
    /\ WF_rawVars(HandleUpPacket)
    /\ WF_rawVars(Write) /\ WF_rawVars(WriteFails)
    /\ WF_rawVars(ReadFrame) /\ WF_rawVars(ReadEof)

-----------------------------------------------------------------------------
(* What the port promises.                                                  *)

\* The port is a lossy queue from Serial to the peer, through any number of
\* reconnects: packets come out in the order they were published, none twice, and
\* what is dropped is what a failed connection held, the oldest packets.
Fifo == INSTANCE LossyFifo WITH offered <- published, queue <- chan \o mbox, out <- heard
ImplementsFifo == Fifo!Spec

\* No packet is forgotten and none is sent that was given up: each is on its
\* way, with the peer, or lost.
Accounted ==
    LET known == ToSet(heard) \cup ToSet(chan) \cup ToSet(mbox) IN
    /\ known \cup lost = 1..published
    /\ known \cap lost = {}

\* Whenever a packet can be handled there is a channel and somebody at its
\* other end, and a reader unless the device failed: the branches of the
\* handler that drop a packet are never taken.
RunningIsConnected ==
    Polled => tx /\ writer /\ (reader = "ended" => port = "gone")

\* While the port works, packets are lost only before the first connection
\* and behind a frame that was cut off.
LossNeedsFailure ==
    [][lost' # lost => ~alive \/ ~subscribed \/ torn \/ port = "gone"]_rawVars
=============================================================================
