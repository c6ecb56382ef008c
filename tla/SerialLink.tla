----------------------------- MODULE SerialLink -----------------------------
(***************************************************************************)
(* The serial side of the frontend: RawIO together with Serial             *)
(* (runtime/src/serial/mod.rs), which packs and unpacks, and AntDecode     *)
(* (ant_decode.rs), which takes ant messages out of relay packets.         *)
(*                                                                         *)
(* A mailbox is what its owner has not handled yet of the sequence the     *)
(* broker delivers; Serial's two subscriptions do not touch each other.    *)
(***************************************************************************)
EXTENDS RawIO

\* What an undamaged frame may hold: something that is no message (length,
\* magic value or checksum are wrong), a message of the peer's own, an
\* acknowledgement (it names the header it answers), or an acknowledgement of
\* type CSRelay, with or without that header, whose payload is or is not a
\* packet of the ant.
PacketKinds == {"junk", "plain", "ack", "relay", "emptyRelay", "badRelay"}

HasSource(k) == k \in {"ack", "relay", "badRelay"}

VARIABLES
    requested,    \* UpMessages the Commander published
    packed,       \* how many of them Serial has handled
    unpacked,     \* how many of the DownPackets Serial has handled
    decoded,      \* how many of the DownMessages AntDecode has handled
    downMessages, ackMessages, antMessages   \* history: what was published

layers == <<requested, packed, unpacked, decoded, downMessages, ackMessages, antMessages>>
vars   == <<rawVars, layers>>

LayersTypeOK ==
    /\ TypeOK
    /\ requested \in Nat /\ packed \in 0..requested
    /\ unpacked \in 0..Len(received)
    /\ decoded \in 0..Len(downMessages)
    /\ \A s \in {downMessages, ackMessages, antMessages} : s \in Seq(Frames)

Init ==
    /\ RawInit
    /\ requested = 0 /\ packed = 0 /\ unpacked = 0 /\ decoded = 0
    /\ downMessages = <<>> /\ ackMessages = <<>> /\ antMessages = <<>>

\* The Commander publishes an UpMessage.
Request ==
    /\ requested < MaxUp
    /\ requested' = requested + 1
    /\ UNCHANGED <<rawVars, packed, unpacked, decoded, downMessages, ackMessages, antMessages>>

\* Serial packs it and publishes an UpPacket; one it cannot pack is dropped.
HandleUpMessage ==
    /\ packed < requested
    /\ packed' = packed + 1
    /\ Publish \/ UNCHANGED rawVars
    /\ UNCHANGED <<requested, unpacked, decoded, downMessages, ackMessages, antMessages>>

\* Mutant of TryIssueAck: everything is taken for an acknowledgement.
IssueAlways(f) == ackMessages' = Append(ackMessages, f)

TryIssueAck(f) ==
    ackMessages' = IF HasSource(f.kind) THEN Append(ackMessages, f) ELSE ackMessages

\* Serial unpacks a packet and publishes the message, then, if it answers
\* something, the acknowledgement.
HandleDownPacket ==
    LET f == received[unpacked + 1] IN
    /\ unpacked < Len(received)
    /\ unpacked' = unpacked + 1
    /\ IF f.kind = "junk"
       THEN UNCHANGED <<downMessages, ackMessages>>
       ELSE downMessages' = Append(downMessages, f) /\ TryIssueAck(f)
    /\ UNCHANGED <<rawVars, requested, packed, decoded, antMessages>>

\* AntDecode publishes the ant's packet inside a relayed acknowledgement.
HandleDownMessage ==
    LET f == downMessages[decoded + 1] IN
    /\ decoded < Len(downMessages)
    /\ decoded' = decoded + 1
    /\ antMessages' = IF f.kind \in {"relay", "emptyRelay"}
                      THEN Append(antMessages, f) ELSE antMessages
    /\ UNCHANGED <<rawVars, requested, packed, unpacked, downMessages, ackMessages>>

\* The instance is exhausted: everything requested and received is done with.
Idle ==
    /\ requested = MaxUp /\ packed = requested /\ mbox \o chan = <<>>
    /\ unpacked = Len(received) /\ decoded = Len(downMessages)
    /\ UNCHANGED vars

Next ==
    \/ RawStep /\ UNCHANGED layers
    \/ Request \/ HandleUpMessage \/ HandleDownPacket \/ HandleDownMessage
    \/ Idle

Spec == Init /\ [][Next]_vars

Fairness ==
    /\ RawFairness
    /\ WF_vars(HandleUpMessage) /\ WF_vars(HandleDownPacket) /\ WF_vars(HandleDownMessage)

FairSpec == Spec /\ Fairness

-----------------------------------------------------------------------------
(* What the serial side promises.                                           *)

\* What holds whenever the actor waits or works: nothing is forgotten or sent
\* twice, and what handles a packet is connected.
LinkInv == LayersTypeOK /\ Accounted /\ RunningIsConnected

\* Frames in the order the peer sent them, each once.
InOrder(s) == \A i, j \in DOMAIN s : i < j => s[i].n < s[j].n

\* Every acknowledgement the Commander gets was in a frame the port read, in
\* the order the peer sent them, each once; none of an undamaged frame is lost.
\* Nothing but a packet of the ant is taken for one, and the acknowledgement
\* around it, if it names a request, has been published before.
AnswersFollowFrames ==
    /\ InOrder(received) /\ InOrder(ackMessages)
    /\ ToSet(ackMessages) = {f \in {received[i] : i \in 1..unpacked} : HasSource(f.kind)}
    /\ \A f \in ToSet(antMessages) :
         /\ f.kind \in {"relay", "emptyRelay"}
         /\ f.kind = "relay" => f \in ToSet(ackMessages)

\* Every packet in the mailbox reaches the peer or falls to a failure of the
\* port: none waits forever, whatever state the port was in.
PacketsEnd ==
    \A p \in 1..MaxUp :
        p \in ToSet(mbox) ~> (p \in ToSet(heard) \/ p \in lost)

\* A device that failed is opened again as soon as there is something to write,
\* even when its reader had ended without notice, unless a read fails first.
WritingReconnects ==
    (alive /\ port = "gone" /\ mbox \o chan # <<>>) ~> (port = "up" \/ ~alive)

\* An actor whose read failed connects again (the log in raw.rs:125 says "io
\* error -- reconnecting to serial port").
ReadErrorReconnects == ~alive ~> (alive /\ port = "up")
=============================================================================
