------------------------------ MODULE Downlink ------------------------------
(***************************************************************************)
(* The echo to the ground (runtime/src/ground/downlink.rs): one Downlink   *)
(* actor for each receiver, started when connect_once (src/lib.rs) has     *)
(* reached one of them (src/main.rs).  Each subscribes to six kinds of     *)
(* packets and messages, treated alike, and to what the log layer          *)
(* (src/trace/downlink.rs) publishes: the program's own log events, those  *)
(* of a failing downlink included.                                         *)
(*                                                                         *)
(* Packets are numbered in the order of publication; a log message is Log. *)
(* Receivers are datagram sockets: one that is closed and bound again does *)
(* not get what is sent to a socket connected to the old one.              *)
(***************************************************************************)
EXTENDS Naturals, Sequences, SequencesExt, FiniteSets

CONSTANTS
    Downlinks,    \* the receivers' addresses
    MaxPackets,   \* bound: packets published
    MaxOutages,   \* bound: times a receiver closes its socket
    MaxBad,       \* bound: messages that cannot be serialised
    MaxMailbox,   \* bound: a log message is queued only below this length
    None, Log

ASSUME BoundsAssumption ==
    MaxPackets \in Nat /\ MaxOutages \in Nat /\ MaxMailbox \in Nat /\ MaxBad \in Nat
ASSUME NamesAssumption == None \notin Nat /\ Log \notin Nat /\ None # Log

Messages == Nat \cup {Log}

VARIABLES
    started,     \* main has passed connect_once and started the actors
    receiver,    \* per address: is there a socket bound to it?
    wait,        \* per actor: "open" (make_socket) and "sleep"
    sender,      \* per actor: Downlink.sender: "none", "good", or "stale" (the
                 \* socket it is connected to is closed)
    subscribed,  \* per actor: subscribe_once has run
    mbox,        \* per actor: its mailbox
    sending,     \* per actor: the message whose send is awaited, or None
    published,   \* history: packets published
    got,         \* history, per receiver: packets received
    missed,      \* history, per actor: packets published before it subscribed
    lost,        \* history, per receiver: later packets nobody will send any more
    faults,      \* history, per actor: failed sends and serialisations
    outages,     \* history: times a receiver closed its socket
    bad          \* history: messages that could not be serialised

history == <<published, got, missed, lost, faults, outages, bad>>
vars == <<started, receiver, wait, sender, subscribed, mbox, sending, history>>

Packets(s) == ToSet(s) \ {Log}
Held(d) == IF sending[d] = None THEN mbox[d] ELSE <<sending[d]>> \o mbox[d]

TypeOK ==
    /\ started \in BOOLEAN
    /\ receiver \in [Downlinks -> BOOLEAN]
    /\ wait \in [Downlinks -> SUBSET {"open", "sleep"}]
    /\ sender \in [Downlinks -> {"none", "good", "stale"}]
    /\ subscribed \in [Downlinks -> BOOLEAN]
    /\ mbox \in [Downlinks -> Seq(Messages)]
    /\ sending \in [Downlinks -> Messages \cup {None}]
    /\ published \in Nat /\ outages \in Nat /\ bad \in Nat
    /\ got \in [Downlinks -> Seq(Nat)]
    /\ missed \in [Downlinks -> 0..published]
    /\ lost \in [Downlinks -> SUBSET (1..published)]
    /\ faults \in [Downlinks -> Nat]

Init ==
    /\ started = FALSE
    /\ receiver \in [Downlinks -> BOOLEAN]
    /\ wait = [d \in Downlinks |-> {"open"}]
    /\ sender = [d \in Downlinks |-> "none"]
    /\ subscribed = [d \in Downlinks |-> FALSE]
    /\ mbox = [d \in Downlinks |-> <<>>]
    /\ sending = [d \in Downlinks |-> None]
    /\ published = 0 /\ outages = 0 /\ bad = 0
    /\ got = [d \in Downlinks |-> <<>>]
    /\ missed = [d \in Downlinks |-> 0]
    /\ lost = [d \in Downlinks |-> {}]
    /\ faults = [d \in Downlinks |-> 0]

\* connect_once ends when a connection to any address succeeds.
ConnectOnce ==
    /\ ~started /\ \E d \in Downlinks : receiver[d]
    /\ started' = TRUE
    /\ UNCHANGED <<receiver, wait, sender, subscribed, mbox, sending, history>>

\* An event of level info or above is published to every subscribed actor,
\* the one it came from too; the trace event of a message being sent is not.
OnEvent(boxes) ==
    [d \in Downlinks |-> IF subscribed[d] /\ Len(boxes[d]) < MaxMailbox
                         THEN Append(boxes[d], Log) ELSE boxes[d]]

-----------------------------------------------------------------------------
(* One actor.                                                               *)

Polled(d) == started /\ wait[d] = {} /\ sending[d] = None

\* Mutant of Restart: the old socket is used until the new one is there.
RestartInBackground(d) ==
    /\ wait' = [wait EXCEPT ![d] = {}]
    /\ sending' = [sending EXCEPT ![d] = None]

\* ctx.stop: the supervisor drops what is awaited, keeps the mailbox and the
\* sender, and calls restarting (a second's delay) and started (connect).
Restart(d) ==
    /\ wait' = [wait EXCEPT ![d] = {"open", "sleep"}]
    /\ sending' = [sending EXCEPT ![d] = None]

\* The new socket replaces the old one before the first message is handled.
OpenOk(d) ==
    /\ started /\ "open" \in wait[d] /\ receiver[d]
    /\ wait' = [wait EXCEPT ![d] = @ \ {"open"}]
    /\ sender' = [sender EXCEPT ![d] = "good"]
    /\ subscribed' = [subscribed EXCEPT ![d] = TRUE]
    /\ mbox' = OnEvent(mbox)
    /\ UNCHANGED <<started, receiver, sending, history>>

\* Mutant of OpenFails: the missing socket is only logged.
OpenFailsIgnored(d) ==
    /\ started /\ "open" \in wait[d] /\ ~receiver[d]
    /\ wait' = [wait EXCEPT ![d] = @ \ {"open"}]
    /\ subscribed' = [subscribed EXCEPT ![d] = TRUE]
    /\ mbox' = OnEvent(mbox)
    /\ UNCHANGED <<started, receiver, sender, sending, history>>

\* There is no socket: another restart.
OpenFails(d) ==
    /\ started /\ "open" \in wait[d] /\ ~receiver[d]
    /\ Restart(d) /\ mbox' = OnEvent(mbox)
    /\ UNCHANGED <<started, receiver, sender, subscribed, history>>

Wake(d) ==
    /\ started /\ "sleep" \in wait[d]
    /\ wait' = [wait EXCEPT ![d] = @ \ {"sleep"}]
    /\ UNCHANGED <<started, receiver, sender, subscribed, mbox, sending, history>>

\* Mutant of GenHandle: sending a message is an event of level info.
GenHandleLogged(d) ==
    /\ Polled(d) /\ mbox[d] # <<>>
    /\ sending' = [sending EXCEPT ![d] = Head(mbox[d])]
    /\ mbox' = OnEvent([mbox EXCEPT ![d] = Tail(@)])
    /\ UNCHANGED <<started, receiver, wait, sender, subscribed, history>>

\* A message is serialised and its send awaited.
GenHandle(d) ==
    /\ Polled(d) /\ mbox[d] # <<>>
    /\ sending' = [sending EXCEPT ![d] = Head(mbox[d])]
    /\ mbox' = [mbox EXCEPT ![d] = Tail(@)]
    /\ UNCHANGED <<started, receiver, wait, sender, subscribed, history>>

LosePacket(d, m) ==
    /\ lost' = [lost EXCEPT ![d] = IF m = Log THEN @ ELSE @ \cup {m}]
    /\ faults' = [faults EXCEPT ![d] = @ + 1]

\* A message that cannot be serialised is logged and dropped.
GenHandleFails(d) ==
    /\ Polled(d) /\ mbox[d] # <<>> /\ bad < MaxBad
    /\ bad' = bad + 1
    /\ LosePacket(d, Head(mbox[d]))
    /\ mbox' = OnEvent([mbox EXCEPT ![d] = Tail(@)])
    /\ UNCHANGED <<started, receiver, wait, sender, subscribed, sending, published, got, missed, outages>>

SendOk(d) ==
    /\ sending[d] # None /\ sender[d] = "good"
    /\ got' = [got EXCEPT ![d] = IF sending[d] = Log THEN @ ELSE Append(@, sending[d])]
    /\ sending' = [sending EXCEPT ![d] = None]
    /\ UNCHANGED <<started, receiver, wait, sender, subscribed, mbox, published,
                   missed, lost, faults, outages, bad>>

\* Mutant of SendFails: all that was queued goes with the failed message.
SendFailsAndClears(d) ==
    /\ sending[d] # None /\ sender[d] = "stale"
    /\ lost' = [lost EXCEPT ![d] = @ \cup Packets(Held(d))]
    /\ faults' = [faults EXCEPT ![d] = @ + 1]
    /\ Restart(d) /\ mbox' = [mbox EXCEPT ![d] = <<>>]
    /\ UNCHANGED <<started, receiver, sender, subscribed, published, got, missed, outages, bad>>


\* Mutant of SendFails: the message is put back, behind those queued meanwhile.
SendFailsRequeues(d) ==
    /\ sending[d] # None /\ sender[d] = "stale"
    /\ faults' = [faults EXCEPT ![d] = @ + 1]
    /\ Restart(d) /\ mbox' = OnEvent([mbox EXCEPT ![d] = Append(@, sending[d])])
    /\ UNCHANGED <<started, receiver, sender, subscribed, published, got, missed, lost, outages, bad>>

\* The message in flight is lost and the actor restarts.
SendFails(d) ==
    /\ sending[d] # None /\ sender[d] = "stale"
    /\ LosePacket(d, sending[d])
    /\ Restart(d) /\ mbox' = OnEvent(mbox)
    /\ UNCHANGED <<started, receiver, sender, subscribed, published, got, missed, outages, bad>>

-----------------------------------------------------------------------------
(* Publishers and receivers.                                                *)

\* Uplink, Serial or RawIO publishes a packet or a message.
Publish ==
    /\ published < MaxPackets
    /\ published' = published + 1
    /\ mbox' = [d \in Downlinks |-> IF subscribed[d] THEN Append(mbox[d], published')
                                    ELSE mbox[d]]
    /\ missed' = [d \in Downlinks |-> IF subscribed[d] THEN missed[d] ELSE published']
    /\ UNCHANGED <<started, receiver, wait, sender, subscribed, sending, got,
                   lost, faults, outages, bad>>

ReceiverUp(d) ==
    /\ ~receiver[d]
    /\ receiver' = [receiver EXCEPT ![d] = TRUE]
    /\ UNCHANGED <<started, wait, sender, subscribed, mbox, sending, history>>

ReceiverDown(d) ==
    /\ receiver[d] /\ outages < MaxOutages
    /\ outages' = outages + 1
    /\ receiver' = [receiver EXCEPT ![d] = FALSE]
    /\ sender' = [sender EXCEPT ![d] = IF @ = "good" THEN "stale" ELSE @]
    /\ UNCHANGED <<started, wait, subscribed, mbox, sending, published, got, missed,
                   lost, faults, bad>>

Actor(d) ==
    \/ OpenOk(d) \/ OpenFails(d) \/ Wake(d)
    \/ GenHandle(d) \/ GenHandleFails(d) \/ SendOk(d) \/ SendFails(d)

\* All is published and sent; nobody is left to speak.
Idle ==
    /\ published = MaxPackets
    /\ \A d \in Downlinks : receiver[d] /\ (started => Polled(d) /\ mbox[d] = <<>>)
    /\ UNCHANGED vars

Next ==
    \/ ConnectOnce \/ Publish
    \/ \E d \in Downlinks : Actor(d) \/ ReceiverUp(d) \/ ReceiverDown(d)
    \/ Idle

Spec == Init /\ [][Next]_vars

\* Actors are polled, delays end, awaited sends end, connect_once retries.
Fairness ==
    /\ WF_vars(ConnectOnce)
    /\ \A d \in Downlinks :
         /\ WF_vars(OpenOk(d)) /\ WF_vars(OpenFails(d)) /\ WF_vars(Wake(d))
         /\ WF_vars(GenHandle(d)) /\ WF_vars(SendOk(d)) /\ WF_vars(SendFails(d))

FairSpec == Spec /\ Fairness

-----------------------------------------------------------------------------
(* What the echo promises.                                                  *)

\* The packets of a sequence are in the order of publication, none twice.
InOrder(s) ==
    \A i, j \in DOMAIN s : i < j /\ s[i] # Log /\ s[j] # Log => s[i] < s[j]

\* Every receiver gets the packets in the order of publication, none twice,
\* through any number of reconnects and whatever the other receivers do.
EchoesInOrder == \A d \in Downlinks : InOrder(got[d] \o Held(d))

\* Whenever a subscribed actor can handle a message its sender is there: the
\* unwrap in gen_handle cannot fail.
HandlerHasSender ==
    \A d \in Downlinks : Polled(d) /\ subscribed[d] => sender[d] # "none"

\* What holds of every actor, connected or not.
EchoInv == TypeOK /\ EchoesInOrder /\ HandlerHasSender

\* A failure costs one message, the one in flight: what is queued survives the
\* restart, and nothing is lost otherwise once the actor has subscribed.
OneLossPerFault ==
    \A d \in Downlinks :
        LET on == ToSet(got[d]) \cup Packets(Held(d))
            known == 1..missed[d] \cup lost[d]
        IN  /\ on \cup known = 1..published /\ on \cap known = {}
            /\ Cardinality(lost[d]) <= faults[d]

\* The socket of a failed send, which the actor keeps, is not used again: a
\* receiver that goes away makes one send fail, not one for each message queued.
OneFaultPerOutage == \A d \in Downlinks : faults[d] <= outages + bad

\* What each receiver is sent comes, through failures and reconnects, out of a
\* queue that takes every packet published since the actor subscribed, and that
\* loses only the packet at its head, and only when a send or serialisation fails;
\* log messages come between packets and disturb nothing.
Echo ==
    INSTANCE LossyEcho WITH
        Receivers <- Downlinks, offered <- published,
        joined <- {d \in Downlinks : subscribed[d]},
        held <- [d \in Downlinks |-> Packets(Held(d))],
        out <- got, failures <- faults
ImplementsEcho == Echo!Spec


\* When all receivers stay the mailboxes run empty: the messages about failures
\* and reconnects do not bring forth others.
LogsDieDown ==
    (\A d \in Downlinks : <>[]receiver[d]) => <>[](\A d \in Downlinks : mbox[d] = <<>>)
=============================================================================
