------------------------------- MODULE Uplink -------------------------------
(***************************************************************************)
(* The way of a command from the ground to the frontend: consoles          *)
(* (src/bin/console/main.rs) send datagrams to the path the Uplink actor   *)
(* (runtime/src/ground/uplink.rs) binds (net/src/unix.rs).  The process    *)
(* may exit (FERestart) and start again; its socket dies with it, the file *)
(* at the path does not.  A path names one socket, the one bound last; a   *)
(* sender stays connected to the socket it connected to.                   *)
(*                                                                         *)
(* Datagrams are numbered in the order their sends succeed.                *)
(***************************************************************************)
EXTENDS Naturals, Sequences, SequencesExt

CONSTANTS
    Consoles,
    MaxSent,     \* bound: datagrams sent
    MaxSockets,  \* bound: sockets bound, so failures and exits of the process
    QueueLen     \* datagrams a socket holds before senders wait

ASSUME BoundsAssumption == {MaxSent, MaxSockets, QueueLen} \subseteq Nat \ {0}

VARIABLES
    uplink,      \* "exited", "binding", "unlinked" (inside bind), "listening"
    path,        \* the socket the path names; 0: there is no file
    sockets,     \* number of sockets bound; the last is open while listening
    queue,       \* datagrams in the open socket
    console,     \* per console: "connecting", "probed", "ready", "gone"
    peer,        \* per console: the socket it is connected to
    accepted,    \* history: per datagram, its socket and whether it unpacks
    published    \* history: what the actor published, UpPacket and UpCommand

actor == <<uplink, path, sockets>>
vars == <<actor, queue, console, peer, accepted, published>>

Open == IF uplink = "listening" THEN sockets ELSE 0
Reachable == Open # 0 /\ path = Open

TypeOK ==
    /\ uplink \in {"exited", "binding", "unlinked", "listening"}
    /\ sockets \in Nat /\ path \in 0..sockets
    /\ queue \in Seq(DOMAIN accepted)
    /\ console \in [Consoles -> {"connecting", "probed", "ready", "gone"}]
    /\ peer \in [Consoles -> 0..sockets]
    /\ accepted \in Seq([socket : 1..sockets, valid : BOOLEAN])
    /\ published \in Seq({"UpPacket", "UpCommand"} \X (DOMAIN accepted))

Init ==
    /\ uplink = "exited" /\ path = 0 /\ sockets = 0 /\ queue = <<>>
    /\ console = [c \in Consoles |-> "connecting"]
    /\ peer = [c \in Consoles |-> 0]
    /\ accepted = <<>> /\ published = <<>>

-----------------------------------------------------------------------------
(* The actor.                                                               *)

\* main starts the actor; started awaits make_socket, which calls bind.
ProcessStart ==
    /\ uplink = "exited" /\ uplink' = "binding"
    /\ UNCHANGED <<path, sockets, queue, console, peer, accepted, published>>

\* The socket is closed with what it holds.
Close(next) == uplink' = next /\ queue' = <<>>

\* FERestart, or a crash.
ProcessExit ==
    /\ uplink # "exited"
    /\ Close("exited")
    /\ UNCHANGED <<path, sockets, console, peer, accepted, published>>


\* bind makes the directory and removes the file, whoever left it.
Unlink ==
    /\ uplink = "binding" /\ uplink' = "unlinked"
    /\ path' = 0
    /\ UNCHANGED <<sockets, queue, console, peer, accepted, published>>

\* The system refuses a path that exists.
BindOk ==
    /\ uplink = "unlinked" /\ path = 0 /\ sockets < MaxSockets
    /\ sockets' = sockets + 1 /\ path' = sockets'
    /\ Close("listening")
    /\ UNCHANGED <<console, peer, accepted, published>>

\* make_socket gives None: the actor stops and, restarted, binds again at once.
BindFails ==
    /\ uplink = "unlinked" /\ uplink' = "binding"
    /\ UNCHANGED <<path, sockets, queue, console, peer, accepted, published>>

Handled(n) ==
    IF accepted[n].valid THEN <<<<"UpPacket", n>>, <<"UpCommand", n>>>>
    ELSE <<<<"UpPacket", n>>>>

\* Mutant of Receive: the buffer is not cleared of a datagram that unpacks badly.
ReceiveAgain ==
    /\ Open # 0 /\ queue # <<>>
    /\ published' = published \o Handled(Head(queue))
    /\ queue' = IF accepted[Head(queue)].valid THEN Tail(queue) ELSE queue
    /\ UNCHANGED <<actor, console, peer, accepted>>

\* Mutant of Receive: only commands are published.
ReceiveCommands ==
    /\ Open # 0 /\ queue # <<>>
    /\ published' = published \o SelectSeq(Handled(Head(queue)), LAMBDA m : m[1] = "UpCommand")
    /\ queue' = Tail(queue)
    /\ UNCHANGED <<actor, console, peer, accepted>>

\* The handler publishes the datagram, then the command in it.
Receive ==
    /\ Open # 0 /\ queue # <<>>
    /\ published' = published \o Handled(Head(queue))
    /\ queue' = Tail(queue)
    /\ UNCHANGED <<actor, console, peer, accepted>>

\* A failed receive stops the actor: the stream and its socket are dropped.
RecvFails ==
    /\ Open # 0 /\ Close("binding")
    /\ UNCHANGED <<path, sockets, console, peer, accepted, published>>

-----------------------------------------------------------------------------
(* Consoles.                                                                *)

Goes(c, from, to) == console[c] = from /\ console' = [console EXCEPT ![c] = to]

\* connect_once has reached the path, and gives up that connection.
Probe(c) ==
    /\ Goes(c, "connecting", "probed") /\ Reachable
    /\ UNCHANGED <<actor, queue, peer, accepted, published>>

ConnectOk(c) ==
    /\ Goes(c, "probed", "ready") /\ Reachable
    /\ peer' = [peer EXCEPT ![c] = path]
    /\ UNCHANGED <<actor, queue, accepted, published>>

\* The error ends main.
ConnectFails(c) ==
    /\ Goes(c, "probed", "gone") /\ ~Reachable
    /\ UNCHANGED <<actor, queue, peer, accepted, published>>

Accept(socket, valid) ==
    /\ socket = Open /\ Open # 0
    /\ Len(queue) < QueueLen /\ Len(accepted) < MaxSent
    /\ accepted' = Append(accepted, [socket |-> socket, valid |-> valid])
    /\ queue' = Append(queue, Len(accepted'))

Send(c) ==
    /\ console[c] = "ready" /\ Accept(peer[c], TRUE)
    /\ UNCHANGED <<actor, console, peer, published>>

\* exec_self: the program starts anew; the command has to be typed again.
ExecSelf(c) ==
    /\ Goes(c, "ready", "connecting")
    /\ peer' = [peer EXCEPT ![c] = 0]
    /\ UNCHANGED <<actor, queue, accepted, published>>

\* Mutant of SendFails: the error is printed and the next line read.
SendFailsIgnored(c) ==
    /\ console[c] = "ready" /\ peer[c] # Open
    /\ UNCHANGED vars

SendFails(c) == peer[c] # Open /\ ExecSelf(c)

Quit(c) ==
    /\ Goes(c, "ready", "gone")
    /\ UNCHANGED <<actor, queue, peer, accepted, published>>

Launch(c) ==
    /\ Goes(c, "gone", "connecting")
    /\ UNCHANGED <<actor, queue, peer, accepted, published>>

\* Some other program sends what is not a message.
Stray ==
    /\ Reachable /\ Accept(path, FALSE)
    /\ UNCHANGED <<actor, console, peer, published>>

Next ==
    \/ ProcessStart \/ ProcessExit \/ Unlink \/ BindOk \/ BindFails
    \/ Receive \/ RecvFails \/ Stray
    \/ \E c \in Consoles :
         \/ Probe(c) \/ ConnectOk(c) \/ ConnectFails(c) \/ Send(c)
         \/ SendFails(c) \/ ExecSelf(c) \/ Quit(c) \/ Launch(c)

Spec == Init /\ [][Next]_vars

\* The actor is polled; a bind tried again and again succeeds; the process is
\* started again; connect_once retries; the user of a console goes on typing.
Fairness ==
    /\ WF_vars(ProcessStart) /\ WF_vars(Unlink) /\ SF_vars(BindOk) /\ WF_vars(Receive)
    /\ \A c \in Consoles :
         /\ WF_vars(Probe(c)) /\ WF_vars(ConnectOk(c)) /\ WF_vars(ConnectFails(c))
         /\ WF_vars(SendFails(c))

FairSpec == Spec /\ Fairness

-----------------------------------------------------------------------------
\* Each command is published right after the datagram it came in, also when
\* datagrams of several consoles and stray ones are mixed.
CommandsFollowPackets ==
    \A i \in DOMAIN published :
        published[i][1] = "UpCommand" =>
            i > 1 /\ published[i - 1] = <<"UpPacket", published[i][2]>>

\* What holds at any time, whatever was received so far.
UplinkInv == TypeOK /\ CommandsFollowPackets

\* Datagrams the actor has handled.
Seen == {m[2] : m \in {x \in ToSet(published) : x[1] = "UpPacket"}}

\* Of the datagrams accepted by one socket those published are the first: an
\* accepted datagram is lost only when its socket is closed, with all after it,
\* and none is published twice or out of order.
LostAreLast ==
    /\ \A j, k \in DOMAIN published :
         j < k /\ published[j][1] = published[k][1] => published[j][2] < published[k][2]
    /\ \A n \in Seen, m \in DOMAIN accepted :
         m < n /\ accepted[m].socket = accepted[n].socket => m \in Seen
    /\ \A j, k \in DOMAIN queue : j < k => queue[j] < queue[k]
    /\ ToSet(queue) = {n \in DOMAIN accepted : accepted[n].socket = Open} \ Seen


\* A console left with a dead socket comes to one of the frontend's open one, if
\* that stays open, or ends.
ConsolesSettle ==
    \A c \in Consoles :
        <>[]Reachable => <>[](console[c] = "ready" => peer[c] = Open)
=============================================================================
