------------------------------ MODULE Commander ------------------------------
(***************************************************************************)
(* Requests over the serial line (runtime/src/serial/commander.rs): the    *)
(* Commander service pairs what comes back with the request that waits for *)
(* it by the unique id in the header the peer echoes.  Callers send with a *)
(* timeout and retry under a new id; what they gave up on may still be     *)
(* acknowledged later, twice, or never.                                    *)
(*                                                                         *)
(* A message of the model is one transmission; its id is data it carries.  *)
(* Ids the frontend generates differ from each other (fewer than 256       *)
(* messages in one millisecond of a clock that does not go back); messages *)
(* forwarded for the ground carry whatever id the ground gave them, which  *)
(* may be one the ground or the frontend has used.                         *)
(***************************************************************************)
EXTENDS Naturals, Sequences

CONSTANTS
    Callers,     \* futures that may call send or send_retry concurrently
    Msgs,        \* bound: the transmissions there can be
    OwnIds,      \* ids params() yields
    GroundIds,   \* ids of messages forwarded for the ground
    Retries,     \* per caller: retries left after the first attempt
    None,        \* no message, no id
    MaxInbox     \* bound: acknowledgements arrive only below this length

Ids == OwnIds \cup GroundIds

ASSUME IdsAssumption == None \notin Ids
ASSUME MsgsAssumption == None \notin Msgs
ASSUME RetriesAssumption == Retries \in [Callers -> Nat] /\ MaxInbox \in Nat

VARIABLES
    id,         \* the id of each transmission, None while unused
    own,        \* the transmissions whose id the frontend generated
    inbox,      \* the Commander's mailbox
    requests,   \* Commander.requests: id -> message whose oneshot it holds
    rx,         \* the receiving end of each message's oneshot
    wire,       \* messages that went out on the serial line
    phase,      \* caller: no call, about to make an attempt, awaiting a reply
    cur,        \* caller: the message of the attempt it awaits
    tries,      \* caller: attempts made in this call
    result      \* caller: how its latest attempt ended

calls == <<phase, cur, tries, result>>
vars  == <<id, own, inbox, requests, rx, wire, calls>>

-----------------------------------------------------------------------------
\* The receiver of a oneshot: not created, awaited, closed by its owner,
\* deserted by the sender, or holding the reply to some transmission.
Receiver == [st : {"none", "open", "closed", "dropped"}]
              \cup [st : {"reply"}, from : Msgs, invalid : BOOLEAN]

\* A Request, or an acknowledgement of a transmission: AckMessage from the
\* central station or AntMessage from the ant ("Ignored": the wrapper around
\* an ant message, or one without the header of what it acknowledges).
Mail == [type : {"Request", "Ignored"}, msg : Msgs]
          \cup [type : {"Ack", "Ant"}, msg : Msgs, invalid : BOOLEAN]

Result == [kind : {"none", "timeout"}]
            \cup [kind : {"dropped"}, msg : Msgs]
            \cup [kind : {"ok", "invalid"}, msg : Msgs, from : Msgs]

\* Type invariant of the service, its mailbox and its callers.
TypeOK ==
    /\ id \in [Msgs -> Ids \cup {None}]
    /\ own \subseteq Msgs
    /\ inbox \in Seq(Mail)
    /\ requests \in [Ids -> Msgs \cup {None}]
    /\ rx \in [Msgs -> Receiver]
    /\ wire \subseteq Msgs
    /\ phase \in [Callers -> {"idle", "attempt", "await"}]
    /\ cur \in [Callers -> Msgs \cup {None}]
    /\ tries \in [Callers -> Nat]
    /\ result \in [Callers -> Result]

Init ==
    /\ id = [m \in Msgs |-> None]
    /\ own = {}
    /\ inbox = <<>>
    /\ requests = [i \in Ids |-> None]
    /\ rx = [m \in Msgs |-> [st |-> "none"]]
    /\ wire = {}
    /\ phase = [c \in Callers |-> "idle"]
    /\ cur = [c \in Callers |-> None]
    /\ tries = [c \in Callers |-> 0]
    /\ result = [c \in Callers |-> [kind |-> "none"]]

\* Mutant of Fresh: the sequence counter does not advance.
Stuck(i) == TRUE

\* params(): the millisecond clock and the wrapping u8 counter have not given
\* this id to a message before.
Fresh(i) == \A m \in own : id[m] # i

-----------------------------------------------------------------------------
(* Callers: send, send_retry, do_send.                                      *)

\* A call begins.
Call(c) ==
    /\ phase[c] = "idle"
    /\ phase' = [phase EXCEPT ![c] = "attempt"]
    /\ UNCHANGED <<id, own, inbox, requests, rx, wire, cur, tries, result>>

\* An attempt builds its message anew, so with a new id, and queues it.
Attempt(c) ==
    /\ phase[c] = "attempt"
    /\ \E m \in Msgs, i \in OwnIds :
         /\ id[m] = None /\ Fresh(i)
         /\ id' = [id EXCEPT ![m] = i]
         /\ own' = own \cup {m}
         /\ cur' = [cur EXCEPT ![c] = m]
         /\ inbox' = Append(inbox, [type |-> "Request", msg |-> m])
    /\ phase' = [phase EXCEPT ![c] = "await"]
    /\ tries' = [tries EXCEPT ![c] = @ + 1]
    /\ result' = [result EXCEPT ![c] = [kind |-> "none"]]
    /\ UNCHANGED <<requests, rx, wire>>

\* do_send: the same request, and nobody listens.  The id is the frontend's,
\* or the ground's in a forwarded message.
DoSend ==
    /\ \E m \in Msgs, i \in Ids :
         /\ id[m] = None
         /\ \/ i \in OwnIds /\ Fresh(i) /\ own' = own \cup {m}
            \/ i \in GroundIds /\ own' = own
         /\ id' = [id EXCEPT ![m] = i]
         /\ inbox' = Append(inbox, [type |-> "Request", msg |-> m])
    /\ UNCHANGED <<requests, rx, wire, calls>>

\* The attempt ended: the call is over, or tries again.
EndAttempt(c, r) ==
    LET over == r.kind = "ok" \/ tries[c] > Retries[c] IN
    /\ result' = [result EXCEPT ![c] = r]
    /\ cur' = [cur EXCEPT ![c] = None]
    /\ phase' = [phase EXCEPT ![c] = IF over THEN "idle" ELSE "attempt"]
    /\ tries' = [tries EXCEPT ![c] = IF over THEN 0 ELSE @]
    /\ UNCHANGED <<id, own, inbox, requests, rx, wire>>

\* The reply is there; one flagged invalid is an error like any other.
Replied(c) ==
    /\ phase[c] = "await"
    /\ rx[cur[c]].st = "reply"
    /\ EndAttempt(c, [kind |-> IF rx[cur[c]].invalid THEN "invalid" ELSE "ok",
                      msg  |-> cur[c], from |-> rx[cur[c]].from])

\* The sender was dropped: RequestDropped.
Dropped(c) ==
    /\ phase[c] = "await"
    /\ rx[cur[c]].st = "dropped"
    /\ EndAttempt(c, [kind |-> "dropped", msg |-> cur[c]])

\* Mutant of TimedOut: the request is awaited without a timeout.
NoTimeout(c) == FALSE

\* The timeout of the request, wherever the request has got to.
TimedOut(c) ==
    /\ phase[c] = "await"
    /\ EndAttempt(c, [kind |-> "timeout"])

\* The calling task is cancelled.
Cancel(c) ==
    /\ phase[c] # "idle"
    /\ phase' = [phase EXCEPT ![c] = "idle"]
    /\ cur' = [cur EXCEPT ![c] = None]
    /\ tries' = [tries EXCEPT ![c] = 0]
    /\ UNCHANGED <<id, own, inbox, requests, rx, wire, result>>

\* The receiver of a message nobody awaits may be dropped (actix decides
\* when it drops the response future).
CloseReceiver(m) ==
    /\ rx[m].st = "open"
    /\ \A c \in Callers : cur[c] # m
    /\ rx' = [rx EXCEPT ![m] = [st |-> "closed"]]
    /\ UNCHANGED <<id, own, inbox, requests, wire, calls>>

-----------------------------------------------------------------------------
(* The service.                                                             *)

Take(type) ==
    /\ inbox # <<>>
    /\ Head(inbox).type = type
    /\ inbox' = Tail(inbox)

\* Register the sender under the id, dropping the one that was there, and
\* pass the message on to the serial line.
HandleRequest ==
    LET m == Head(inbox).msg
        old == requests[id[m]]
    IN /\ Take("Request")
       /\ requests' = [requests EXCEPT ![id[m]] = m]
       /\ rx' = [x \in Msgs |-> IF x = m THEN [st |-> "open"]
                                ELSE IF x = old /\ rx[x].st = "open"
                                THEN [st |-> "dropped"] ELSE rx[x]]
       /\ wire' = wire \cup {m}
       /\ UNCHANGED <<id, own, calls>>

\* Mutant of Deliver: the sender stays registered and is used again.
DeliverAgain(a) ==
    LET m == requests[id[a.msg]] IN
    /\ rx' = [x \in Msgs |-> IF x = m
                             THEN [st |-> "reply", from |-> a.msg, invalid |-> a.invalid]
                             ELSE rx[x]]
    /\ UNCHANGED requests

\* Mutant of Deliver: whoever has waited is answered, whatever the id.
DeliverToAny(a) ==
    \E i \in Ids :
        /\ requests[i] # None
        /\ requests' = [requests EXCEPT ![i] = None]
        /\ rx' = [x \in Msgs |-> IF x = requests[i] /\ rx[x].st = "open"
                                 THEN [st |-> "reply", from |-> a.msg, invalid |-> a.invalid]
                                 ELSE rx[x]]

\* Remove the sender registered for the acknowledged id, if there is one, and
\* use it: a closed receiver is only worth a warning.
Deliver(a) ==
    LET m == requests[id[a.msg]] IN
    /\ requests' = [requests EXCEPT ![id[a.msg]] = None]
    /\ rx' = [x \in Msgs |-> IF x = m /\ rx[x].st = "open"
                             THEN [st |-> "reply", from |-> a.msg, invalid |-> a.invalid]
                             ELSE rx[x]]

HandleAck ==
    /\ Take("Ack")
    /\ Deliver(Head(inbox))
    /\ UNCHANGED <<id, own, wire, calls>>

\* The wrapper of an ant message is ignored in favour of what it carries, and
\* an acknowledgement without source information names no request.
HandleIgnored ==
    /\ Take("Ignored")
    /\ UNCHANGED <<id, own, requests, rx, wire, calls>>

HandleAnt ==
    /\ Take("Ant")
    /\ Deliver(Head(inbox))
    /\ UNCHANGED <<id, own, wire, calls>>

\* Mutant of CollectGarbage: the test is inverted.
CollectOpen ==
    /\ \E i \in Ids : requests[i] # None /\ rx[requests[i]].st = "open"
    /\ requests' = [i \in Ids |->
                      IF requests[i] # None /\ rx[requests[i]].st = "open"
                      THEN None ELSE requests[i]]
    /\ UNCHANGED <<id, own, inbox, rx, wire, calls>>

\* run_interval(5 s): forget the senders whose receiver is closed.
CollectGarbage ==
    /\ \E i \in Ids : requests[i] # None /\ rx[requests[i]].st = "closed"
    /\ requests' = [i \in Ids |->
                      IF requests[i] # None /\ rx[requests[i]].st = "closed"
                      THEN None ELSE requests[i]]
    /\ UNCHANGED <<id, own, inbox, rx, wire, calls>>

-----------------------------------------------------------------------------
(* The peers: the central station and the ant.                              *)

\* Any message that went out may be acknowledged any number of times, at any
\* later moment, as valid or not, directly or through the relay; the
\* acknowledgements of some never come.
Acknowledge(m) ==
    /\ m \in wire
    /\ Len(inbox) < MaxInbox
    /\ \/ inbox' = Append(inbox, [type |-> "Ignored", msg |-> m])
       \/ \E t \in {"Ack", "Ant"}, inv \in BOOLEAN :
            inbox' = Append(inbox, [type |-> t, msg |-> m, invalid |-> inv])
    /\ UNCHANGED <<id, own, requests, rx, wire, calls>>

-----------------------------------------------------------------------------
Service == HandleRequest \/ HandleAck \/ HandleIgnored \/ HandleAnt

AttemptEnds(c) == Replied(c) \/ Dropped(c) \/ TimedOut(c)

Next ==
    \/ \E c \in Callers : Call(c) \/ Attempt(c) \/ AttemptEnds(c) \/ Cancel(c)
    \/ DoSend
    \/ Service
    \/ CollectGarbage
    \/ \E m \in Msgs : CloseReceiver(m) \/ Acknowledge(m)

Spec == Init /\ [][Next]_vars

\* Fairness: the service handles its mailbox, an attempt is made, and the
\* timer of an awaited request runs out.
FairSpec ==
    /\ Spec
    /\ WF_vars(Service)
    /\ \A c \in Callers : WF_vars(Attempt(c)) /\ WF_vars(TimedOut(c))

-----------------------------------------------------------------------------
(* Safety.                                                                  *)

\* The ground has given this id to none of its messages.
Unclashed(m) == \A n \in Msgs \ own : id[n] # id[m]

\* A caller is answered by the acknowledgement of the very transmission of its
\* latest attempt: late and repeated acknowledgements of attempts it has given
\* up on, and those of forwarded messages, never reach it, unless the ground has
\* used its id too.
RightReply ==
    \A c \in Callers : result[c].kind \in {"ok", "invalid"} =>
        /\ result[c].msg \in own
        /\ Unclashed(result[c].msg) => result[c].from = result[c].msg

\* A caller loses its request only to a message of the ground's that has its id.
NeverDropped ==
    \A c \in Callers : result[c].kind = "dropped" =>
        result[c].msg \in own /\ ~Unclashed(result[c].msg)

\* A reply that is still awaited can still be delivered: the sender of every
\* open receiver is registered under its message's id, garbage collection and
\* colliding ids notwithstanding.
OpenIsRegistered ==
    \A m \in Msgs : rx[m].st = "open" => id[m] \in Ids /\ requests[id[m]] = m

\* What holds of the service and its registry whatever ids the ground uses.
RegistryInv == TypeOK /\ OpenIsRegistered

\* Action property: a receiver that has its reply, was deserted or was closed
\* is never written again, however often its message is acknowledged.
ReplyIsFinal ==
    [][\A m \in Msgs : rx[m].st \in {"reply", "dropped", "closed"} => rx'[m] = rx[m]]_vars

\* What the proofs need besides: every message in flight has an id, the
\* frontend's own ids are distinct, and what a caller awaits has one of them;
\* a registered sender is found under its message's id, and no message of the
\* frontend's own holds a foreign reply.
IdsInUse ==
    /\ \A k \in 1..Len(inbox) : id[inbox[k].msg] \in Ids
    /\ \A m \in wire : id[m] \in Ids
    /\ \A m \in own : id[m] \in OwnIds
    /\ \A m \in Msgs \ own : id[m] \in GroundIds \cup {None}
    /\ \A m, n \in own : id[m] = id[n] => m = n
    /\ \A c \in Callers : /\ cur[c] \in own \cup {None}
                          /\ phase[c] = "await" => cur[c] # None

\* A queued request has not been handled before: nobody listens for it yet, and
\* it is queued once.
QueuedOnce ==
    /\ \A m \in Msgs : id[m] = None => rx[m].st = "none"
    /\ \A k \in 1..Len(inbox) : inbox[k].type = "Request" => rx[inbox[k].msg].st = "none"
    /\ \A j, k \in 1..Len(inbox) :
         inbox[j].type = "Request" /\ inbox[k].type = "Request" /\ inbox[j].msg = inbox[k].msg
            => j = k

RepliesMatch ==
    /\ \A m \in Msgs : id[m] = None => rx[m].st = "none"
    /\ \A i \in Ids : requests[i] # None => id[requests[i]] = i
    /\ \A m \in own : Unclashed(m) =>
         rx[m].st # "dropped" /\ (rx[m].st = "reply" => rx[m].from = m)

-----------------------------------------------------------------------------
(* Liveness.                                                                *)

\* Every call ends, whatever is lost, unless the bound on messages stops it.
CallsEnd ==
    \A c \in Callers : phase[c] # "idle" ~>
        phase[c] = "idle" \/ \A m \in Msgs : id[m] # None

=============================================================================
