-------------------------- MODULE CommanderProofs --------------------------
(***************************************************************************)
(* Proofs about Commander: an open receiver is always registered, for any  *)
(* ids; every caller gets the reply to its own attempt and none is         *)
(* dropped, unless the ground has used the same id; no receiver is written *)
(* twice.                                                                  *)
(***************************************************************************)
EXTENDS Commander, TLAPS

-----------------------------------------------------------------------------
(* The mailbox.                                                             *)

\* The head and the tail of a mailbox that is not empty.
LEMMA TakeMail ==
    ASSUME NEW S, NEW s \in Seq(S), s # <<>>
    PROVE  /\ Len(s) \in Nat /\ Len(s) >= 1
           /\ Head(s) = s[1] /\ Head(s) \in S
           /\ Tail(s) \in Seq(S)
           /\ Len(Tail(s)) = Len(s) - 1
           /\ \A k \in 1..Len(Tail(s)) : k + 1 \in 1..Len(s) /\ Tail(s)[k] = s[k+1]
  OBVIOUS

\* Mail appended to a mailbox.
LEMMA PutMail ==
    ASSUME NEW S, NEW s \in Seq(S), NEW x \in S
    PROVE  /\ Append(s, x) \in Seq(S)
           /\ \A k \in 1..Len(Append(s, x)) :
                \/ k \in 1..Len(s) /\ Append(s, x)[k] = s[k]
                \/ Append(s, x)[k] = x
  OBVIOUS

\* Every kind of mail names a message.
LEMMA MailTypes ==
    /\ \A x \in Mail : x.msg \in Msgs
    /\ \A x \in Mail : x.type \in {"Ack", "Ant"} => x.invalid \in BOOLEAN
    /\ \A m \in Msgs : /\ [type |-> "Request", msg |-> m] \in Mail
                       /\ [type |-> "Ignored", msg |-> m] \in Mail
    /\ \A m \in Msgs, t \in {"Ack", "Ant"}, b \in BOOLEAN :
          [type |-> t, msg |-> m, invalid |-> b] \in Mail
  BY DEF Mail

\* What a receiver holds.
LEMMA ReceiverTypes ==
    /\ \A s \in {"none", "open", "closed", "dropped"} : [st |-> s] \in Receiver
    /\ \A m \in Msgs, b \in BOOLEAN :
          [st |-> "reply", from |-> m, invalid |-> b] \in Receiver
    /\ \A r \in Receiver : r.st = "reply" => r.from \in Msgs
  BY DEF Receiver

-----------------------------------------------------------------------------
(* Types, and the ids in use.                                               *)

Base == TypeOK /\ IdsInUse

\* Facts about the mail that is handled.
LEMMA TakeFacts ==
    ASSUME Base, NEW type, Take(type)
    PROVE  /\ Head(inbox) \in Mail /\ Head(inbox).type = type
           /\ Head(inbox).msg \in Msgs /\ id[Head(inbox).msg] \in Ids
           /\ inbox' \in Seq(Mail)
           /\ \A k \in 1..Len(inbox') : id[inbox'[k].msg] \in Ids
  <1>1. inbox \in Seq(Mail) /\ inbox # <<>> /\ inbox' = Tail(inbox)
        /\ Head(inbox).type = type
    BY DEF Base, TypeOK, Take
  <1>2. /\ Len(inbox) \in Nat /\ Len(inbox) >= 1
        /\ Head(inbox) = inbox[1] /\ Head(inbox) \in Mail
        /\ inbox' \in Seq(Mail)
        /\ \A k \in 1..Len(inbox') : k + 1 \in 1..Len(inbox) /\ inbox'[k] = inbox[k+1]
    BY <1>1, TakeMail
  <1>3. \A k \in 1..Len(inbox) : id[inbox[k].msg] \in Ids
    BY DEF Base, IdsInUse
  <1>4. id[Head(inbox).msg] \in Ids
    BY <1>2, <1>3
  <1>5. \A k \in 1..Len(inbox') : id[inbox'[k].msg] \in Ids
    BY <1>2, <1>3
  <1> QED BY <1>1, <1>2, <1>4, <1>5, MailTypes

\* A new transmission, registered with a fresh id of the frontend's or with
\* one of the ground's, and queued.
LEMMA NewMessage ==
    ASSUME Base, NEW m \in Msgs, NEW i \in Ids, id[m] = None,
           id' = [id EXCEPT ![m] = i],
           inbox' = Append(inbox, [type |-> "Request", msg |-> m]),
           \/ i \in OwnIds /\ Fresh(i) /\ own' = own \cup {m}
           \/ i \in GroundIds /\ own' = own,
           wire' = wire,
           \A c \in Callers : /\ cur'[c] \in own' \cup {None}
                              /\ phase'[c] = "await" => cur'[c] # None
    PROVE  /\ id' \in [Msgs -> Ids \cup {None}] /\ own' \subseteq Msgs
           /\ inbox' \in Seq(Mail) /\ IdsInUse' /\ m \notin own
  <1> USE DEF Base, TypeOK
  <1>1. m \notin own
    BY IdsAssumption DEF IdsInUse, Ids
  <1>2. id' \in [Msgs -> Ids \cup {None}] /\ own' \subseteq Msgs
        /\ id'[m] = i /\ \A n \in Msgs : n # m => id'[n] = id[n]
    OBVIOUS
  <1>3. /\ inbox' \in Seq(Mail)
        /\ \A k \in 1..Len(inbox') :
             \/ k \in 1..Len(inbox) /\ inbox'[k] = inbox[k]
             \/ inbox'[k] = [type |-> "Request", msg |-> m]
    <2> DEFINE r == [type |-> "Request", msg |-> m]
    <2>1. r \in Mail /\ inbox \in Seq(Mail) /\ inbox' = Append(inbox, r)
      BY MailTypes
    <2> HIDE DEF r
    <2>2. /\ inbox' \in Seq(Mail)
          /\ \A k \in 1..Len(inbox') : \/ k \in 1..Len(inbox) /\ inbox'[k] = inbox[k]
                                      \/ inbox'[k] = r
      BY <2>1, PutMail
    <2> QED BY <2>2 DEF r
  <1>4. \A n \in Msgs : id[n] \in Ids => id'[n] \in Ids
    BY <1>2
  <1>5. \A k \in 1..Len(inbox) : inbox[k] \in Mail /\ inbox[k].msg \in Msgs
    BY MailTypes
  <1>6. \A k \in 1..Len(inbox') : id'[inbox'[k].msg] \in Ids
    BY <1>2, <1>3, <1>4, <1>5 DEF IdsInUse
  <1>7. \A n \in wire' : id'[n] \in Ids
    BY <1>4 DEF IdsInUse
  <1>8. \A n \in own' : id'[n] \in OwnIds
    BY <1>1, <1>2 DEF IdsInUse
  <1>9. \A n \in Msgs \ own' : id'[n] \in GroundIds \cup {None}
    BY <1>1, <1>2 DEF IdsInUse
  <1>10. \A n, p \in own' : id'[n] = id'[p] => n = p
    BY <1>1, <1>2 DEF IdsInUse, Fresh
  <1> QED BY <1>1, <1>2, <1>3, <1>6, <1>7, <1>8, <1>9, <1>10 DEF IdsInUse

\* Delivering an acknowledgement keeps the types of the map and the receivers.
LEMMA DeliverTypes ==
    ASSUME Base, NEW a \in Mail, a.type \in {"Ack", "Ant"}, Deliver(a)
    PROVE  requests' \in [Ids -> Msgs \cup {None}] /\ rx' \in [Msgs -> Receiver]
  <1>1. a.msg \in Msgs /\ a.invalid \in BOOLEAN
    BY MailTypes
  <1>2. [st |-> "reply", from |-> a.msg, invalid |-> a.invalid] \in Receiver
    BY <1>1, ReceiverTypes
  <1> QED BY <1>2 DEF Deliver, Base, TypeOK

\* Every step keeps the types and the ids in use.
LEMMA BaseStep == Base /\ [Next]_vars => Base'
  <1> SUFFICES ASSUME Base, [Next]_vars PROVE Base'
    OBVIOUS
  <1> USE DEF Base, TypeOK
  <1>1. ASSUME NEW c \in Callers, Call(c) PROVE Base'
    BY <1>1 DEF Call, IdsInUse
  <1>2. ASSUME NEW c \in Callers, Attempt(c) PROVE Base'
    <2>1. PICK m \in Msgs, i \in OwnIds :
            /\ id[m] = None /\ Fresh(i)
            /\ id' = [id EXCEPT ![m] = i]
            /\ own' = own \cup {m}
            /\ cur' = [cur EXCEPT ![c] = m]
            /\ inbox' = Append(inbox, [type |-> "Request", msg |-> m])
      BY <1>2 DEF Attempt
    <2>2. \A d \in Callers : /\ cur'[d] \in own' \cup {None}
                             /\ phase'[d] = "await" => cur'[d] # None
      BY <1>2, <2>1, MsgsAssumption DEF Attempt, IdsInUse
    <2>4. /\ id' \in [Msgs -> Ids \cup {None}] /\ own' \subseteq Msgs
          /\ inbox' \in Seq(Mail) /\ IdsInUse'
      BY <1>2, <2>1, <2>2, NewMessage DEF Attempt, Ids
    <2>3. [kind |-> "none"] \in Result
      BY DEF Result
    <2> QED BY <1>2, <2>1, <2>3, <2>4 DEF Attempt
  <1>3. ASSUME NEW c \in Callers, NEW r \in Result, EndAttempt(c, r) PROVE Base'
    BY <1>3 DEF EndAttempt, IdsInUse
  <1>4. ASSUME NEW c \in Callers, AttemptEnds(c) PROVE Base'
    <2>1. CASE Dropped(c)
      <3>1. cur[c] \in Msgs
        BY <2>1 DEF Dropped, IdsInUse
      <3>2. [kind |-> "dropped", msg |-> cur[c]] \in Result
        BY <3>1 DEF Result
      <3> QED BY <1>3, <2>1, <3>2 DEF Dropped
    <2>2. CASE Replied(c)
      <3>1. cur[c] \in Msgs
        BY <2>2 DEF Replied, IdsInUse
      <3>2. rx[cur[c]] \in Receiver /\ rx[cur[c]].from \in Msgs
        BY <2>2, <3>1, ReceiverTypes DEF Replied
      <3>3. [kind |-> IF rx[cur[c]].invalid THEN "invalid" ELSE "ok",
             msg |-> cur[c], from |-> rx[cur[c]].from] \in Result
        BY <3>1, <3>2 DEF Result
      <3> QED BY <1>3, <2>2, <3>3 DEF Replied
    <2>3. CASE TimedOut(c)
      <3>1. [kind |-> "timeout"] \in Result
        BY DEF Result
      <3> QED BY <1>3, <2>3, <3>1 DEF TimedOut
    <2> QED BY <1>4, <2>1, <2>2, <2>3 DEF AttemptEnds
  <1>5. ASSUME NEW c \in Callers, Cancel(c) PROVE Base'
    BY <1>5 DEF Cancel, IdsInUse
  <1>6. CASE DoSend
    <2>1. PICK m \in Msgs, i \in Ids :
            /\ id[m] = None
            /\ \/ i \in OwnIds /\ Fresh(i) /\ own' = own \cup {m}
               \/ i \in GroundIds /\ own' = own
            /\ id' = [id EXCEPT ![m] = i]
            /\ inbox' = Append(inbox, [type |-> "Request", msg |-> m])
      BY <1>6 DEF DoSend
    <2>2. /\ id' \in [Msgs -> Ids \cup {None}] /\ own' \subseteq Msgs
          /\ inbox' \in Seq(Mail) /\ IdsInUse'
      BY <1>6, <2>1, NewMessage DEF DoSend, calls, IdsInUse
    <2> QED BY <1>6, <2>2 DEF DoSend, calls
  <1>7. ASSUME Deliver(Head(inbox)), NEW t \in {"Ack", "Ant"}, Take(t),
               UNCHANGED <<id, own, wire, calls>>
        PROVE  Base'
    <2>1. requests' \in [Ids -> Msgs \cup {None}] /\ rx' \in [Msgs -> Receiver]
      BY <1>7, TakeFacts, DeliverTypes
    <2>2. inbox' \in Seq(Mail) /\ \A k \in 1..Len(inbox') : id[inbox'[k].msg] \in Ids
      BY <1>7, TakeFacts
    <2> QED BY <1>7, <2>1, <2>2 DEF calls, IdsInUse
  <1>8. CASE Service
    <2>1. CASE HandleRequest
      <3>1. /\ Head(inbox).msg \in Msgs /\ id[Head(inbox).msg] \in Ids
            /\ inbox' \in Seq(Mail) /\ \A k \in 1..Len(inbox') : id[inbox'[k].msg] \in Ids
        BY <2>1, TakeFacts DEF HandleRequest
      <3>2. rx' \in [Msgs -> Receiver]
        BY <2>1, <3>1, ReceiverTypes DEF HandleRequest
      <3>3. requests' \in [Ids -> Msgs \cup {None}] /\ wire' \subseteq Msgs
        BY <2>1, <3>1 DEF HandleRequest
      <3> QED BY <2>1, <3>1, <3>2, <3>3 DEF HandleRequest, calls, IdsInUse
    <2>2. CASE HandleAck
      BY <1>7, <2>2 DEF HandleAck
    <2>3. CASE HandleIgnored
      <3>1. inbox' \in Seq(Mail) /\ \A k \in 1..Len(inbox') : id[inbox'[k].msg] \in Ids
        BY <2>3, TakeFacts DEF HandleIgnored
      <3> QED BY <2>3, <3>1 DEF HandleIgnored, calls, IdsInUse
    <2>4. CASE HandleAnt
      BY <1>7, <2>4 DEF HandleAnt
    <2> QED BY <1>8, <2>1, <2>2, <2>3, <2>4 DEF Service
  <1>9. CASE CollectGarbage
    BY <1>9 DEF CollectGarbage, calls, IdsInUse
  <1>10. ASSUME NEW m \in Msgs, CloseReceiver(m) PROVE Base'
    BY <1>10, ReceiverTypes DEF CloseReceiver, calls, IdsInUse
  <1>11. ASSUME NEW m \in Msgs, Acknowledge(m) PROVE Base'
    <2>1. PICK x \in Mail : x.msg = m /\ inbox' = Append(inbox, x)
      BY <1>11, MailTypes DEF Acknowledge
    <2>2. /\ inbox' \in Seq(Mail)
          /\ \A k \in 1..Len(inbox') : \/ k \in 1..Len(inbox) /\ inbox'[k] = inbox[k]
                                      \/ inbox'[k] = x
      BY <2>1, PutMail
    <2>3. id[m] \in Ids
      BY <1>11 DEF Acknowledge, IdsInUse
    <2>4. \A k \in 1..Len(inbox') : id[inbox'[k].msg] \in Ids
      BY <2>1, <2>2, <2>3 DEF IdsInUse
    <2> QED BY <1>11, <2>2, <2>4 DEF Acknowledge, calls, IdsInUse
  <1>12. CASE UNCHANGED vars
    BY <1>12 DEF vars, calls, IdsInUse
  <1> QED BY <1>1, <1>2, <1>4, <1>5, <1>6, <1>8, <1>9, <1>10, <1>11, <1>12 DEF Next

\* The initial state.
LEMMA BaseInit == Init => Base
  BY ReceiverTypes DEF Init, Base, TypeOK, IdsInUse, Result

\* The types of the service, its mailbox and its callers.
THEOREM CommanderTypes == Spec => []TypeOK
  <1>1. Spec => []Base
    BY BaseInit, BaseStep, PTL DEF Spec
  <1>2. Base => TypeOK
    BY DEF Base
  <1> QED BY <1>1, <1>2, PTL

-----------------------------------------------------------------------------
(* An awaited reply can be delivered.                                       *)

LEMMA OpenStep == Base /\ OpenIsRegistered /\ [Next]_vars => OpenIsRegistered'
  <1> SUFFICES ASSUME Base, OpenIsRegistered, [Next]_vars PROVE OpenIsRegistered'
    OBVIOUS
  <1> USE DEF Base, TypeOK, OpenIsRegistered
  <1>1. ASSUME id' = id, requests' = requests, rx' = rx PROVE OpenIsRegistered'
    BY <1>1
  <1>2. ASSUME NEW m \in Msgs, NEW i, id[m] = None, id' = [id EXCEPT ![m] = i],
               requests' = requests, rx' = rx
        PROVE  OpenIsRegistered'
    BY <1>2, IdsAssumption
  <1>3. ASSUME NEW t, Take(t), Deliver(Head(inbox)), id' = id PROVE OpenIsRegistered'
    <2> DEFINE a == Head(inbox)
               m == requests[id[a.msg]]
    <2>1. id[a.msg] \in Ids
      BY <1>3, TakeFacts
    <2>2. /\ requests' = [requests EXCEPT ![id[a.msg]] = None]
          /\ \A x \in Msgs : rx'[x].st = "open" => x # m /\ rx[x].st = "open"
      BY <1>3 DEF Deliver
    <2>3. ASSUME NEW x \in Msgs, rx'[x].st = "open"
          PROVE  id'[x] \in Ids /\ requests'[id'[x]] = x
      <3>1. id[x] \in Ids /\ requests[id[x]] = x /\ x # m
        BY <2>2, <2>3
      <3>2. id[x] # id[a.msg]
        BY <3>1
      <3> QED BY <1>3, <2>1, <2>2, <3>1, <3>2
    <2> QED BY <2>3
  <1>4. CASE HandleRequest
    <2> DEFINE m == Head(inbox).msg
               old == requests[id[m]]
    <2>1. m \in Msgs /\ id[m] \in Ids
      BY <1>4, TakeFacts DEF HandleRequest
    <2>2. /\ requests' = [requests EXCEPT ![id[m]] = m] /\ id' = id
          /\ \A x \in Msgs : rx'[x].st = "open" => x = m \/ (x # old /\ rx[x].st = "open")
      BY <1>4 DEF HandleRequest
    <2> HIDE DEF m
    <2>3. ASSUME NEW x \in Msgs, rx'[x].st = "open"
          PROVE  id'[x] \in Ids /\ requests'[id'[x]] = x
      <3>1. CASE x = m
        BY <2>1, <2>2, <3>1
      <3>2. CASE x # m
        <4>1. id[x] \in Ids /\ requests[id[x]] = x /\ x # old
          BY <2>2, <2>3, <3>2
        <4>2. id[x] # id[m]
          BY <4>1
        <4> QED BY <2>1, <2>2, <4>1, <4>2
      <3> QED BY <3>1, <3>2
    <2> QED BY <2>3
  <1>5. CASE CollectGarbage
    BY <1>5 DEF CollectGarbage
  <1>6. ASSUME NEW m \in Msgs, CloseReceiver(m) PROVE OpenIsRegistered'
    BY <1>6 DEF CloseReceiver
  <1>7. CASE \E c \in Callers : Call(c) \/ Cancel(c) \/ AttemptEnds(c)
    BY <1>1, <1>7 DEF Call, Cancel, AttemptEnds, Replied, Dropped, TimedOut, EndAttempt
  <1>8. CASE \E c \in Callers : Attempt(c)
    BY <1>2, <1>8 DEF Attempt
  <1>9. CASE DoSend
    BY <1>2, <1>9 DEF DoSend
  <1>10. CASE HandleAck \/ HandleAnt
    BY <1>3, <1>10 DEF HandleAck, HandleAnt
  <1>11. CASE HandleIgnored \/ (\E m \in Msgs : Acknowledge(m)) \/ UNCHANGED vars
    BY <1>1, <1>11 DEF HandleIgnored, Acknowledge, vars
  <1> QED BY <1>4, <1>5, <1>6, <1>7, <1>8, <1>9, <1>10, <1>11 DEF Next, Service

\* The types are kept, and the sender of every receiver that is still open is
\* registered under its message's id, even if the ground reuses ids: no reply that
\* somebody awaits is lost inside the Commander.
THEOREM AwaitedIsRegistered == Spec => []RegistryInv
  <1>1. Init => OpenIsRegistered
    BY DEF Init, OpenIsRegistered
  <1>2. Spec => []OpenIsRegistered
    BY <1>1, BaseInit, BaseStep, OpenStep, PTL DEF Spec
  <1>3. TypeOK /\ OpenIsRegistered => RegistryInv
    BY DEF RegistryInv
  <1> QED BY <1>2, <1>3, CommanderTypes, PTL

-----------------------------------------------------------------------------
(* Replies reach the right caller.                                          *)

Matched == Base /\ RepliesMatch /\ RightReply /\ NeverDropped

\* A message of the frontend's own shares its id with no other transmission, but
\* one of the ground's.
LEMMA OwnIdIsUnique ==
    ASSUME Base, NEW m \in own, Unclashed(m), NEW n \in Msgs, id[n] = id[m]
    PROVE  n = m
  BY DEF Base, IdsInUse, Unclashed

\* The frontend's own messages keep their ids, and a message whose id the ground
\* has used stays one of that kind.
LEMMA IdsKept ==
    ASSUME Base, [Next]_vars
    PROVE  \A m \in own : m \in own' /\ id'[m] = id[m] /\ (Unclashed(m)' => Unclashed(m))
  <1> USE DEF Base, TypeOK
  <1>1. ASSUME id' = id, own' = own PROVE \A m \in own : m \in own' /\ id'[m] = id[m] /\ (Unclashed(m)' => Unclashed(m))
    BY <1>1 DEF Unclashed
  <1>2. ASSUME NEW n \in Msgs, NEW i \in Ids, id[n] = None, id' = [id EXCEPT ![n] = i],
               own' = own \/ own' = own \cup {n}
        PROVE  \A m \in own : m \in own' /\ id'[m] = id[m] /\ (Unclashed(m)' => Unclashed(m))
    <2> SUFFICES ASSUME NEW m \in own
                 PROVE  m \in own' /\ id'[m] = id[m] /\ (Unclashed(m)' => Unclashed(m))
      OBVIOUS
    <2>1. id[m] # None /\ n \notin own
      BY <1>2, IdsAssumption DEF IdsInUse, Ids
    <2>2. m \in own' /\ id'[m] = id[m] /\ \A x \in Msgs : x # n => id'[x] = id[x]
      BY <1>2, <2>1
    <2>3. ASSUME Unclashed(m)', NEW x \in Msgs \ own PROVE id[x] # id[m]
      <3>1. CASE x = n
        BY <1>2, <2>1, <3>1
      <3>2. CASE x # n
        BY <1>2, <2>2, <2>3, <3>2 DEF Unclashed
      <3> QED BY <3>1, <3>2
    <2> QED BY <2>2, <2>3 DEF Unclashed
  <1>3. CASE \E c \in Callers : Attempt(c)
    BY <1>2, <1>3 DEF Attempt, Ids
  <1>4. CASE DoSend
    BY <1>2, <1>4 DEF DoSend
  <1>5. CASE \E c \in Callers : Call(c) \/ Cancel(c) \/ AttemptEnds(c)
    BY <1>1, <1>5 DEF Call, Cancel, AttemptEnds, Replied, Dropped, TimedOut, EndAttempt
  <1>6. CASE Service
    BY <1>1, <1>6 DEF Service, HandleRequest, HandleAck, HandleIgnored, HandleAnt
  <1>7. CASE CollectGarbage \/ (\E m \in Msgs : CloseReceiver(m) \/ Acknowledge(m)) \/ UNCHANGED vars
    BY <1>1, <1>7 DEF CollectGarbage, CloseReceiver, Acknowledge, vars
  <1> QED BY <1>3, <1>4, <1>5, <1>6, <1>7 DEF Next

\* Every step keeps replies with the caller they belong to.
LEMMA MatchStep ==
    ASSUME Matched, [Next]_vars
    PROVE  RepliesMatch' /\ RightReply' /\ NeverDropped'
  <1> USE DEF Matched
  <1>0. Base /\ Base'
    BY BaseStep
  <1>1. ASSUME id' = id, own' = own, requests' = requests, rx' = rx PROVE RepliesMatch'
    BY <1>1 DEF RepliesMatch, Unclashed
  <1>16. \A m \in own : m \in own' /\ id'[m] = id[m] /\ (Unclashed(m)' => Unclashed(m))
    BY <1>0, IdsKept
  <1>2. ASSUME result' = result PROVE RightReply' /\ NeverDropped'
    BY <1>2, <1>16 DEF RightReply, NeverDropped
  <1>3. ASSUME NEW m \in Msgs, NEW i \in Ids, id[m] = None, id' = [id EXCEPT ![m] = i],
               own' = own \/ own' = own \cup {m}, requests' = requests, rx' = rx
        PROVE  RepliesMatch'
    <2>1. id'[m] = i /\ i # None /\ \A n \in Msgs : n # m => id'[n] = id[n]
      BY <1>0, <1>3, IdsAssumption DEF Base, TypeOK
    <2>2. \A j \in Ids : requests[j] # None => requests[j] \in Msgs /\ requests[j] # m
      BY <1>0, <1>3, IdsAssumption DEF Base, TypeOK, RepliesMatch
    <2>3. rx[m].st = "none"
      BY <1>3 DEF RepliesMatch
    <2>4. \A x \in own' : Unclashed(x)' =>
            rx'[x].st # "dropped" /\ (rx'[x].st = "reply" => rx'[x].from = x)
      BY <1>3, <1>16, <2>3 DEF RepliesMatch
    <2> QED BY <1>3, <2>1, <2>2, <2>3, <2>4 DEF RepliesMatch
  <1>4. ASSUME NEW t, Take(t), Deliver(Head(inbox)), id' = id, own' = own PROVE RepliesMatch'
    <2> DEFINE a == Head(inbox)
               m == requests[id[a.msg]]
    <2>1. a.msg \in Msgs /\ id[a.msg] \in Ids
      BY <1>0, <1>4, TakeFacts
    <2>2. /\ requests' = [requests EXCEPT ![id[a.msg]] = None]
          /\ \A x \in Msgs : rx'[x] = IF x = m /\ rx[x].st = "open"
                                      THEN [st |-> "reply", from |-> a.msg,
                                            invalid |-> a.invalid]
                                      ELSE rx[x]
      BY <1>4 DEF Deliver
    <2>3. m # None => id[m] = id[a.msg]
      BY <2>1 DEF RepliesMatch
    <2>4. ASSUME NEW x \in own, Unclashed(x)
          PROVE  rx'[x].st # "dropped" /\ (rx'[x].st = "reply" => rx'[x].from = x)
      <3>1. x \in Msgs /\ x # None
        BY <1>0, MsgsAssumption DEF Base, TypeOK
      <3>2. CASE x = m
        <4>1. a.msg = x
          BY <1>0, <2>1, <2>3, <2>4, <3>1, <3>2, OwnIdIsUnique
        <4> QED BY <2>2, <2>4, <3>1, <4>1 DEF RepliesMatch
      <3>3. CASE x # m
        BY <2>2, <2>4, <3>1, <3>3 DEF RepliesMatch
      <3> QED BY <3>2, <3>3
    <2>5. \A j \in Ids : requests'[j] # None => requests'[j] = requests[j]
      BY <1>0, <2>1, <2>2 DEF Base, TypeOK
    <2>6. \A x \in Msgs : id[x] = None => rx'[x].st = "none"
      BY <2>2 DEF RepliesMatch
    <2> QED BY <1>4, <2>4, <2>5, <2>6, <1>16 DEF RepliesMatch
  <1>5. CASE HandleRequest
    <2> DEFINE m == Head(inbox).msg
               old == requests[id[m]]
    <2>1. m \in Msgs /\ id[m] \in Ids
      BY <1>0, <1>5, TakeFacts DEF HandleRequest
    <2>2. /\ requests' = [requests EXCEPT ![id[m]] = m] /\ id' = id /\ own' = own
          /\ \A x \in Msgs : rx'[x] = IF x = m THEN [st |-> "open"]
                                      ELSE IF x = old /\ rx[x].st = "open"
                                      THEN [st |-> "dropped"] ELSE rx[x]
      BY <1>5 DEF HandleRequest
    <2> HIDE DEF m
    <2>3. ASSUME NEW x \in own, Unclashed(x)
          PROVE  rx'[x].st # "dropped" /\ (rx'[x].st = "reply" => rx'[x].from = x)
      <3>1. x \in Msgs /\ x # None
        BY <1>0, MsgsAssumption DEF Base, TypeOK
      <3>2. x = old => x = m
        <4>1. old # None => id[old] = id[m]
          BY <2>1 DEF RepliesMatch
        <4> QED BY <1>0, <2>1, <2>3, <3>1, <4>1, OwnIdIsUnique
      <3> QED BY <2>2, <2>3, <3>1, <3>2 DEF RepliesMatch
    <2>4. \A j \in Ids : requests'[j] # None => id[requests'[j]] = j
      BY <1>0, <2>1, <2>2 DEF RepliesMatch, Base, TypeOK
    <2>5. \A x \in Msgs : id[x] = None => rx'[x].st = "none"
      <3>1. \A x \in Msgs : id[x] = None => x # m /\ rx[x].st = "none"
        BY <2>1, IdsAssumption DEF RepliesMatch
      <3> QED BY <2>2, <3>1
    <2>6. RepliesMatch'
      BY <2>2, <2>3, <2>4, <2>5, <1>16 DEF RepliesMatch
    <2> QED BY <1>2, <1>5, <2>6 DEF HandleRequest, calls
  <1>6. CASE CollectGarbage
    <2>1. RepliesMatch'
      BY <1>6, <1>16 DEF CollectGarbage, RepliesMatch
    <2> QED BY <1>2, <1>6, <2>1 DEF CollectGarbage, calls
  <1>7. ASSUME NEW m \in Msgs, CloseReceiver(m) PROVE RepliesMatch'
    BY <1>0, <1>7, <1>16 DEF CloseReceiver, RepliesMatch, Base, TypeOK
  <1>8. ASSUME NEW c \in Callers, AttemptEnds(c) PROVE RightReply' /\ NeverDropped'
    <2> USE <1>0 DEF Base, TypeOK
    <2>1. cur[c] \in own
      BY <1>8 DEF AttemptEnds, Replied, Dropped, TimedOut, IdsInUse
    <2>2. CASE Dropped(c)
      <3> PICK x \in own : x = cur[c]
        BY <2>1
      <3> DEFINE r == [kind |-> "dropped", msg |-> x]
      <3>1. r.kind = "dropped" /\ r.msg = x /\ ~Unclashed(x)
        BY <2>2 DEF Dropped, RepliesMatch
      <3>2. result' = [result EXCEPT ![c] = r] /\ own' = own /\ id' = id
        BY <2>2 DEF Dropped, EndAttempt
      <3>3. x \in own' /\ ~Unclashed(x)'
        BY <3>1, <1>16
      <3> HIDE DEF r
      <3> QED BY <3>1, <3>2, <3>3, <1>16 DEF RightReply, NeverDropped
    <2>3. CASE Replied(c)
      <3> DEFINE r == [kind |-> IF rx[cur[c]].invalid THEN "invalid" ELSE "ok",
                       msg |-> cur[c], from |-> rx[cur[c]].from]
      <3>1. r.kind # "dropped" /\ r.msg \in own /\ (Unclashed(r.msg) => r.from = r.msg)
        BY <2>1, <2>3 DEF Replied, RepliesMatch
      <3>2. result' = [result EXCEPT ![c] = r] /\ own' = own
        BY <2>3 DEF Replied, EndAttempt
      <3> HIDE DEF r
      <3> QED BY <3>1, <3>2, <1>16 DEF RightReply, NeverDropped
    <2>4. CASE TimedOut(c)
      BY <2>4, <1>16 DEF TimedOut, EndAttempt, RightReply, NeverDropped
    <2> QED BY <1>8, <2>2, <2>3, <2>4 DEF AttemptEnds
  <1>9. ASSUME NEW c \in Callers, Attempt(c) PROVE RepliesMatch' /\ RightReply' /\ NeverDropped'
    <2>1. RepliesMatch'
      <3>1. PICK m \in Msgs, i \in OwnIds :
              id[m] = None /\ id' = [id EXCEPT ![m] = i] /\ own' = own \cup {m}
        BY <1>9 DEF Attempt
      <3> QED BY <1>3, <1>9, <3>1 DEF Attempt, Ids
    <2>2. result' = [result EXCEPT ![c] = [kind |-> "none"]] /\ own \subseteq own'
      BY <1>9 DEF Attempt
    <2>3. RightReply' /\ NeverDropped'
      BY <1>0, <1>16, <2>2 DEF RightReply, NeverDropped, Base, TypeOK
    <2> QED BY <2>1, <2>3
  <1>10. CASE DoSend
    <2>1. PICK m \in Msgs, i \in Ids :
            /\ id[m] = None /\ id' = [id EXCEPT ![m] = i]
            /\ own' = own \/ own' = own \cup {m}
      BY <1>10 DEF DoSend
    <2>2. RepliesMatch'
      BY <1>3, <1>10, <2>1 DEF DoSend
    <2> QED BY <1>2, <1>10, <2>1, <2>2 DEF DoSend, calls
  <1>11. CASE HandleAck \/ HandleAnt
    BY <1>2, <1>4, <1>11 DEF HandleAck, HandleAnt, calls
  <1>12. CASE HandleIgnored \/ (\E m \in Msgs : Acknowledge(m)) \/ UNCHANGED vars
    BY <1>1, <1>2, <1>12 DEF HandleIgnored, Acknowledge, vars, calls
  <1>13. CASE \E c \in Callers : Call(c) \/ Cancel(c)
    BY <1>1, <1>2, <1>13 DEF Call, Cancel
  <1>14. ASSUME NEW c \in Callers, AttemptEnds(c) PROVE RepliesMatch'
    BY <1>1, <1>14 DEF AttemptEnds, Replied, Dropped, TimedOut, EndAttempt
  <1>15. ASSUME NEW m \in Msgs, CloseReceiver(m) PROVE RightReply' /\ NeverDropped'
    BY <1>2, <1>15 DEF CloseReceiver, calls
  <1> QED BY <1>5, <1>6, <1>7, <1>8, <1>9, <1>10, <1>11, <1>12, <1>13, <1>14, <1>15
          DEF Next, Service

\* Every answered caller got the acknowledgement of its own latest attempt and no
\* caller's request was dropped, whatever comes late, twice or not at all, unless
\* the ground has used the same id.
THEOREM RepliesAreRight == Spec => [](RightReply /\ NeverDropped)
  <1>1. Init => Matched
    BY BaseInit DEF Init, Matched, RepliesMatch, RightReply, NeverDropped
  <1>2. Matched /\ [Next]_vars => Matched'
    BY BaseStep, MatchStep DEF Matched
  <1>3. Matched => RightReply /\ NeverDropped
    BY DEF Matched
  <1> QED BY <1>1, <1>2, <1>3, PTL DEF Spec

-----------------------------------------------------------------------------
(* No receiver is written twice.                                            *)

\* A request queued for a transmission that had no id yet.
LEMMA QueueNew ==
    ASSUME Base, QueuedOnce, NEW m \in Msgs, NEW i \in Ids, id[m] = None,
           id' = [id EXCEPT ![m] = i],
           inbox' = Append(inbox, [type |-> "Request", msg |-> m]), rx' = rx
    PROVE  QueuedOnce'
  <1> DEFINE r == [type |-> "Request", msg |-> m]
  <1>1. inbox \in Seq(Mail) /\ r.msg = m /\ r.type = "Request"
    BY DEF Base, TypeOK
  <1>2. \A k \in 1..Len(inbox) : inbox[k].msg # m
    BY IdsAssumption DEF Base, IdsInUse
  <1>3. rx[m].st = "none"
    BY DEF QueuedOnce
  <1>4. \A n \in Msgs : id'[n] = None => id[n] = None
    BY IdsAssumption DEF Base, TypeOK
  <1> HIDE DEF r
  <1>5. Len(inbox') = Len(inbox) + 1 /\ inbox'[Len(inbox) + 1] = r
        /\ \A k \in 1..Len(inbox) : inbox'[k] = inbox[k]
    BY <1>1 DEF r
  <1>6. \A k \in 1..Len(inbox') : k \in 1..Len(inbox) \/ (k = Len(inbox) + 1 /\ inbox'[k] = r)
    BY <1>1, <1>5
  <1> QED BY <1>1, <1>2, <1>3, <1>4, <1>5, <1>6 DEF QueuedOnce

\* Taking mail from the mailbox when receivers change only where somebody
\* listened, or for the request that was taken.
LEMMA TakeQueued ==
    ASSUME Base, QueuedOnce, NEW t, Take(t), id' = id,
           \A m \in Msgs : rx'[m].st # "none" =>
               rx[m].st # "none" \/ (t = "Request" /\ m = Head(inbox).msg)
    PROVE  QueuedOnce'
  <1>1. inbox \in Seq(Mail) /\ inbox # <<>> /\ inbox' = Tail(inbox) /\ Head(inbox).type = t
    BY DEF Base, TypeOK, Take
  <1>2. /\ Len(inbox) \in Nat /\ Head(inbox) = inbox[1] /\ 1 \in 1..Len(inbox)
        /\ \A k \in 1..Len(inbox') : k \in Nat /\ k + 1 # 1 /\ k + 1 \in 1..Len(inbox) /\ inbox'[k] = inbox[k + 1]
    BY <1>1, TakeMail
  <1>3. \A k \in 1..Len(inbox) : inbox[k].msg \in Msgs
    BY <1>1, MailTypes
  <1>4. ASSUME NEW k \in 1..Len(inbox'), inbox'[k].type = "Request"
        PROVE  rx'[inbox'[k].msg].st = "none"
    <2>1. rx[inbox[k + 1].msg].st = "none" /\ inbox[k + 1].msg \in Msgs
      BY <1>2, <1>3, <1>4 DEF QueuedOnce
    <2>2. t = "Request" => inbox[k + 1].msg # Head(inbox).msg
      BY <1>1, <1>2, <1>4 DEF QueuedOnce
    <2> QED BY <1>2, <2>1, <2>2
  <1>5. \A m \in Msgs : id'[m] = None => rx'[m].st = "none"
    <2>1. id[Head(inbox).msg] # None
      BY TakeFacts, IdsAssumption
    <2> QED BY <2>1 DEF QueuedOnce
  <1>6. ASSUME NEW j \in 1..Len(inbox'), NEW k \in 1..Len(inbox'),
               inbox'[j].type = "Request", inbox'[k].type = "Request",
               inbox'[j].msg = inbox'[k].msg
        PROVE  j = k
    <2>1. j + 1 = k + 1
      BY <1>2, <1>6 DEF QueuedOnce
    <2> QED BY <1>2, <2>1
  <1> QED BY <1>4, <1>5, <1>6 DEF QueuedOnce

\* Every step keeps queued requests unhandled.
LEMMA QueuedStep == Base /\ QueuedOnce /\ [Next]_vars => QueuedOnce'
  <1> SUFFICES ASSUME Base, QueuedOnce, [Next]_vars PROVE QueuedOnce'
    OBVIOUS
  <1>1. ASSUME id' = id, inbox' = inbox, rx' = rx PROVE QueuedOnce'
    BY <1>1 DEF QueuedOnce
  <1>2. ASSUME NEW t, Take(t), Deliver(Head(inbox)), t # "Request", id' = id PROVE QueuedOnce'
    BY <1>2, TakeQueued DEF Deliver
  <1>3. CASE HandleRequest
    BY <1>3, TakeQueued DEF HandleRequest
  <1>4. CASE HandleAck \/ HandleAnt
    BY <1>2, <1>4 DEF HandleAck, HandleAnt
  <1>5. CASE HandleIgnored
    BY <1>5, TakeQueued DEF HandleIgnored
  <1>6. CASE \E c \in Callers : Attempt(c)
    BY <1>6, QueueNew DEF Attempt, Ids
  <1>7. CASE DoSend
    BY <1>7, QueueNew DEF DoSend
  <1>8. CASE \E c \in Callers : Call(c) \/ Cancel(c) \/ AttemptEnds(c)
    BY <1>1, <1>8 DEF Call, Cancel, AttemptEnds, Replied, Dropped, TimedOut, EndAttempt
  <1>9. CASE CollectGarbage
    BY <1>1, <1>9 DEF CollectGarbage
  <1>10. ASSUME NEW m \in Msgs, CloseReceiver(m) PROVE QueuedOnce'
    <2>1. /\ id' = id /\ inbox' = inbox /\ rx[m].st = "open"
          /\ \A n \in Msgs : n # m => rx'[n] = rx[n]
      BY <1>10 DEF CloseReceiver, Base, TypeOK
    <2>2. \A k \in 1..Len(inbox) : inbox[k].msg \in Msgs
      BY MailTypes DEF Base, TypeOK
    <2> QED BY <2>1, <2>2 DEF QueuedOnce
  <1>11. ASSUME NEW m \in Msgs, Acknowledge(m) PROVE QueuedOnce'
    <2>1. PICK x \in Mail : x.type # "Request" /\ inbox' = Append(inbox, x)
      BY <1>11, MailTypes DEF Acknowledge
    <2>2. inbox \in Seq(Mail) /\ id' = id /\ rx' = rx
      BY <1>11 DEF Acknowledge, Base, TypeOK
    <2>3. \A k \in 1..Len(inbox') : inbox'[k].type = "Request" =>
             k \in 1..Len(inbox) /\ inbox'[k] = inbox[k]
      BY <2>1, <2>2, PutMail
    <2> QED BY <2>2, <2>3 DEF QueuedOnce
  <1>12. CASE UNCHANGED vars
    BY <1>1, <1>12 DEF vars
  <1> QED BY <1>3, <1>4, <1>5, <1>6, <1>7, <1>8, <1>9, <1>10, <1>11, <1>12 DEF Next, Service

\* Once a receiver has its reply, was deserted or was closed it is left alone,
\* however often its message is acknowledged and whoever reuses its id.
THEOREM RepliesAreFinal == Spec => ReplyIsFinal
  <1> DEFINE Final == \A m \in Msgs : rx[m].st \in {"reply", "dropped", "closed"} => rx'[m] = rx[m]
  <1>1. Init => QueuedOnce
    BY DEF Init, QueuedOnce
  <1>2. ASSUME Base, QueuedOnce, [Next]_vars PROVE Final
    <2>1. ASSUME rx' = rx PROVE Final
      BY <2>1
    <2>2. ASSUME NEW a, Deliver(a) PROVE Final
      BY <2>2 DEF Deliver
    <2>3. CASE HandleRequest
      <3>1. inbox \in Seq(Mail) /\ inbox # <<>> /\ Head(inbox).type = "Request"
        BY <1>2, <2>3 DEF HandleRequest, Take, Base, TypeOK
      <3>2. Head(inbox) = inbox[1] /\ 1 \in 1..Len(inbox)
        BY <3>1, TakeMail
      <3>3. rx[Head(inbox).msg].st = "none"
        BY <1>2, <3>1, <3>2 DEF QueuedOnce
      <3> QED BY <2>3, <3>3 DEF HandleRequest
    <2>4. CASE \E m \in Msgs : CloseReceiver(m)
      BY <1>2, <2>4 DEF CloseReceiver, Base, TypeOK
    <2>5. CASE HandleAck \/ HandleAnt
      BY <2>2, <2>5 DEF HandleAck, HandleAnt
    <2>6. CASE HandleIgnored \/ CollectGarbage \/ DoSend \/ (\E m \in Msgs : Acknowledge(m))
      BY <2>1, <2>6 DEF HandleIgnored, CollectGarbage, DoSend, Acknowledge
    <2>7. CASE \E c \in Callers : Call(c) \/ Attempt(c) \/ AttemptEnds(c) \/ Cancel(c)
      BY <2>1, <2>7 DEF Call, Attempt, AttemptEnds, Replied, Dropped, TimedOut, EndAttempt, Cancel
    <2>8. CASE UNCHANGED vars
      BY <2>1, <2>8 DEF vars
    <2> QED BY <1>2, <2>3, <2>4, <2>5, <2>6, <2>7, <2>8 DEF Next, Service
  <1>3. Base /\ QueuedOnce /\ [Next]_vars => [Final]_vars
    BY <1>2
  <1> QED BY <1>1, <1>3, BaseInit, BaseStep, QueuedStep, PTL DEF Spec, ReplyIsFinal

=============================================================================
