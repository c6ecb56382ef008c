------------------------- MODULE StateMachineProofs -------------------------
(***************************************************************************)
(* Proofs about StateMachine: the inductive invariant, and with it every   *)
(* safety property of the actor for any number of handles, any mailbox     *)
(* length and any retry count.                                             *)
(***************************************************************************)
EXTENDS StateMachine, TLAPS

-----------------------------------------------------------------------------
(* Sequences: what taking from and appending to the mailbox does.          *)

\* The head and the tail of a mailbox that is not empty.
LEMMA TakeMessage ==
    ASSUME NEW S, NEW s \in Seq(S), s # <<>>
    PROVE  /\ Len(s) \in Nat /\ Len(s) >= 1
           /\ Head(s) = s[1] /\ Head(s) \in S
           /\ Tail(s) \in Seq(S)
           /\ Len(Tail(s)) = Len(s) - 1
           /\ \A i \in 1..Len(Tail(s)) : i + 1 \in 1..Len(s) /\ Tail(s)[i] = s[i+1]
  OBVIOUS

\* A message appended to a mailbox.
LEMMA PutMessage ==
    ASSUME NEW S, NEW s \in Seq(S), NEW m \in S
    PROVE  /\ Append(s, m) \in Seq(S)
           /\ Len(s) \in Nat
           /\ Len(Append(s, m)) = Len(s) + 1
           /\ \A i \in 1..Len(s) : Append(s, m)[i] = s[i]
           /\ Append(s, m)[Len(s) + 1] = m
  OBVIOUS

-----------------------------------------------------------------------------
(* The running task.                                                        *)

\* The part of the invariant that step has to re-establish.
Core ==
    /\ state \in States
    /\ running \in Handles \cup {NoTask}
    /\ pending \in {"none", "FERoverStop"}
    /\ tasks \in [Handles -> Task]
    /\ wait \in Waits
    /\ rover \in RoverEvents \cup {"none"}
    /\ ble \in BLEEvents \cup {"none"}
    /\ SingleTask
    /\ TaskFitsState
    /\ LinkTracked
    /\ RunsOnlyWhenStopped
    /\ DeferredUntilReady

\* The invariant contains Core.
LEMMA InvCore == Inv => Core
  BY DEF Inv, Core, TypeOK

\* Timers and retries are tasks.
LEMMA TaskTypes ==
    /\ Idle \in Task
    /\ \A k \in TimerKinds : Timer(k) \in Task /\ Timer(k).kind = k
    /\ \A k \in SendKinds : Retry(k) \in Task /\ Retry(k).kind = k
  BY DEF Idle, Task, Timer, Retry, TimerKinds, SendKinds

\* A replaced task is gone and the new one is the only one alive.
LEMMA ReplaceTaskFacts ==
    ASSUME tasks \in [Handles -> Task], SingleTask,
           NEW t \in Task, ReplaceTask(t)
    PROVE  /\ running' \in Handles
           /\ tasks' \in [Handles -> Task]
           /\ SingleTask'
           /\ tasks'[running'] = t
           /\ \A k : k # "none" => (Running(k)' => k = t.kind)
  <1>1. PICK h \in Handles :
            /\ h # running /\ ~Live(h) /\ running' = h
            /\ tasks' = [x \in Handles |-> IF x = h THEN t
                                           ELSE IF x = running THEN Idle
                                           ELSE tasks[x]]
    BY DEF ReplaceTask
  <1>2. \A x \in Handles : x # h => tasks'[x].kind = "none"
    BY <1>1 DEF SingleTask, Live, Idle
  <1>3. tasks'[h] = t /\ tasks' \in [Handles -> Task]
    BY <1>1, TaskTypes
  <1> QED BY <1>1, <1>2, <1>3 DEF SingleTask, Live, Running

\* After a cancellation nothing is alive.
LEMMA CancelTaskFacts ==
    ASSUME tasks \in [Handles -> Task], SingleTask, CancelTask
    PROVE  /\ running' = NoTask
           /\ tasks' \in [Handles -> Task]
           /\ SingleTask'
           /\ \A k : k # "none" => ~Running(k)'
  <1>1. \A x \in Handles : tasks'[x].kind = "none"
    BY DEF CancelTask, SingleTask, Live, Idle
  <1>2. tasks' \in [Handles -> Task]
    BY TaskTypes DEF CancelTask
  <1> QED BY <1>1, <1>2 DEF CancelTask, SingleTask, Live, Running

\* A kept task is the same task.
LEMMA KeepTaskFacts ==
    ASSUME KeepTask
    PROVE  /\ running' = running /\ tasks' = tasks
           /\ SingleTask' = SingleTask
           /\ \A k : Running(k)' = Running(k)
  BY DEF KeepTask, SingleTask, Live, Running

-----------------------------------------------------------------------------
(* step: every arm re-establishes the core invariant.                       *)

LEMMA StepPreservesCore ==
    ASSUME Core, wait = "none", NEW e, Step(e), Note(e)
    PROVE  Core'
  <1> USE DEF Core, Note, RoverEvents, BLEEvents, States, Waits
  <1>1. CASE e = "FEPowerSupplied" /\ StepPowerSupplied
    <2>1. CASE state = "PingCentralStation"
      BY <1>1, <2>1, KeepTaskFacts DEF StepPowerSupplied, TaskFitsState,
         LinkTracked, RunsOnlyWhenStopped, DeferredUntilReady
    <2>2. CASE state # "PingCentralStation"
      <3>1. ReplaceTask(Timer("Pings")) /\ Timer("Pings") \in Task
              /\ Timer("Pings").kind = "Pings"
        BY <1>1, <2>2, TaskTypes DEF StepPowerSupplied, TimerKinds
      <3> QED BY <1>1, <2>2, <3>1, ReplaceTaskFacts DEF StepPowerSupplied,
         TaskFitsState, LinkTracked, RunsOnlyWhenStopped, DeferredUntilReady
    <2> QED BY <2>1, <2>2
  <1>2. CASE e = "FEGarageOpen" /\ StepGarageOpen
    <2>1. CASE state = "GarageOpen"
      BY <1>2, <2>1, KeepTaskFacts DEF StepGarageOpen, TaskFitsState,
         LinkTracked, RunsOnlyWhenStopped, DeferredUntilReady
    <2>2. CASE state # "GarageOpen"
      <3>1. ReplaceTask(Retry("GarageOpen")) /\ Retry("GarageOpen") \in Task
              /\ Retry("GarageOpen").kind = "GarageOpen"
        BY <1>2, <2>2, TaskTypes DEF StepGarageOpen, SendKinds
      <3> QED BY <1>2, <2>2, <3>1, ReplaceTaskFacts DEF StepGarageOpen,
         TaskFitsState, LinkTracked, RunsOnlyWhenStopped, DeferredUntilReady
    <2> QED BY <2>1, <2>2
  <1>3. CASE e = "CSBLEDisconnect" /\ StepBLEDisconnect
    BY <1>3, CancelTaskFacts DEF StepBLEDisconnect, TaskFitsState,
       LinkTracked, RunsOnlyWhenStopped, DeferredUntilReady
  <1>4. CASE e = "CSBLEConnect" /\ StepBLEConnect
    <2>1. CASE state = "BLEConnected"
      BY <1>4, <2>1, KeepTaskFacts DEF StepBLEConnect, TaskFitsState,
         LinkTracked, RunsOnlyWhenStopped, DeferredUntilReady
    <2>2. CASE state # "BLEConnected"
      <3>1. ReplaceTask(Timer("ReadyTimer")) /\ Timer("ReadyTimer") \in Task
              /\ Timer("ReadyTimer").kind = "ReadyTimer"
        BY <1>4, <2>2, TaskTypes DEF StepBLEConnect, TimerKinds
      <3> QED BY <1>4, <2>2, <3>1, ReplaceTaskFacts DEF StepBLEConnect,
         TaskFitsState, LinkTracked, RunsOnlyWhenStopped, DeferredUntilReady
    <2> QED BY <2>1, <2>2
  <1>5. CASE e = "FERoverStop" /\ StepRoverStop
    <2>1. CASE state = "AntReady"
      <3>1. ReplaceTask(Timer("StartTimer")) /\ Timer("StartTimer") \in Task
              /\ Timer("StartTimer").kind = "StartTimer"
        BY <1>5, <2>1, TaskTypes DEF StepRoverStop, TimerKinds
      <3> QED BY <1>5, <2>1, <3>1, ReplaceTaskFacts DEF StepRoverStop,
         TaskFitsState, LinkTracked, RunsOnlyWhenStopped, DeferredUntilReady
    <2>2. CASE state # "AntReady"
      BY <1>5, <2>2, KeepTaskFacts DEF StepRoverStop, TaskFitsState,
         LinkTracked, RunsOnlyWhenStopped, DeferredUntilReady
    <2> QED BY <2>1, <2>2
  <1>6. CASE e = "FERoverMove" /\ StepRoverMove
    <2>1. CASE state = "AntRun"
      <3>1. ReplaceTask(Retry("AntStop")) /\ Retry("AntStop") \in Task
              /\ Retry("AntStop").kind = "AntStop"
        BY <1>6, <2>1, TaskTypes DEF StepRoverMove, SendKinds
      <3> QED BY <1>6, <2>1, <3>1, ReplaceTaskFacts DEF StepRoverMove,
         TaskFitsState, LinkTracked, RunsOnlyWhenStopped, DeferredUntilReady
    <2>2. CASE state # "AntRun"
      BY <1>6, <2>2, KeepTaskFacts DEF StepRoverMove, TaskFitsState,
         LinkTracked, RunsOnlyWhenStopped, DeferredUntilReady
    <2> QED BY <2>1, <2>2
  <1>7. CASE \/ e = "DebugCSPing" /\ StepPing("CSPing")
             \/ e = "AntPing" /\ StepPing("AntPing")
    BY <1>7, KeepTaskFacts DEF StepPing, TaskFitsState,
       LinkTracked, RunsOnlyWhenStopped, DeferredUntilReady
  <1>8. CASE e \notin StepEvents /\ StepOther
    BY <1>8, KeepTaskFacts DEF StepEvents, StepOther, TaskFitsState,
       LinkTracked, RunsOnlyWhenStopped, DeferredUntilReady
  <1> QED BY <1>1, <1>2, <1>3, <1>4, <1>5, <1>6, <1>7, <1>8 DEF Step

-----------------------------------------------------------------------------
(* The invariant.                                                           *)

\* Taking a message leaves no replay behind: a replay is at the head.
LEMMA TakeLeavesNoReplay ==
    ASSUME Inv, NEW src, Take(src)
    PROVE  /\ Head(mbox) \in Messages
           /\ mbox' \in Seq(Messages)
           /\ \A i \in 1..Len(mbox') : mbox'[i].src # "EventWrap"
           /\ Head(mbox).src = "EventWrap" =>
                state = "AntReady" /\ rover = "FERoverStop" /\ Head(mbox).event = "FERoverStop"
  <1>1. mbox \in Seq(Messages) /\ mbox # <<>> /\ mbox' = Tail(mbox)
    BY DEF Inv, TypeOK, Take
  <1>2. /\ Len(mbox) \in Nat /\ Len(mbox) >= 1
        /\ Head(mbox) = mbox[1] /\ Head(mbox) \in Messages
        /\ mbox' \in Seq(Messages)
        /\ \A i \in 1..Len(mbox') : i + 1 \in 1..Len(mbox) /\ mbox'[i] = mbox[i+1]
    BY <1>1, TakeMessage
  <1>3. ReplayIsNext
    BY DEF Inv
  <1>4. ASSUME NEW i \in 1..Len(mbox') PROVE mbox'[i].src # "EventWrap"
    <2>1. i + 1 \in 1..Len(mbox) /\ mbox'[i] = mbox[i+1] /\ i + 1 # 1
      BY <1>2
    <2> QED BY <1>3, <2>1 DEF ReplayIsNext
  <1>5. Head(mbox).src = "EventWrap" =>
          state = "AntReady" /\ rover = "FERoverStop" /\ Head(mbox).event = "FERoverStop"
    BY <1>2, <1>3 DEF ReplayIsNext
  <1> QED BY <1>2, <1>4, <1>5

\* What an action that leaves the mailbox and what it is compared with alone
\* preserves.
LEMMA SameReplay ==
    ASSUME ReplayIsNext, mbox' = mbox, state' = state, rover' = rover, wait' = wait,
           \A h \in Handles : Live(h)' => Live(h)
    PROVE  ReplayIsNext'
  BY DEF ReplayIsNext

\* A live task means that nothing is being replayed.
LEMMA NoReplayWhileBusy ==
    ASSUME Inv, \/ wait # "none"
                \/ \E h \in Handles : Live(h)
    PROVE  \A i \in 1..Len(mbox) : mbox[i].src # "EventWrap"
  BY DEF Inv, ReplayIsNext

\* Items are polled with an empty mailbox when one of them is alive.
LEMMA PolledEmpty ==
    ASSUME Inv, NEW h \in Handles, NEW k, k # "none", Polled(h, k)
    PROVE  mbox = <<>> /\ Live(h) /\ h = running /\ wait = "none" /\ Running(k)
  <1>1. Live(h) /\ Running(k) /\ wait = "none"
    BY DEF Polled, Live, Running, Drained
  <1>2. \A i \in 1..Len(mbox) : mbox[i].src # "EventWrap"
    BY <1>1, NoReplayWhileBusy
  <1>3. Len(mbox) = 0
    <2>1. mbox \in Seq(Messages) /\ Len(mbox) \in Nat
      BY DEF Inv, TypeOK
    <2> QED BY <1>2, <2>1 DEF Polled, Drained
  <1>4. mbox = <<>>
    BY <1>3 DEF Inv, TypeOK
  <1> QED BY <1>1, <1>4 DEF Inv, SingleTask

\* The initial state satisfies the invariant.
LEMMA InitInv == Init => Inv
  <1> SUFFICES ASSUME Init PROVE Inv
    OBVIOUS
  <1>1. \A h \in Handles : tasks[h].kind = "none"
    BY DEF Init, Idle
  <1>2. TypeOK
    <2>1. poll \in BOOLEAN
      BY DEF Init
    <2>2. alive \in BOOLEAN
      BY DEF Init
    <2>3. tasks \in [Handles -> Task] /\ sends \in [{"CSPing", "Forward"} -> Nat]
      BY TaskTypes DEF Init
    <2>4. mbox \in Seq(Messages)
      BY DEF Init
    <2> QED BY <2>1, <2>2, <2>3, <2>4 DEF Init, TypeOK, States, Waits
  <1>3. \A k : k # "none" => ~Running(k)
    BY <1>1 DEF Running
  <1>4. SingleTask
    BY <1>1 DEF SingleTask, Live
  <1>5. TaskFitsState /\ LinkTracked /\ RunsOnlyWhenStopped /\ DeferredUntilReady
    BY <1>3 DEF Init, TaskFitsState, LinkTracked, RunsOnlyWhenStopped, DeferredUntilReady
  <1>6. ReplayIsNext
    BY DEF Init, ReplayIsNext
  <1> QED BY <1>2, <1>4, <1>5, <1>6 DEF Inv

\* Every message handler preserves the invariant.
LEMMA HandleInv ==
    ASSUME Inv, Handle
    PROVE  Inv'
  <1>1. Core
    BY InvCore
  <1>2. ASSUME NEW src, Take(src), Core', sends' \in [{"CSPing", "Forward"} -> Nat]
        PROVE  Inv'
    <2>1. mbox' \in Seq(Messages) /\ \A i \in 1..Len(mbox') : mbox'[i].src # "EventWrap"
      BY <1>2, TakeLeavesNoReplay
    <2>2. ReplayIsNext'
      BY <2>1 DEF ReplayIsNext
    <2>3. poll' \in BOOLEAN /\ alive' \in BOOLEAN
          /\ antCmd' \in {"none", "AntStart", "AntStop"}
      BY <1>2 DEF Inv, TypeOK, Take
    <2>4. TypeOK'
      BY <1>2, <2>1, <2>3 DEF Core, TypeOK
    <2> QED BY <1>2, <2>2, <2>4 DEF Core, Inv
  <1>3. sends \in [{"CSPing", "Forward"} -> Nat]
    BY DEF Inv, TypeOK
  <1>4. CASE HandleUpCommand
    <2>1. Take("UpCommand") /\ Step(Head(mbox).event) /\ Note(Head(mbox).event)
      BY <1>4 DEF HandleUpCommand
    <2>2. Core'
      BY <1>1, <2>1, StepPreservesCore DEF Take
    <2>3. sends' \in [{"CSPing", "Forward"} -> Nat]
      BY <1>3, <1>4 DEF HandleUpCommand
    <2> QED BY <1>2, <2>1, <2>2, <2>3
  <1>5. CASE HandleDownMessage
    <2>1. Take("DownMessage") /\ sends' = sends
      BY <1>5 DEF HandleDownMessage
    <2>2. Core'
      <3>1. CASE Head(mbox).event \in BLEEvents
        BY <1>1, <1>5, <3>1, StepPreservesCore DEF HandleDownMessage, Take
      <3>2. CASE Head(mbox).event \notin BLEEvents
        BY <1>1, <1>5, <3>2 DEF HandleDownMessage, Note, RoverEvents, BLEEvents,
           actor, Core, SingleTask, TaskFitsState, LinkTracked,
           RunsOnlyWhenStopped, DeferredUntilReady, Live, Running
      <3> QED BY <3>1, <3>2
    <2> QED BY <1>2, <1>3, <2>1, <2>2
  <1>6. CASE HandleEventWrap
    <2>1. Take("EventWrap") /\ sends' = sends /\ Step(Head(mbox).event)
          /\ rover' = rover /\ ble' = ble
      BY <1>6 DEF HandleEventWrap
    <2>2. Head(mbox).event = "FERoverStop" /\ rover = "FERoverStop"
      BY <2>1, TakeLeavesNoReplay DEF Take
    <2>3. Note(Head(mbox).event)
      BY <2>1, <2>2 DEF Note, RoverEvents, BLEEvents
    <2>4. Core'
      BY <1>1, <2>1, <2>3, StepPreservesCore DEF Take
    <2> QED BY <1>2, <1>3, <2>1, <2>4
  <1>7. CASE HandleRestart
    BY <1>7 DEF HandleRestart, Inv, TypeOK, actor, hist, SingleTask, TaskFitsState,
       LinkTracked, RunsOnlyWhenStopped, DeferredUntilReady, ReplayIsNext, Live, Running
  <1> QED BY <1>4, <1>5, <1>6, <1>7 DEF Handle

\* The future given to ctx.wait preserves the invariant.
LEMMA WaitInv ==
    ASSUME Inv, WaitStep
    PROVE  Inv'
  <1>1. actor' = actor /\ tasks' = tasks /\ mbox' = mbox /\ rover' = rover /\ ble' = ble
    BY DEF WaitStep, IssueAntStart, AntStartDone, PingIssued, hist
  <1>2. \A i \in 1..Len(mbox) : mbox[i].src # "EventWrap"
    BY NoReplayWhileBusy DEF WaitStep, IssueAntStart, AntStartDone, PingIssued, Waiting
  <1>3. ReplayIsNext'
    BY <1>1, <1>2 DEF ReplayIsNext
  <1>4. TypeOK'
    BY DEF Inv, TypeOK, WaitStep, IssueAntStart, AntStartDone, PingIssued, Waits, actor, hist
  <1>5. wait' = "none" \/ (wait = "AntStart" /\ wait' = "AntStartSent")
    BY DEF WaitStep, IssueAntStart, AntStartDone, PingIssued, Waiting
  <1> QED BY <1>1, <1>3, <1>4, <1>5 DEF Inv, actor, SingleTask, TaskFitsState, LinkTracked,
          RunsOnlyWhenStopped, DeferredUntilReady, Live, Running

\* A timer that fires preserves the invariant.
LEMMA TimerInv ==
    ASSUME Inv, NEW h \in Handles, TimerStep(h)
    PROVE  Inv'
  <1> USE DEF Inv, TypeOK
  <1>1. CASE PingDue(h)
    <2>1. sends' \in [{"CSPing", "Forward"} -> Nat]
      BY <1>1 DEF PingDue
    <2> QED BY <1>1, <2>1 DEF PingDue, actor, hist, SingleTask, TaskFitsState, LinkTracked,
               RunsOnlyWhenStopped, DeferredUntilReady, ReplayIsNext, Live, Running
  <1>2. CASE ReadyDue(h)
    <2>1. mbox = <<>> /\ h = running /\ Running("ReadyTimer") /\ wait = "none"
      BY <1>2, PolledEmpty DEF ReadyDue
    <2>2. \A x \in Handles : tasks'[x].kind = "none"
      BY <1>2, <2>1 DEF ReadyDue, SingleTask, Live, Idle
    <2>3. state = "BLEConnected" /\ ble = "CSBLEConnect"
      BY <2>1 DEF TaskFitsState, LinkTracked
    <2>4. \A k : k # "none" => ~Running(k)'
      BY <2>2 DEF Running
    <2>5. tasks' \in [Handles -> Task]
      BY <1>2, TaskTypes DEF ReadyDue
    <2>6. pending # "none" => Message("EventWrap", pending, "Frontend") \in Messages
      BY DEF Message, Messages, Destination
    <2>7. mbox' \in Seq(Messages)
      BY <1>2, <2>6 DEF ReadyDue
    <2>8. TypeOK'
      BY <1>2, <2>5, <2>7 DEF ReadyDue, States, hist
    <2>9. ReplayIsNext'
      <3>1. CASE pending = "none"
        BY <1>2, <2>1, <3>1 DEF ReadyDue, ReplayIsNext
      <3>2. CASE pending # "none"
        <4>1. mbox' = <<Message("EventWrap", "FERoverStop", "Frontend")>>
          BY <1>2, <2>1, <3>2 DEF ReadyDue
        <4>2. rover = "FERoverStop"
          BY <3>2 DEF RunsOnlyWhenStopped
        <4>3. /\ Len(mbox') = 1
              /\ mbox'[1].event = "FERoverStop"
          BY <4>1 DEF Message
        <4> QED BY <1>2, <2>1, <2>2, <4>2, <4>3 DEF ReadyDue, ReplayIsNext, Live, hist
      <3> QED BY <3>1, <3>2
    <2> QED BY <1>2, <2>1, <2>2, <2>3, <2>4, <2>8, <2>9 DEF ReadyDue, hist, SingleTask,
         TaskFitsState, LinkTracked, RunsOnlyWhenStopped, DeferredUntilReady, Live
  <1>3. CASE StartDue(h)
    <2>1. mbox = <<>> /\ h = running /\ Running("StartTimer")
      BY <1>3, PolledEmpty DEF StartDue
    <2>2. PICK i \in Handles :
              /\ i # h /\ running' = i
              /\ tasks' = [tasks EXCEPT ![h] = Idle, ![i] = Timer("StartInterval")]
      BY <1>3 DEF StartDue
    <2>3. /\ tasks' \in [Handles -> Task]
          /\ tasks'[i].kind = "StartInterval"
          /\ \A x \in Handles : x # i => tasks'[x].kind = "none"
      <3>1. \A x \in Handles : x # h => tasks[x].kind = "none"
        BY <2>1 DEF SingleTask, Live
      <3> QED BY <2>2, <3>1, TaskTypes DEF TimerKinds, Idle
    <2>4. \A k : k # "none" => (Running(k)' <=> k = "StartInterval")
      BY <2>3 DEF Running
    <2>5. state = "AntRun" /\ rover = "FERoverStop"
      BY <2>1 DEF TaskFitsState, RunsOnlyWhenStopped
    <2>6. TypeOK'
      BY <1>3, <2>2, <2>3 DEF StartDue, Waits, hist
    <2>7. ReplayIsNext'
      BY <1>3, <2>1 DEF StartDue, ReplayIsNext
    <2>8. SingleTask'
      BY <2>2, <2>3 DEF SingleTask, Live
    <2>9. state' = state /\ pending' = pending /\ rover' = rover /\ ble' = ble
          /\ wait' = "AntStart"
      BY <1>3 DEF StartDue, hist
    <2>10. TaskFitsState' /\ RunsOnlyWhenStopped'
      BY <2>4, <2>5, <2>9 DEF TaskFitsState, RunsOnlyWhenStopped
    <2> QED BY <2>6, <2>7, <2>8, <2>9, <2>10 DEF LinkTracked, DeferredUntilReady
  <1>4. CASE IntervalDue(h)
    <2>1. mbox = <<>> /\ Running("StartInterval")
      BY <1>4, PolledEmpty DEF IntervalDue
    <2>2. state = "AntRun"
      BY <2>1 DEF TaskFitsState
    <2>3. ReplayIsNext'
      BY <1>4, <2>1 DEF IntervalDue, ReplayIsNext
    <2> QED BY <1>4, <2>1, <2>2, <2>3 DEF IntervalDue, actor, hist, Waits, SingleTask, Live,
         TaskFitsState, LinkTracked, RunsOnlyWhenStopped, DeferredUntilReady, Running
  <1> QED BY <1>1, <1>2, <1>3, <1>4 DEF TimerStep

\* A request that is issued, fails, is retried or ends preserves the invariant.
LEMMA SendInv ==
    ASSUME Inv, NEW h \in Handles, SendStep(h)
    PROVE  Inv'
  <1> USE DEF Inv, TypeOK
  <1>1. ASSUME NEW k \in SendKinds, Polled(h, k), NEW t \in Task,
               t.kind \in {k, "none"}, tasks' = [tasks EXCEPT ![h] = t],
               running' \in {running, NoTask}, pending' = pending,
               sends' = sends, wait' = wait, mbox' = mbox, poll' = poll, alive' = alive,
               rover' = rover, ble' = ble, antCmd' \in {"none", "AntStart", "AntStop"},
               \/ state' = state /\ running' = running
               \/ k = "GarageOpen" /\ state' = "GarageOpen" /\ t.kind = "none"
        PROVE  Inv'
    <2>1. mbox = <<>> /\ h = running /\ Running(k) /\ wait = "none"
      BY <1>1, PolledEmpty DEF SendKinds
    <2>2. /\ tasks' \in [Handles -> Task]
          /\ tasks'[h] = t
          /\ \A x \in Handles : x # h => tasks'[x].kind = "none"
      BY <1>1, <2>1 DEF SingleTask, Live
    <2>3. \A j : j # "none" => (Running(j)' => j = k /\ t.kind = k)
      BY <1>1, <2>2 DEF Running
    <2>4. TypeOK'
      BY <1>1, <2>2 DEF States
    <2>5. ReplayIsNext'
      BY <1>1, <2>1 DEF ReplayIsNext
    <2>6. SingleTask'
      BY <1>1, <2>1, <2>2, <2>3 DEF SingleTask, Live
    <2>7. TaskFitsState'
      BY <1>1, <2>1, <2>3 DEF SendKinds, TaskFitsState
    <2> QED BY <1>1, <2>1, <2>4, <2>5, <2>6, <2>7 DEF LinkTracked,
         RunsOnlyWhenStopped, DeferredUntilReady
  <1>2. ASSUME NEW k \in SendKinds, Attempt(h, k) PROVE Inv'
    <2> DEFINE t == [tasks[h] EXCEPT !.phase = "await", !.tries = @ + 1]
    <2>1. t \in Task /\ t.kind = k /\ tasks' = [tasks EXCEPT ![h] = t]
      BY <1>2 DEF Attempt, Polled, Task
    <2> HIDE DEF t
    <2> QED BY <1>1, <1>2, <2>1 DEF Attempt, actor
  <1>3. ASSUME NEW k \in SendKinds, AttemptFailed(h, k) PROVE Inv'
    <2> DEFINE t == IF tasks[h].tries <= MaxRetry
                    THEN [tasks[h] EXCEPT !.phase = "ready"] ELSE Idle
    <2>1. t \in Task /\ t.kind \in {k, "none"} /\ tasks' = [tasks EXCEPT ![h] = t]
      BY <1>3, TaskTypes DEF AttemptFailed, Polled, Task, Idle
    <2> HIDE DEF t
    <2> QED BY <1>1, <1>3, <2>1 DEF AttemptFailed, actor, hist
  <1>4. CASE GarageOpenAcked(h)
    BY <1>1, <1>4, TaskTypes DEF GarageOpenAcked, SendKinds, Idle, hist
  <1>5. CASE AntStopAcked(h)
    BY <1>1, <1>5, TaskTypes DEF AntStopAcked, SendKinds, Idle, actor, hist
  <1> QED BY <1>2, <1>3, <1>4, <1>5 DEF SendStep

\* What neither the tasks nor the state depends on preserves the invariant:
\* the arbiter, arrivals, spawned sends.
LEMMA OtherInv ==
    ASSUME Inv, \/ \E s \in {"CSPing", "Forward"} : SendIssued(s)
                \/ BeginPoll \/ EndPoll
                \/ UpCommandArrives \/ DownMessageArrives
    PROVE  Inv'
  <1> USE DEF Inv, TypeOK
  <1>1. ASSUME actor' = actor, tasks' = tasks, wait' = wait, hist' = hist,
               TypeOK', ReplayIsNext'
        PROVE  Inv'
    BY <1>1 DEF actor, hist, SingleTask, TaskFitsState, LinkTracked,
       RunsOnlyWhenStopped, DeferredUntilReady, Live, Running
  <1>2. ASSUME NEW s \in {"CSPing", "Forward"}, SendIssued(s) PROVE Inv'
    <2>1. sends' \in [{"CSPing", "Forward"} -> Nat]
      BY <1>2 DEF SendIssued
    <2>2. TypeOK' /\ ReplayIsNext'
      BY <1>2, <2>1 DEF SendIssued, actor, hist, ReplayIsNext, Live
    <2> QED BY <1>1, <1>2, <2>2 DEF SendIssued
  <1>3. CASE BeginPoll \/ EndPoll
    <2>1. poll' \in BOOLEAN
      BY <1>3 DEF BeginPoll, EndPoll
    <2>2. TypeOK' /\ ReplayIsNext'
      BY <1>3, <2>1 DEF BeginPoll, EndPoll, actor, hist, ReplayIsNext, Live
    <2> QED BY <1>1, <1>3, <2>2 DEF BeginPoll, EndPoll
  <1>4. ASSUME NEW m \in Messages, m.src # "EventWrap", Arrive(m) PROVE Inv'
    <2>1. /\ mbox' = Append(mbox, m) /\ mbox' \in Seq(Messages)
          /\ Len(mbox) \in Nat /\ Len(mbox') = Len(mbox) + 1
          /\ \A i \in 1..Len(mbox) : mbox'[i] = mbox[i]
          /\ mbox'[Len(mbox) + 1] = m
      BY <1>4, PutMessage DEF Arrive
    <2>2. \A i \in 1..Len(mbox') : mbox'[i].src = "EventWrap" =>
             i \in 1..Len(mbox) /\ mbox'[i] = mbox[i]
      BY <1>4, <2>1
    <2>3. ReplayIsNext'
      BY <1>4, <2>2 DEF Arrive, ReplayIsNext, actor, hist, Live
    <2>4. TypeOK'
      BY <1>4, <2>1 DEF Arrive, actor, hist
    <2> QED BY <1>1, <1>4, <2>3, <2>4 DEF Arrive
  <1>5. CASE UpCommandArrives
    <2>1. PICK m \in UpMsgs : Arrive(Message("UpCommand", m.event, m.dest))
      BY <1>5 DEF UpCommandArrives
    <2>2. Message("UpCommand", m.event, m.dest) \in Messages
      BY MessagesAssumption DEF Message, Messages
    <2> QED BY <1>4, <2>1, <2>2 DEF Message
  <1>6. CASE DownMessageArrives
    <2>1. PICK e \in DownEvents : Arrive(Message("DownMessage", e, "Frontend"))
      BY <1>6 DEF DownMessageArrives
    <2>2. Message("DownMessage", e, "Frontend") \in Messages
      BY DEF Message, Messages, Destination
    <2> QED BY <1>4, <2>1, <2>2 DEF Message
  <1> QED BY <1>2, <1>3, <1>5, <1>6

\* A restarted process is as good as new.
LEMMA RestartInv ==
    ASSUME Inv, Restart
    PROVE  Inv'
  <1>1. \A h \in Handles : tasks'[h].kind = "none"
    BY DEF Restart, Idle
  <1>2. \A k : k # "none" => ~Running(k)'
    BY <1>1 DEF Running
  <1>3. TypeOK'
    <2>1. poll' \in BOOLEAN
      BY DEF Restart
    <2>2. alive' \in BOOLEAN
      BY DEF Restart
    <2>3. tasks' \in [Handles -> Task] /\ sends' \in [{"CSPing", "Forward"} -> Nat]
      BY TaskTypes DEF Restart
    <2>4. mbox' \in Seq(Messages) /\ antCmd' \in {"none", "AntStart", "AntStop"}
      BY DEF Restart, Inv, TypeOK
    <2> QED BY <2>1, <2>2, <2>3, <2>4 DEF Restart, TypeOK, States, Waits
  <1>4. SingleTask'
    BY <1>1 DEF SingleTask, Live
  <1>5. TaskFitsState' /\ LinkTracked' /\ RunsOnlyWhenStopped' /\ DeferredUntilReady'
    BY <1>2 DEF Restart, TaskFitsState, LinkTracked, RunsOnlyWhenStopped, DeferredUntilReady
  <1>6. ReplayIsNext'
    BY DEF Restart, ReplayIsNext
  <1> QED BY <1>3, <1>4, <1>5, <1>6 DEF Inv

\* Every step of the actor and its context preserves the invariant.
LEMMA NextInv == Inv /\ [Next]_vars => Inv'
  <1> SUFFICES ASSUME Inv, [Next]_vars PROVE Inv'
    OBVIOUS
  <1>1. CASE Handle
    BY <1>1, HandleInv
  <1>2. CASE WaitStep
    BY <1>2, WaitInv
  <1>3. CASE ItemStep
    BY <1>3, TimerInv, SendInv DEF ItemStep
  <1>4. CASE \/ \E s \in {"CSPing", "Forward"} : SendIssued(s)
             \/ BeginPoll \/ EndPoll
             \/ UpCommandArrives \/ DownMessageArrives
    BY <1>4, OtherInv
  <1>5. CASE Restart
    BY <1>5, RestartInv
  <1>6. CASE UNCHANGED vars
    BY <1>6 DEF vars, actor, hist, Inv, TypeOK, SingleTask, TaskFitsState, LinkTracked,
       RunsOnlyWhenStopped, DeferredUntilReady, ReplayIsNext, Live, Running
  <1> QED BY <1>1, <1>2, <1>3, <1>4, <1>5, <1>6 DEF Next

\* The invariant holds in every reachable state, whatever the ground, the
\* central station and the ant send, and whichever requests fail.
THEOREM Invariance == Spec => []Inv
  <1> QED BY InitInv, NextInv, PTL DEF Spec

\* The types of the actor's fields, its tasks and its mailbox.
THEOREM TypeCorrect == Spec => []TypeOK
  <1>1. Inv => TypeOK
    BY DEF Inv
  <1> QED BY <1>1, Invariance, PTL

\* No task is ever left behind without a handle, and the one that runs is the
\* one its state calls for.
THEOREM TaskDiscipline == Spec => [](SingleTask /\ TaskFitsState)
  <1>1. Inv => SingleTask /\ TaskFitsState
    BY DEF Inv
  <1> QED BY <1>1, Invariance, PTL

\* The ant runs, and is told to start, only while the last rover event handled
\* is a stop and the last BLE event is a connect.
THEOREM RunsSafely == Spec => [](RunsOnlyWhenStopped /\ LinkTracked)
  <1>1. Inv => RunsOnlyWhenStopped /\ LinkTracked
    BY DEF Inv
  <1> QED BY <1>1, Invariance, PTL

\* A deferred stop is kept only until the machine is ready, and is then the next
\* event it handles.
THEOREM DeferredStops == Spec => [](DeferredUntilReady /\ ReplayIsNext)
  <1>1. Inv => DeferredUntilReady /\ ReplayIsNext
    BY DEF Inv
  <1> QED BY <1>1, Invariance, PTL

\* The ant's orders change only as the rover's last event and the link allow.
THEOREM OrdersFollowRover == Spec => CommandsFollowRover
  <1> DEFINE A == /\ antCmd' # antCmd /\ antCmd' = "AntStart" =>
                        rover = "FERoverStop" /\ ble = "CSBLEConnect"
                  /\ antCmd' # antCmd /\ antCmd' = "AntStop" =>
                        rover = "FERoverMove" /\ ble = "CSBLEConnect"
  <1>1. ASSUME Inv, [Next]_vars PROVE [A]_vars
    <2>1. CASE IssueAntStart
      <3>1. rover = "FERoverStop" /\ ble = "CSBLEConnect" /\ antCmd' = "AntStart"
        BY <1>1, <2>1 DEF IssueAntStart, Waiting, Inv, RunsOnlyWhenStopped, LinkTracked
      <3> QED BY <3>1
    <2>2. ASSUME NEW h \in Handles, NEW k \in SendKinds, Attempt(h, k) PROVE A
      <3>1. k = "AntStop" => Running("AntStop")
        BY <2>2 DEF Attempt, Polled, Running
      <3>2. k = "AntStop" => rover = "FERoverMove" /\ ble = "CSBLEConnect"
        BY <1>1, <3>1 DEF Inv, TaskFitsState, LinkTracked
      <3> QED BY <2>2, <3>2 DEF Attempt
    <2>3. CASE antCmd' = antCmd
      BY <2>3
    <2>4. antCmd' = antCmd \/ IssueAntStart
          \/ \E h \in Handles, k \in SendKinds : Attempt(h, k)
      BY <1>1 DEF Next, vars, hist, Handle, HandleUpCommand, HandleDownMessage,
         HandleEventWrap, HandleRestart, Take, WaitStep, AntStartDone, PingIssued,
         ItemStep, TimerStep, PingDue, ReadyDue, StartDue, IntervalDue,
         SendStep, AttemptFailed, GarageOpenAcked, AntStopAcked, SendIssued,
         BeginPoll, EndPoll, UpCommandArrives, DownMessageArrives, Arrive, Restart
    <2> QED BY <2>1, <2>2, <2>3, <2>4
  <1> QED BY <1>1, Invariance, PTL DEF Spec, CommandsFollowRover

-----------------------------------------------------------------------------
(* Refinement: the actor implements ModeControl.                            *)

\* The job after each of the three things step does with the old handle.
LEMMA JobFacts ==
    ASSUME Inv
    PROVE  /\ \A t \in Task : ReplaceTask(t) => Job' = t.kind
           /\ CancelTask => Job' = "none"
           /\ KeepTask => Job' = Job
           /\ \A h \in Handles : Live(h) => Job = tasks[h].kind
  <1>1. ASSUME NEW t \in Task, ReplaceTask(t) PROVE Job' = t.kind
    <2>1. running' \in Handles /\ tasks'[running'] = t
      BY <1>1, ReplaceTaskFacts DEF Inv, TypeOK
    <2> QED BY <2>1 DEF Job
  <1>2. ASSUME CancelTask PROVE Job' = "none"
    BY <1>2, HandlesAssumption DEF CancelTask, Job
  <1>3. ASSUME KeepTask PROVE Job' = Job
    BY <1>3 DEF KeepTask, Job
  <1>4. ASSUME NEW h \in Handles, Live(h) PROVE Job = tasks[h].kind
    BY <1>4 DEF Inv, SingleTask, Job
  <1> QED BY <1>1, <1>2, <1>3, <1>4

\* An arm of step, with the events noted, is an event of ModeControl or no step
\* at all, when the stop owed is the deferred one before and after.
LEMMA StepImplements ==
    ASSUME Inv, NEW e, Step(e), Note(e),
           Owed = (pending = "FERoverStop"), Owed' = (pending' = "FERoverStop")
    PROVE  Mode!Next \/ UNCHANGED Mode!mode
  <1> USE DEF Note, RoverEvents, BLEEvents
  <1>1. CASE e = "FEPowerSupplied" /\ StepPowerSupplied
    <2>1. CASE state = "PingCentralStation"
      BY <1>1, <2>1, JobFacts DEF StepPowerSupplied, Mode!mode
    <2>2. CASE state # "PingCentralStation"
      <3>1. Job' = "Pings" /\ Owed' = Owed
        BY <1>1, <2>2, JobFacts, TaskTypes DEF StepPowerSupplied, TimerKinds
      <3>2. Mode!PowerSupplied
        BY <1>1, <2>2, <3>1 DEF StepPowerSupplied, Mode!PowerSupplied
      <3> QED BY <3>2 DEF Mode!Next
    <2> QED BY <2>1, <2>2
  <1>2. CASE e = "FEGarageOpen" /\ StepGarageOpen
    <2>1. CASE state = "GarageOpen"
      BY <1>2, <2>1, JobFacts DEF StepGarageOpen, Mode!mode
    <2>2. CASE state # "GarageOpen"
      <3>1. Job' = "GarageOpen" /\ Owed' = Owed
        BY <1>2, <2>2, JobFacts, TaskTypes DEF StepGarageOpen, SendKinds
      <3>2. Mode!RequestGarage
        BY <1>2, <2>2, <3>1 DEF StepGarageOpen, Mode!RequestGarage
      <3> QED BY <3>2 DEF Mode!Next
    <2> QED BY <2>1, <2>2
  <1>3. CASE e = "CSBLEDisconnect" /\ StepBLEDisconnect
    <2>1. Job' = "none" /\ Owed' = Owed
      BY <1>3, JobFacts DEF StepBLEDisconnect
    <2>2. Mode!Disconnect
      BY <1>3, <2>1 DEF StepBLEDisconnect, Mode!Disconnect
    <2> QED BY <2>2 DEF Mode!Next
  <1>4. CASE e = "CSBLEConnect" /\ StepBLEConnect
    <2>1. Mode!Connect
      <3>1. CASE state = "BLEConnected"
        BY <1>4, <3>1, JobFacts DEF StepBLEConnect, Mode!Connect
      <3>2. CASE state # "BLEConnected"
        <4>1. Job' = "ReadyTimer" /\ Owed' = Owed
          BY <1>4, <3>2, JobFacts, TaskTypes DEF StepBLEConnect, TimerKinds
        <4> QED BY <1>4, <3>2, <4>1 DEF StepBLEConnect, Mode!Connect
      <3> QED BY <3>1, <3>2
    <2> QED BY <2>1 DEF Mode!Next
  <1>5. CASE e = "FERoverStop" /\ StepRoverStop
    <2>1. Mode!RoverStop
      <3>1. CASE state = "AntReady"
        <4>1. Job' = "StartTimer" /\ Owed' = Owed
          BY <1>5, <3>1, JobFacts, TaskTypes DEF StepRoverStop, TimerKinds
        <4> QED BY <1>5, <3>1, <4>1 DEF StepRoverStop, Mode!RoverStop, Mode!StartRun
      <3>2. CASE state = "AntRun"
        BY <1>5, <3>2, JobFacts DEF StepRoverStop, Mode!RoverStop
      <3>3. CASE state \notin {"AntReady", "AntRun"}
        <4>1. Job' = Job /\ Owed'
          BY <1>5, <3>3, JobFacts DEF StepRoverStop
        <4>2. Owed' = TRUE
          BY <4>1
        <4> QED BY <1>5, <3>3, <4>1, <4>2 DEF StepRoverStop, Mode!RoverStop
      <3> QED BY <3>1, <3>2, <3>3
    <2> QED BY <2>1 DEF Mode!Next
  <1>6. CASE e = "FERoverMove" /\ StepRoverMove
    <2>1. Mode!RoverMove
      <3>1. CASE state = "AntRun"
        <4>1. Job' = "AntStop" /\ pending' = "none"
          BY <1>6, <3>1, JobFacts, TaskTypes DEF StepRoverMove, SendKinds, Inv,
             DeferredUntilReady
        <4>2. Owed' = FALSE
          BY <4>1
        <4> QED BY <1>6, <3>1, <4>1, <4>2 DEF StepRoverMove, Mode!RoverMove
      <3>2. CASE state # "AntRun"
        <4>1. Job' = Job /\ pending' = "none"
          BY <1>6, <3>2, JobFacts DEF StepRoverMove
        <4>2. Owed' = FALSE
          BY <4>1
        <4> QED BY <1>6, <3>2, <4>1, <4>2 DEF StepRoverMove, Mode!RoverMove
      <3> QED BY <3>1, <3>2
    <2> QED BY <2>1 DEF Mode!Next
  <1>7. CASE \/ e = "DebugCSPing" /\ StepPing("CSPing")
             \/ e = "AntPing" /\ StepPing("AntPing")
             \/ e \notin StepEvents /\ StepOther
    BY <1>7, JobFacts DEF StepPing, StepOther, StepEvents, Mode!mode
  <1> QED BY <1>1, <1>2, <1>3, <1>4, <1>5, <1>6, <1>7 DEF Step

\* Handling a message is an event of ModeControl, the replay of the stop it
\* owes, or no step.
LEMMA HandleImplements ==
    ASSUME Inv, Handle
    PROVE  Mode!Next \/ UNCHANGED Mode!mode
  <1>1. ASSUME NEW src, Take(src), src # "EventWrap"
        PROVE  Owed = (pending = "FERoverStop") /\ Owed' = (pending' = "FERoverStop")
    <2>1. \A i \in 1..Len(mbox) : mbox[i].src # "EventWrap"
      <3>1. mbox \in Seq(Messages) /\ mbox # <<>> /\ Head(mbox).src # "EventWrap"
        BY <1>1 DEF Inv, TypeOK, Take
      <3>2. Head(mbox) = mbox[1]
        BY <3>1, TakeMessage
      <3> QED BY <3>1, <3>2 DEF Inv, ReplayIsNext
    <2>2. \A i \in 1..Len(mbox') : mbox'[i].src # "EventWrap"
      BY <1>1, TakeLeavesNoReplay
    <2> QED BY <2>1, <2>2 DEF Owed
  <1>2. CASE HandleUpCommand
    <2>1. Take("UpCommand") /\ Step(Head(mbox).event) /\ Note(Head(mbox).event)
      BY <1>2 DEF HandleUpCommand
    <2> QED BY <1>1, <2>1, StepImplements
  <1>3. CASE HandleDownMessage
    <2>1. Take("DownMessage")
      BY <1>3 DEF HandleDownMessage
    <2>2. CASE Head(mbox).event \in BLEEvents
      <3>1. Step(Head(mbox).event) /\ Note(Head(mbox).event)
        BY <1>3, <2>2 DEF HandleDownMessage
      <3> QED BY <1>1, <2>1, <3>1, StepImplements
    <2>3. CASE Head(mbox).event \notin BLEEvents
      <3>1. actor' = actor /\ tasks' = tasks /\ rover' = rover /\ ble' = ble
        BY <1>3, <2>3 DEF HandleDownMessage, Note, RoverEvents, BLEEvents, actor
      <3>2. Job' = Job /\ Owed' = Owed
        BY <1>1, <2>1, <3>1 DEF Job, actor
      <3> QED BY <3>1, <3>2 DEF actor, Mode!mode
    <2> QED BY <2>2, <2>3
  <1>4. CASE HandleEventWrap
    <2>1. Take("EventWrap") /\ Step(Head(mbox).event) /\ rover' = rover /\ ble' = ble
      BY <1>4 DEF HandleEventWrap
    <2>2. /\ state = "AntReady" /\ Head(mbox).event = "FERoverStop"
          /\ \A i \in 1..Len(mbox') : mbox'[i].src # "EventWrap"
      BY <2>1, TakeLeavesNoReplay DEF Take
    <2>3. StepRoverStop
      BY <2>1, <2>2 DEF Step, StepEvents, BLEEvents, RoverEvents
    <2>4. Job' = "StartTimer" /\ state' = "AntRun" /\ pending' = pending
      BY <2>2, <2>3, JobFacts, TaskTypes DEF StepRoverStop, TimerKinds
    <2>5. pending = "none"
      BY <2>2 DEF Inv, DeferredUntilReady
    <2>6. Owed
      <3>1. mbox \in Seq(Messages) /\ mbox # <<>> /\ Head(mbox).src = "EventWrap"
        BY <2>1 DEF Inv, TypeOK, Take
      <3>2. Head(mbox) = mbox[1] /\ 1 \in 1..Len(mbox)
        BY <3>1, TakeMessage
      <3> QED BY <3>1, <3>2 DEF Owed
    <2>7. Owed' = FALSE
      BY <2>2, <2>4, <2>5 DEF Owed
    <2>8. Mode!Replay
      BY <2>1, <2>2, <2>4, <2>6, <2>7 DEF Mode!Replay, Mode!StartRun
    <2> QED BY <2>8 DEF Mode!Next
  <1>5. CASE HandleRestart
    BY <1>5 DEF HandleRestart, actor, hist, Mode!mode, Job, Owed
  <1> QED BY <1>2, <1>3, <1>4, <1>5 DEF Handle

\* A timer or a request does the job's step of ModeControl, or none.
LEMMA ItemImplements ==
    ASSUME Inv, NEW h \in Handles, TimerStep(h) \/ SendStep(h)
    PROVE  Mode!Next \/ UNCHANGED Mode!mode
  <1>1. CASE PingDue(h) \/ IntervalDue(h)
    BY <1>1 DEF PingDue, IntervalDue, actor, hist, Mode!mode, Job, Owed
  <1>2. CASE ReadyDue(h)
    <2>1. mbox = <<>> /\ h = running /\ Live(h)
      BY <1>2, PolledEmpty DEF ReadyDue
    <2>2. Job = "ReadyTimer"
      BY <1>2, <2>1, JobFacts DEF ReadyDue, Polled
    <2>3. Job' = "none"
      BY <1>2, <2>1 DEF ReadyDue, Job, Idle, Inv, TypeOK
    <2>4. Owed' = Owed
      <3>1. CASE pending = "none"
        BY <1>2, <3>1 DEF ReadyDue, Owed
      <3>2. CASE pending # "none"
        <4>1. mbox' = <<Message("EventWrap", "FERoverStop", "Frontend")>>
              /\ pending = "FERoverStop"
          BY <1>2, <2>1, <3>2 DEF ReadyDue, Inv, TypeOK
        <4>2. 1 \in 1..Len(mbox') /\ mbox'[1].src = "EventWrap"
          BY <4>1 DEF Message
        <4> QED BY <4>1, <4>2 DEF Owed
      <3> QED BY <3>1, <3>2
    <2>5. Mode!Settle
      BY <1>2, <2>2, <2>3, <2>4 DEF ReadyDue, hist, Mode!Settle
    <2> QED BY <2>5 DEF Mode!Next
  <1>3. CASE StartDue(h)
    <2>1. mbox = <<>> /\ h = running /\ Live(h)
      BY <1>3, PolledEmpty DEF StartDue
    <2>2. Job = "StartTimer"
      BY <1>3, <2>1, JobFacts DEF StartDue, Polled
    <2>3. Job' = "StartInterval"
      <3>1. PICK i \in Handles :
              /\ running' = i
              /\ tasks' = [tasks EXCEPT ![h] = Idle, ![i] = Timer("StartInterval")]
        BY <1>3 DEF StartDue
      <3> QED BY <3>1 DEF Job, Timer, Inv, TypeOK
    <2>4. Mode!Repeat
      BY <1>3, <2>2, <2>3 DEF StartDue, hist, Owed, Mode!Repeat
    <2> QED BY <2>4 DEF Mode!Next
  <1>4. ASSUME NEW k \in SendKinds, Attempt(h, k) PROVE UNCHANGED Mode!mode
    <2>1. Job' = Job
      BY <1>4 DEF Attempt, actor, Job, Inv, TypeOK, Task
    <2> QED BY <1>4, <2>1 DEF Attempt, actor, Owed, Mode!mode
  <1>5. ASSUME NEW k \in SendKinds, Polled(h, k), tasks' = [tasks EXCEPT ![h] = Idle],
               running' = running, state' = state, pending' = pending, mbox' = mbox,
               rover' = rover, ble' = ble
        PROVE  Mode!Finish
    <2>1. h = running /\ Live(h)
      BY <1>5, PolledEmpty DEF SendKinds
    <2>2. Job = k
      BY <1>5, <2>1, JobFacts DEF Polled
    <2>3. Job' = "none"
      BY <1>5, <2>1 DEF Job, Idle, Inv, TypeOK
    <2> QED BY <1>5, <2>2, <2>3 DEF Owed, SendKinds, Mode!Finish
  <1>6. ASSUME NEW k \in SendKinds, AttemptFailed(h, k)
        PROVE  Mode!Next \/ UNCHANGED Mode!mode
    <2>1. CASE tasks[h].tries <= MaxRetry
      <3>1. Job' = Job
        BY <1>6, <2>1 DEF AttemptFailed, actor, Job, Inv, TypeOK, Task
      <3> QED BY <1>6, <3>1 DEF AttemptFailed, actor, hist, Owed, Mode!mode
    <2>2. CASE ~(tasks[h].tries <= MaxRetry)
      <3>1. Mode!Finish
        BY <1>5, <1>6, <2>2 DEF AttemptFailed, actor, hist
      <3> QED BY <3>1 DEF Mode!Next
    <2> QED BY <2>1, <2>2
  <1>7. CASE GarageOpenAcked(h)
    <2>1. Live(h)
      BY <1>7, PolledEmpty DEF GarageOpenAcked
    <2>2. Job = "GarageOpen"
      BY <1>7, <2>1, JobFacts DEF GarageOpenAcked, Polled
    <2>3. Job' = "none"
      BY <1>7, HandlesAssumption DEF GarageOpenAcked, Job
    <2>4. Mode!GarageOpened
      BY <1>7, <2>2, <2>3 DEF GarageOpenAcked, hist, Owed, Mode!GarageOpened
    <2> QED BY <2>4 DEF Mode!Next
  <1>8. CASE AntStopAcked(h)
    <2>1. Mode!Finish
      BY <1>5, <1>8 DEF AntStopAcked, SendKinds, actor, hist
    <2> QED BY <2>1 DEF Mode!Next
  <1> QED BY <1>1, <1>2, <1>3, <1>4, <1>6, <1>7, <1>8 DEF TimerStep, SendStep

\* What reaches neither the actor nor its tasks is invisible to ModeControl.
LEMMA OtherImplements ==
    ASSUME Inv, \/ WaitStep
                \/ \E s \in {"CSPing", "Forward"} : SendIssued(s)
                \/ BeginPoll \/ EndPoll
                \/ UpCommandArrives \/ DownMessageArrives
                \/ UNCHANGED vars
    PROVE  UNCHANGED Mode!mode
  <1>1. CASE UpCommandArrives \/ DownMessageArrives
    <2>1. PICK m \in Messages : m.src # "EventWrap" /\ Arrive(m)
      BY <1>1, MessagesAssumption DEF UpCommandArrives, DownMessageArrives, Message,
         Messages, Destination
    <2>2. /\ mbox' = Append(mbox, m) /\ Len(mbox) \in Nat /\ Len(mbox') = Len(mbox) + 1
          /\ \A i \in 1..Len(mbox) : mbox'[i] = mbox[i]
          /\ mbox'[Len(mbox) + 1] = m
      BY <2>1, PutMessage DEF Arrive, Inv, TypeOK
    <2>3. (\E i \in 1..Len(mbox') : mbox'[i].src = "EventWrap")
             <=> (\E i \in 1..Len(mbox) : mbox[i].src = "EventWrap")
      BY <2>1, <2>2
    <2>4. Owed' = Owed
      BY <2>1, <2>3 DEF Owed, Arrive, actor
    <2> QED BY <2>1, <2>4 DEF Arrive, actor, hist, Job, Mode!mode
  <1>2. CASE \/ WaitStep
             \/ \E s \in {"CSPing", "Forward"} : SendIssued(s)
             \/ BeginPoll \/ EndPoll
             \/ UNCHANGED vars
    BY <1>2 DEF WaitStep, IssueAntStart, AntStartDone, PingIssued, SendIssued,
       BeginPoll, EndPoll, vars, actor, hist, Job, Owed, Mode!mode
  <1> QED BY <1>1, <1>2

\* The actor implements the mode controller: under the mapping of running_task
\* to the job and of pending_evt and the mailbox to the stop owed, every step
\* of the actor is a step of ModeControl or leaves it alone.
THEOREM Refinement == Spec => ImplementsMode
  <1>1. Init => Mode!Init
    <2> SUFFICES ASSUME Init PROVE Mode!Init
      OBVIOUS
    <2>1. Job = "none"
      BY HandlesAssumption DEF Init, Job
    <2>2. Owed = FALSE
      BY DEF Init, Owed
    <2> QED BY <2>1, <2>2 DEF Init, Mode!Init
  <1>2. ASSUME Inv, [Next]_vars PROVE [Mode!Next]_Mode!mode
    <2>1. CASE Handle
      BY <1>2, <2>1, HandleImplements
    <2>2. CASE ItemStep
      BY <1>2, <2>2, ItemImplements DEF ItemStep
    <2>3. CASE Restart
      <3>1. Job' = "none"
        BY <2>3, HandlesAssumption DEF Restart, Job
      <3>2. Owed' = FALSE
        BY <2>3 DEF Restart, Owed
      <3>3. Mode!Reboot
        BY <2>3, <3>1, <3>2 DEF Restart, Mode!Reboot
      <3> QED BY <3>3 DEF Mode!Next
    <2>4. CASE \/ WaitStep
               \/ \E s \in {"CSPing", "Forward"} : SendIssued(s)
               \/ BeginPoll \/ EndPoll
               \/ UpCommandArrives \/ DownMessageArrives
               \/ UNCHANGED vars
      BY <1>2, <2>4, OtherImplements
    <2> QED BY <1>2, <2>1, <2>2, <2>3, <2>4 DEF Next
  <1> QED BY <1>1, <1>2, Invariance, PTL DEF Spec, ImplementsMode, Mode!Spec

=============================================================================
