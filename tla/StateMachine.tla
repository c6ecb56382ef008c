---------------------------- MODULE StateMachine ----------------------------
(***************************************************************************)
(* The actor that drives the ant (runtime/src/state_machine.rs): its       *)
(* state, the one background task it may have running (an interval timer,  *)
(* a delay, or a command being sent with retries), the deferred rover      *)
(* stop, and the actix context it runs in.                                 *)
(*                                                                         *)
(* The context matters.  One call of ContextFut::poll resolves the future  *)
(* given to ctx.wait, then drains the mailbox, then polls the spawned      *)
(* futures ("items"); while a wait future is pending neither the mailbox   *)
(* nor the items are looked at.  All actors share one single-threaded      *)
(* arbiter (src/main.rs), so a message can only arrive between two polls.  *)
(*                                                                         *)
(* Time is abstracted: a timer that is armed may fire in any later poll,   *)
(* a command that awaits its acknowledgement may get it, get a refusal,    *)
(* or time out in any later poll.                                          *)
(***************************************************************************)
EXTENDS Naturals, Sequences

CONSTANTS
    Handles,      \* SpawnHandles the context hands out
    NoTask,       \* running_task = None
    UpMsgs,       \* commands the ground may send: [event, dest] records
    DownEvents,   \* events the central station may send over serial
    MaxRetry,     \* max_count of send_retry (3 in the code)
    MaxMailbox,   \* bound: messages queued or being forwarded at once
    MaxPings      \* bound: interval pings spawned and not yet issued

States == {"FlightIdle", "PingCentralStation", "GarageOpen", "BLEConnected",
           "AntReady", "AntRun"}

\* The destinations a header can name.
Destination == {"Frontend", "CentralStation", "Ant", "Ground"}

\* The events the machine has an arm for; any other one takes the last arm.
BLEEvents   == {"CSBLEConnect", "CSBLEDisconnect"}
RoverEvents == {"FERoverStop", "FERoverMove"}
StepEvents  == BLEEvents \cup RoverEvents \cup
                 {"FEPowerSupplied", "FEGarageOpen", "DebugCSPing", "AntPing"}

ASSUME HandlesAssumption == NoTask \notin Handles
ASSUME MessagesAssumption == \A m \in UpMsgs : m.dest \in Destination
ASSUME BoundsAssumption ==
    MaxRetry \in Nat /\ MaxMailbox \in Nat /\ MaxPings \in Nat

VARIABLES
    state,      \* StateMachine.state
    running,    \* StateMachine.running_task
    pending,    \* StateMachine.pending_evt
    tasks,      \* the cancellable items of the context, by handle
    sends,      \* spawned do_send futures: nobody keeps their handles
    wait,       \* the future given to ctx.wait
    mbox,       \* the mailbox
    poll,       \* the arbiter is inside this actor's poll
    alive,      \* the process runs
    rover,      \* history: last rover event handled since boot
    ble,        \* history: last BLE event handled since boot
    antCmd      \* history: last command this actor issued to the ant

actor == <<state, running, pending>>
hist  == <<rover, ble, antCmd>>
vars  == <<actor, tasks, sends, wait, mbox, poll, alive, hist>>

-----------------------------------------------------------------------------
(* Tasks, messages, types.                                                  *)

TimerKinds == {"Pings", "ReadyTimer", "StartTimer", "StartInterval"}
SendKinds  == {"GarageOpen", "AntStop"}

\* A task is a timer, or a send_retry between two attempts ("ready") or
\* awaiting a reply ("await") after "tries" attempts.
Task == [kind : TimerKinds \cup SendKinds \cup {"none"},
         phase : {"armed", "ready", "await"}, tries : Nat]

Idle      == [kind |-> "none", phase |-> "armed", tries |-> 0]
Timer(k)  == [kind |-> k, phase |-> "armed", tries |-> 0]
Retry(k)  == [kind |-> k, phase |-> "ready", tries |-> 0]

Waits == {"none", "AntStart", "AntStartSent", "CSPing", "AntPing"}

Live(h) == tasks[h].kind # "none"

Messages == [src : {"UpCommand", "DownMessage", "EventWrap"},
             event : {m.event : m \in UpMsgs} \cup DownEvents \cup {"FERoverStop"},
             dest : Destination]

Message(src, e, d) == [src |-> src, event |-> e, dest |-> d]

\* Type invariant of the actor and its context.
TypeOK ==
    /\ state \in States
    /\ running \in Handles \cup {NoTask}
    /\ pending \in {"none", "FERoverStop"}
    /\ tasks \in [Handles -> Task]
    /\ sends \in [{"CSPing", "Forward"} -> Nat]
    /\ wait \in Waits
    /\ mbox \in Seq(Messages)
    /\ poll \in BOOLEAN
    /\ alive \in BOOLEAN
    /\ rover \in RoverEvents \cup {"none"}
    /\ ble \in BLEEvents \cup {"none"}
    /\ antCmd \in {"none", "AntStart", "AntStop"}

Init ==
    /\ state = "FlightIdle"
    /\ running = NoTask
    /\ pending = "none"
    /\ tasks = [h \in Handles |-> Idle]
    /\ sends = [k \in {"CSPing", "Forward"} |-> 0]
    /\ wait = "none"
    /\ mbox = <<>>
    /\ poll = FALSE
    /\ rover = "none"
    /\ ble = "none"
    /\ alive = TRUE
    /\ antCmd = "none"

-----------------------------------------------------------------------------
(* The running task (the old_handle / reset_handle protocol of step).       *)

\* Mutant of ReplaceTask: the old task is not cancelled.
LeakTask(t) ==
    \E h \in Handles :
        /\ h # running /\ ~Live(h)
        /\ running' = h
        /\ tasks' = [tasks EXCEPT ![h] = t]

\* Arm a new task under a fresh handle and cancel the old one.
ReplaceTask(t) ==
    \E h \in Handles :
        /\ h # running
        /\ ~Live(h)
        /\ running' = h
        /\ tasks' = [x \in Handles |-> IF x = h THEN t
                                       ELSE IF x = running THEN Idle
                                       ELSE tasks[x]]

\* reset_handle(): the old task goes on.
KeepTask == UNCHANGED <<running, tasks>>

\* The old handle was taken and no arm put it back: it is cancelled.
CancelTask ==
    /\ running' = NoTask
    /\ tasks' = [x \in Handles |-> IF x = running THEN Idle ELSE tasks[x]]

-----------------------------------------------------------------------------
(* StateMachine::step, one operator per group of arms.                      *)

StepPowerSupplied ==
    /\ IF state = "PingCentralStation"
       THEN KeepTask /\ UNCHANGED state
       ELSE ReplaceTask(Timer("Pings")) /\ state' = "PingCentralStation"
    /\ UNCHANGED <<pending, wait>>

StepGarageOpen ==
    /\ IF state = "GarageOpen" THEN KeepTask ELSE ReplaceTask(Retry("GarageOpen"))
    /\ UNCHANGED <<state, pending, wait>>

\* Mutant of StepBLEDisconnect: the arm puts the old handle back.
DisconnectKeepsTask ==
    /\ KeepTask
    /\ state' = "GarageOpen"
    /\ UNCHANGED <<pending, wait>>

StepBLEDisconnect ==
    /\ CancelTask
    /\ state' = "GarageOpen"
    /\ UNCHANGED <<pending, wait>>

StepBLEConnect ==
    /\ IF state = "BLEConnected"
       THEN KeepTask /\ UNCHANGED state
       ELSE ReplaceTask(Timer("ReadyTimer")) /\ state' = "BLEConnected"
    /\ UNCHANGED <<pending, wait>>

\* Mutant of StepRoverStop: queueing the stop forgets reset_handle.
StopDropsTask ==
    /\ \/ state = "AntRun" /\ KeepTask /\ UNCHANGED <<state, pending>>
       \/ /\ state = "AntReady"
          /\ ReplaceTask(Timer("StartTimer"))
          /\ state' = "AntRun"
          /\ UNCHANGED pending
       \/ /\ state \notin {"AntRun", "AntReady"}
          /\ CancelTask
          /\ pending' = "FERoverStop"
          /\ UNCHANGED state
    /\ UNCHANGED wait

StepRoverStop ==
    /\ \/ state = "AntRun" /\ KeepTask /\ UNCHANGED <<state, pending>>
       \/ /\ state = "AntReady"
          /\ ReplaceTask(Timer("StartTimer"))
          /\ state' = "AntRun"
          /\ UNCHANGED pending
       \/ /\ state \notin {"AntRun", "AntReady"}
          /\ KeepTask
          /\ pending' = "FERoverStop"
          /\ UNCHANGED state
    /\ UNCHANGED wait

\* Mutants of StepRoverMove: the move is remembered like a stop is; the
\* deferred stop is not cleared; the ant is not told to stop.
MoveIsDeferred ==
    /\ IF state = "AntRun"
       THEN ReplaceTask(Retry("AntStop")) /\ state' = "AntReady" /\ UNCHANGED pending
       ELSE KeepTask /\ pending' = "FERoverMove" /\ UNCHANGED state
    /\ UNCHANGED wait

MoveKeepsDeferred ==
    /\ IF state = "AntRun"
       THEN ReplaceTask(Retry("AntStop")) /\ state' = "AntReady"
       ELSE KeepTask /\ UNCHANGED state
    /\ UNCHANGED <<pending, wait>>

MoveOnlyCancels ==
    /\ IF state = "AntRun"
       THEN CancelTask /\ state' = "AntReady" /\ UNCHANGED pending
       ELSE KeepTask /\ pending' = "none" /\ UNCHANGED state
    /\ UNCHANGED wait

StepRoverMove ==
    /\ IF state = "AntRun"
       THEN /\ ReplaceTask(Retry("AntStop"))
            /\ state' = "AntReady"
            /\ UNCHANGED pending
       ELSE KeepTask /\ pending' = "none" /\ UNCHANGED state
    /\ UNCHANGED wait

\* The two pings the actor waits for before it takes the next message.
StepPing(w) ==
    /\ KeepTask
    /\ wait' = w
    /\ UNCHANGED <<state, pending>>

\* Mutant of StepOther: an event without effect forgets reset_handle.
OtherDropsTask == CancelTask /\ UNCHANGED <<state, pending, wait>>

StepOther == KeepTask /\ UNCHANGED <<state, pending, wait>>

Step(e) ==
    \/ e = "FEPowerSupplied" /\ StepPowerSupplied
    \/ e = "FEGarageOpen"    /\ StepGarageOpen
    \/ e = "CSBLEDisconnect" /\ StepBLEDisconnect
    \/ e = "CSBLEConnect"    /\ StepBLEConnect
    \/ e = "FERoverStop"     /\ StepRoverStop
    \/ e = "FERoverMove"     /\ StepRoverMove
    \/ e = "DebugCSPing"     /\ StepPing("CSPing")
    \/ e = "AntPing"         /\ StepPing("AntPing")
    \/ e \notin StepEvents   /\ StepOther

-----------------------------------------------------------------------------
(* Mailbox.                                                                 *)

\* The mailbox is looked at only inside a poll with no wait future left.
Take(src) ==
    /\ alive /\ poll /\ wait = "none"
    /\ mbox # <<>>
    /\ Head(mbox).src = src
    /\ mbox' = Tail(mbox)
    /\ UNCHANGED <<poll, alive, antCmd>>

Note(e) ==
    /\ rover' = IF e \in RoverEvents THEN e ELSE rover
    /\ ble' = IF e \in BLEEvents THEN e ELSE ble

\* Commands for the ant or the central station are forwarded as they came.
HandleUpCommand ==
    LET m == Head(mbox) IN
    /\ Take("UpCommand")
    /\ m.event # "FERestart"
    /\ Step(m.event)
    /\ sends' = IF m.dest \in {"Ant", "CentralStation"}
                THEN [sends EXCEPT !["Forward"] = @ + 1] ELSE sends
    /\ Note(m.event)

HandleDownMessage ==
    LET e == Head(mbox).event IN
    /\ Take("DownMessage")
    /\ IF e \in BLEEvents THEN Step(e) ELSE UNCHANGED <<actor, tasks, wait>>
    /\ Note(IF e \in BLEEvents THEN e ELSE "none")
    /\ UNCHANGED sends

\* The replay of the deferred rover stop (not a new rover event).
HandleEventWrap ==
    /\ Take("EventWrap")
    /\ Step(Head(mbox).event)
    /\ UNCHANGED <<sends, rover, ble>>

\* FERestart ends the process: what is queued or under way is lost with it.
HandleRestart ==
    /\ alive /\ poll /\ wait = "none"
    /\ mbox # <<>>
    /\ Head(mbox).src = "UpCommand" /\ Head(mbox).event = "FERestart"
    /\ alive' = FALSE
    /\ UNCHANGED <<actor, tasks, sends, wait, mbox, poll, hist>>

\* docker's --restart on-failure starts the process again.
Restart ==
    /\ ~alive
    /\ alive' = TRUE
    /\ state' = "FlightIdle" /\ running' = NoTask /\ pending' = "none"
    /\ tasks' = [h \in Handles |-> Idle]
    /\ sends' = [k \in {"CSPing", "Forward"} |-> 0]
    /\ wait' = "none" /\ mbox' = <<>> /\ poll' = FALSE
    /\ rover' = "none" /\ ble' = "none"
    /\ UNCHANGED antCmd

-----------------------------------------------------------------------------
(* The future given to ctx.wait.                                            *)

Waiting(w) == alive /\ poll /\ wait = w

\* send_ant_start issues its request ...
IssueAntStart ==
    /\ Waiting("AntStart")
    /\ wait' = "AntStartSent"
    /\ antCmd' = "AntStart"
    /\ UNCHANGED <<actor, tasks, sends, mbox, poll, alive, rover, ble>>

\* ... and ends on an ack, a refusal or the timeout alike.
AntStartDone ==
    /\ Waiting("AntStartSent")
    /\ wait' = "none"
    /\ UNCHANGED <<actor, tasks, sends, mbox, poll, alive, hist>>

PingIssued ==
    /\ Waiting("CSPing") \/ Waiting("AntPing")
    /\ wait' = "none"
    /\ UNCHANGED <<actor, tasks, sends, mbox, poll, alive, hist>>

-----------------------------------------------------------------------------
(* Items: timers and sends.                                                 *)

\* Items are polled once the mailbox is drained; what an item sends to its
\* own actor in that poll may already be queued.
Drained == wait = "none" /\ \A i \in 1..Len(mbox) : mbox[i].src = "EventWrap"

Polled(h, k) == alive /\ poll /\ Drained /\ tasks[h].kind = k

\* run_interval(5 s): spawn a ping.
PingDue(h) ==
    /\ Polled(h, "Pings")
    /\ sends["CSPing"] < MaxPings
    /\ sends' = [sends EXCEPT !["CSPing"] = @ + 1]
    /\ UNCHANGED <<actor, tasks, wait, mbox, poll, alive, hist>>

\* Mutants of ReadyDue: the stop is replayed before the state is set; the
\* deferred stop is read and not taken.
ReadyReplaysEarly(h) ==
    /\ Polled(h, "ReadyTimer")
    /\ tasks' = [tasks EXCEPT ![h] = Idle]
    /\ pending' = "none"
    /\ mbox' = IF pending = "none" THEN mbox
               ELSE Append(mbox, Message("EventWrap", pending, "Frontend"))
    /\ UNCHANGED <<state, running, sends, wait, poll, alive, hist>>

ReadyKeepsDeferred(h) ==
    /\ Polled(h, "ReadyTimer")
    /\ tasks' = [tasks EXCEPT ![h] = Idle]
    /\ state' = "AntReady"
    /\ mbox' = IF pending = "none" THEN mbox
               ELSE Append(mbox, Message("EventWrap", pending, "Frontend"))
    /\ UNCHANGED <<running, pending, sends, wait, poll, alive, hist>>

\* run_later(60 s) after the BLE connection: the ant is ready, and a rover
\* stop that was deferred is replayed through the mailbox.
ReadyDue(h) ==
    /\ Polled(h, "ReadyTimer")
    /\ tasks' = [tasks EXCEPT ![h] = Idle]
    /\ state' = "AntReady"
    /\ pending' = "none"
    /\ mbox' = IF pending = "none" THEN mbox
               ELSE Append(mbox, Message("EventWrap", pending, "Frontend"))
    /\ UNCHANGED <<running, sends, wait, poll, alive, hist>>

\* Mutant of StartDue: the handle of the new interval is not kept.
StartForgetsInterval(h) ==
    /\ Polled(h, "StartTimer")
    /\ wait' = "AntStart"
    /\ \E i \in Handles :
         /\ i # h /\ i # running /\ ~Live(i)
         /\ tasks' = [tasks EXCEPT ![h] = Idle, ![i] = Timer("StartInterval")]
    /\ UNCHANGED <<actor, sends, mbox, poll, alive, hist>>

\* run_later(10 s) after the rover stopped: send AntStart, repeat every 30 s.
StartDue(h) ==
    /\ Polled(h, "StartTimer")
    /\ wait' = "AntStart"
    /\ \E i \in Handles :
         /\ i # h /\ i # running /\ ~Live(i)
         /\ running' = i
         /\ tasks' = [tasks EXCEPT ![h] = Idle, ![i] = Timer("StartInterval")]
    /\ UNCHANGED <<state, pending, sends, mbox, poll, alive, hist>>

IntervalDue(h) ==
    /\ Polled(h, "StartInterval")
    /\ wait' = "AntStart"
    /\ UNCHANGED <<actor, tasks, sends, mbox, poll, alive, hist>>

\* Mutant of Attempt: attempts are not counted.
UncountedAttempt(h, k) ==
    /\ Polled(h, k)
    /\ tasks[h].phase = "ready"
    /\ tasks' = [tasks EXCEPT ![h].phase = "await"]
    /\ antCmd' = IF k = "AntStop" THEN "AntStop" ELSE antCmd
    /\ UNCHANGED <<actor, sends, wait, mbox, poll, alive, rover, ble>>

\* send_retry issues its next attempt.
Attempt(h, k) ==
    /\ Polled(h, k)
    /\ tasks[h].phase = "ready"
    /\ tasks' = [tasks EXCEPT ![h].phase = "await", ![h].tries = @ + 1]
    /\ antCmd' = IF k = "AntStop" THEN "AntStop" ELSE antCmd
    /\ UNCHANGED <<actor, sends, wait, mbox, poll, alive, rover, ble>>

\* A refusal, a timeout or a dropped request: retry, or give up.  Giving up
\* is only logged, running_task keeps the handle of the ended task.
AttemptFailed(h, k) ==
    /\ Polled(h, k)
    /\ tasks[h].phase = "await"
    /\ tasks' = [tasks EXCEPT ![h] = IF tasks[h].tries <= MaxRetry
                                     THEN [tasks[h] EXCEPT !.phase = "ready"]
                                     ELSE Idle]
    /\ UNCHANGED <<actor, sends, wait, mbox, poll, alive, hist>>

GarageOpenAcked(h) ==
    /\ Polled(h, "GarageOpen")
    /\ tasks[h].phase = "await"
    /\ tasks' = [tasks EXCEPT ![h] = Idle]
    /\ running' = NoTask
    /\ state' = "GarageOpen"
    /\ UNCHANGED <<pending, sends, wait, mbox, poll, alive, hist>>

AntStopAcked(h) ==
    /\ Polled(h, "AntStop")
    /\ tasks[h].phase = "await"
    /\ tasks' = [tasks EXCEPT ![h] = Idle]
    /\ UNCHANGED <<actor, sends, wait, mbox, poll, alive, hist>>

\* A spawned do_send hands its message to the commander.  Items are kept in
\* a vector that is compacted by swapping, so the order is not the mailbox's.
SendIssued(s) ==
    /\ alive /\ poll /\ Drained
    /\ sends[s] > 0
    /\ sends' = [sends EXCEPT ![s] = @ - 1]
    /\ UNCHANGED <<actor, tasks, wait, mbox, poll, alive, hist>>

-----------------------------------------------------------------------------
(* The arbiter, and what arrives between two polls.                         *)

BeginPoll ==
    /\ alive /\ ~poll
    /\ poll' = TRUE
    /\ UNCHANGED <<actor, tasks, sends, wait, mbox, alive, hist>>

EndPoll ==
    /\ alive /\ poll
    /\ wait # "none" \/ Drained
    /\ poll' = FALSE
    /\ UNCHANGED <<actor, tasks, sends, wait, mbox, alive, hist>>

Arrive(m) ==
    /\ alive /\ ~poll
    /\ Len(mbox) + sends["Forward"] < MaxMailbox
    /\ mbox' = Append(mbox, m)
    /\ UNCHANGED <<actor, tasks, sends, wait, poll, alive, hist>>

UpCommandArrives   == \E m \in UpMsgs : Arrive(Message("UpCommand", m.event, m.dest))
DownMessageArrives == \E e \in DownEvents : Arrive(Message("DownMessage", e, "Frontend"))

-----------------------------------------------------------------------------
Handle == HandleUpCommand \/ HandleDownMessage \/ HandleEventWrap \/ HandleRestart

WaitStep == IssueAntStart \/ AntStartDone \/ PingIssued

TimerStep(h) == PingDue(h) \/ ReadyDue(h) \/ StartDue(h) \/ IntervalDue(h)

SendStep(h) ==
    \/ \E k \in SendKinds : Attempt(h, k) \/ AttemptFailed(h, k)
    \/ GarageOpenAcked(h)
    \/ AntStopAcked(h)

ItemStep == \E h \in Handles : TimerStep(h) \/ SendStep(h)

Next ==
    \/ Handle
    \/ WaitStep
    \/ ItemStep
    \/ \E s \in {"CSPing", "Forward"} : SendIssued(s)
    \/ BeginPoll \/ EndPoll
    \/ UpCommandArrives \/ DownMessageArrives
    \/ Restart

Spec == Init /\ [][Next]_vars

\* Fairness: the arbiter polls the actor again and again, a poll ends (the
\* mailbox is drained, since nothing arrives during it), and an armed timer or
\* a pending reply shows up in some poll: timers of tokio fire, and every
\* awaited request carries a timeout.  (One task is alive at a time, so it is
\* enough to be fair to the items together.)
FairSpec ==
    /\ Spec
    /\ WF_vars(BeginPoll) /\ WF_vars(EndPoll) /\ WF_vars(Restart)
    /\ SF_vars(Handle) /\ SF_vars(WaitStep)
    /\ SF_vars(ItemStep)

-----------------------------------------------------------------------------
(* Safety.                                                                  *)

Running(k) == \E h \in Handles : tasks[h].kind = k

\* Every cancellable item alive in the context is the one running_task names:
\* no path through step's take / reset_handle / cancel leaves an orphan that
\* nobody can cancel any more.
SingleTask == \A h \in Handles : Live(h) => h = running

\* What runs in the background belongs to the state the machine is in: pings
\* while pinging, the one-minute delay while BLE is up, AntStart only in
\* AntRun, AntStop only in AntReady with the rover moving, and no garage-open
\* request once open.
TaskFitsState ==
    /\ Running("Pings") => state = "PingCentralStation"
    /\ Running("ReadyTimer") => state = "BLEConnected"
    /\ Running("StartTimer") \/ Running("StartInterval") => state = "AntRun"
    /\ Running("AntStop") => state = "AntReady" /\ rover = "FERoverMove"
    /\ Running("GarageOpen") => state # "GarageOpen"

\* The machine believes the ant is reachable only if the last BLE event it
\* handled was a connect: no delay armed before a disconnect fires after it.
LinkTracked ==
    state \in {"BLEConnected", "AntReady", "AntRun"} => ble = "CSBLEConnect"

\* The machine runs the ant, or has an AntStart under way, only if the last
\* rover event it handled was a stop: no deferred stop survives a move, and
\* none overtakes one in the mailbox.
RunsOnlyWhenStopped ==
    /\ state = "AntRun" => rover = "FERoverStop"
    /\ pending = "FERoverStop" => rover = "FERoverStop"
    /\ wait \in {"AntStart", "AntStartSent"} =>
           state = "AntRun" /\ Running("StartInterval")

\* A stop is deferred only until the ant is ready: pending_evt is never left
\* set in a state whose arms do not look at it.
DeferredUntilReady == state \in {"AntReady", "AntRun"} => pending = "none"

\* A replayed stop waits at the head of the mailbox, for a machine that is
\* still ready: whatever arrived since is behind it.
ReplayIsNext ==
    \A i \in 1..Len(mbox) : mbox[i].src = "EventWrap" =>
        /\ i = 1 /\ mbox[i].event = "FERoverStop"
        /\ state = "AntReady" /\ rover = "FERoverStop" /\ wait = "none"
        /\ \A h \in Handles : ~Live(h)

\* Action property: the last word to the ant is only changed to AntStart by a
\* machine whose rover stands still and whose link is up, and to AntStop by
\* one whose rover moves.
CommandsFollowRover ==
    [][/\ antCmd' # antCmd /\ antCmd' = "AntStart" =>
              rover = "FERoverStop" /\ ble = "CSBLEConnect"
       /\ antCmd' # antCmd /\ antCmd' = "AntStop" =>
              rover = "FERoverMove" /\ ble = "CSBLEConnect"]_vars

\* The inductive invariant: no part of it is inductive without the others.
Inv ==
    /\ TypeOK
    /\ SingleTask
    /\ TaskFitsState
    /\ LinkTracked
    /\ RunsOnlyWhenStopped
    /\ DeferredUntilReady
    /\ ReplayIsNext

-----------------------------------------------------------------------------
(* Refinement.                                                              *)

\* The job of ModeControl is the live task running_task names; the stop it
\* owes is in pending_evt or on its way back through the mailbox.
Job == IF running \in Handles THEN tasks[running].kind ELSE "none"

Owed ==
    \/ pending = "FERoverStop"
    \/ \E i \in 1..Len(mbox) : mbox[i].src = "EventWrap"

Mode == INSTANCE ModeControl WITH job <- Job, owed <- Owed

\* The actor with its handles, cancellations, mailbox and poll order behaves
\* as the mode controller: no task outlives the event that replaced it, and
\* no deferred stop is lost, doubled or reordered against a move.
ImplementsMode == Mode!Spec

-----------------------------------------------------------------------------
(* Liveness.                                                                *)

Queued(e) == \E i \in 1..Len(mbox) : mbox[i].event = e

\* A stop deferred until the ant is ready does start the ant run, unless the
\* rover moves, the link drops, or another command takes the machine over.
DeferredStopRuns ==
    (Running("ReadyTimer") /\ pending = "FERoverStop") ~>
        \/ state = "AntRun"
        \/ rover # "FERoverStop" \/ ble # "CSBLEConnect"
        \/ state = "PingCentralStation" \/ Running("GarageOpen")

\* A rover move that is queued while the actor is blocked on an AntStart is
\* still answered by an AntStop, unless something supersedes it: a new stop,
\* a lost link, a garage or power command, a restart.
MoveStopsAnt ==
    (state = "AntRun" /\ antCmd = "AntStart" /\ Queued("FERoverMove")) ~>
        \/ antCmd = "AntStop"
        \/ Running("StartTimer") \/ Running("GarageOpen")
        \/ state \notin {"AntRun", "AntReady"}

\* Retries are bounded: a request to the central station or the ant ends,
\* acknowledged, given up or superseded, unless the ground asks for the garage
\* opening again.
SendsEnd ==
    \A k \in SendKinds : Running(k) ~> (~Running(k) \/ Queued("FEGarageOpen"))

-----------------------------------------------------------------------------
(* What the documentation says and the code does not do.                    *)

\* README.md: "After sending 5v supplied, we expect periodic CSPing[Ack]
\* messages": while the machine is in the pinging state something pings, or
\* is about to leave that state.
PingsWhilePinging ==
    state = "PingCentralStation" => Running("Pings") \/ Running("GarageOpen")

\* README.md: "After sending rover turning, assuming ant is present:
\* AntStop[Ack]": with the ant connected, ready and last told to start, a
\* rover that moves has an AntStop under way.
TurningStopsAnt ==
    state = "AntReady" /\ rover = "FERoverMove" /\ antCmd = "AntStart"
        => Running("AntStop")

=============================================================================
