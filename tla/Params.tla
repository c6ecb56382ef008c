------------------------------- MODULE Params -------------------------------
(***************************************************************************)
(* Where unique ids come from: params() (runtime/src/system/mod.rs) asks   *)
(* the time service and the sequence service, each found through the       *)
(* override registry that tests put mocks into, and joins the answers,     *)
(* which may be given in any order and with other calls in between.        *)
(* message/src/mission_epoch.rs turns the time into the timestamp.         *)
(***************************************************************************)
EXTENDS Integers, FiniteSets

CONSTANTS
    Callers,     \* concurrent callers of params()
    TimeValues,  \* values of a timestamp; 2^32 in the code
    SeqValues,   \* values of the counter; 256 in the code
    Times,       \* bound: times of the clock, in milliseconds since the epoch
    MaxDraws,    \* bound: numbers drawn
    MaxBoots,    \* bound: restarts of the process
    Mocks,       \* services that tests may override
    MockAnswer   \* what a mock answers

Services == {"time", "seq"}

ASSUME WidthAssumption == TimeValues \in Nat /\ TimeValues > 1 /\ SeqValues \in Nat \ {0}
ASSUME TimeAssumption == Times \subseteq Int /\ Mocks \subseteq Services /\ MockAnswer \in Nat

VARIABLES
    clock,       \* milliseconds since the epoch
    counter,     \* SeqService
    overridden,  \* OverrideRegistry.map: services with a mock
    step,        \* per caller and service: "none", "query", "real", "mock", "done"
    answer,      \* per caller: what the services answered so far
    wanted,      \* history: mocks set and not reset
    scope,       \* history, per caller: mocks wanted at some time of its call
    drawn,       \* history: numbers drawn
    boots,       \* history: restarts
    issued       \* history: what params() returned

scopes == <<wanted, scope>>
vars == <<clock, counter, overridden, step, answer, scopes, drawn, boots, issued>>

-----------------------------------------------------------------------------
(* MissionEpoch.                                                            *)

Max32 == TimeValues - 1    \* u32::MAX

\* From<DateTime<Utc>>: the remainder has the sign of the dividend, and the
\* cast to u32 is modulo 2^32.
ToEpoch(ms) == (IF ms >= 0 THEN ms % Max32 ELSE -((-ms) % Max32)) % TimeValues

\* From<MissionEpoch> for DateTime<Utc>, in milliseconds since the epoch.
FromEpoch(v) == v

-----------------------------------------------------------------------------
NoAnswer == [time |-> 0, ms |-> 0, seq |-> 0, draw |-> 0, boot |-> 0, mocked |-> {}]
Answers  == [time : Int, ms : Int, seq : Nat, draw : Nat, boot : Nat, mocked : SUBSET Services]

TypeOK ==
    /\ clock \in Times
    /\ counter \in 0..(SeqValues - 1)
    /\ overridden \subseteq Services
    /\ step \in [Callers -> [Services -> {"none", "query", "real", "mock", "done"}]]
    /\ answer \in [Callers -> Answers]
    /\ wanted \subseteq Services /\ scope \in [Callers -> SUBSET Services]
    /\ drawn \in Nat /\ boots \in Nat
    /\ issued \subseteq Answers

Idle == [s \in Services |-> "none"]

Init ==
    /\ clock \in Times
    /\ counter = 0 /\ overridden = {} /\ drawn = 0 /\ boots = 0
    /\ step = [c \in Callers |-> Idle]
    /\ answer = [c \in Callers |-> NoAnswer]
    /\ wanted = {} /\ scope = [c \in Callers |-> {}]
    /\ issued = {}

\* join(time(), seq()): both start by asking the registry.
Begin(c) ==
    /\ step[c] = Idle
    /\ step' = [step EXCEPT ![c] = [s \in Services |-> "query"]]
    /\ scope' = [scope EXCEPT ![c] = wanted]
    /\ UNCHANGED <<wanted, clock, counter, overridden, answer, drawn, boots, issued>>

\* OverrideRegistry::query: the mock, or the service.
Query(c, s) ==
    /\ step[c][s] = "query"
    /\ step' = [step EXCEPT ![c][s] = IF s \in overridden THEN "mock" ELSE "real"]
    /\ UNCHANGED <<scopes, clock, counter, overridden, answer, drawn, boots, issued>>

Time(c) ==
    /\ step[c]["time"] = "real"
    /\ answer' = [answer EXCEPT ![c].time = ToEpoch(clock), ![c].ms = clock]
    /\ step' = [step EXCEPT ![c]["time"] = "done"]
    /\ UNCHANGED <<scopes, clock, counter, overridden, drawn, boots, issued>>

\* Mutant of Advance: the counter stays at its largest value.
Saturate(n) == IF n = SeqValues - 1 THEN n ELSE n + 1

\* AtomicU8::fetch_add.
Advance(n) == (n + 1) % SeqValues

Seq(c) ==
    /\ step[c]["seq"] = "real" /\ drawn < MaxDraws
    /\ counter' = Advance(counter)
    /\ drawn' = drawn + 1
    /\ answer' = [answer EXCEPT ![c].seq = counter, ![c].draw = drawn', ![c].boot = boots]
    /\ step' = [step EXCEPT ![c]["seq"] = "done"]
    /\ UNCHANGED <<scopes, clock, overridden, boots, issued>>

Mock(c, s) ==
    /\ step[c][s] = "mock"
    /\ answer' = [answer EXCEPT ![c].mocked = @ \cup {s},
                                ![c].time = IF s = "time" THEN MockAnswer ELSE @,
                                ![c].seq  = IF s = "seq" THEN MockAnswer ELSE @]
    /\ step' = [step EXCEPT ![c][s] = "done"]
    /\ UNCHANGED <<scopes, clock, counter, overridden, drawn, boots, issued>>

Join(c) ==
    /\ \A s \in Services : step[c][s] = "done"
    /\ issued' = issued \cup {answer[c]}
    /\ step' = [step EXCEPT ![c] = Idle]
    /\ answer' = [answer EXCEPT ![c] = NoAnswer]
    /\ UNCHANGED <<scopes, clock, counter, overridden, drawn, boots>>

\* OverrideRegistry::set and reset.
SetOverride(s) ==
    /\ s \in Mocks \ overridden
    /\ overridden' = overridden \cup {s}
    /\ wanted' = wanted \cup {s} /\ scope' = [c \in Callers |-> scope[c] \cup {s}]
    /\ UNCHANGED <<clock, counter, step, answer, drawn, boots, issued>>

\* Mutant of ResetOverride: the entry is not removed.
ResetNothing(s) ==
    /\ s \in wanted /\ wanted' = wanted \ {s}
    /\ UNCHANGED <<scope, overridden, clock, counter, step, answer, drawn, boots, issued>>

ResetOverride(s) ==
    /\ s \in wanted /\ wanted' = wanted \ {s}
    /\ overridden' = overridden \ {s}
    /\ UNCHANGED <<scope, clock, counter, step, answer, drawn, boots, issued>>

\* Time passes, or the system's clock is set, forwards or back.
Tick ==
    /\ clock' \in Times \ {clock}
    /\ UNCHANGED <<scopes, counter, overridden, step, answer, drawn, boots, issued>>

\* The process starts anew.
Restart ==
    /\ boots < MaxBoots
    /\ boots' = boots + 1
    /\ counter' = 0 /\ overridden' = {} /\ wanted' = {}
    /\ step' = [c \in Callers |-> Idle]
    /\ answer' = [c \in Callers |-> NoAnswer]
    /\ UNCHANGED <<clock, scope, drawn, issued>>

\* The instance is used up.
Stop ==
    /\ drawn = MaxDraws
    /\ UNCHANGED vars

Next ==
    \/ \E c \in Callers :
         \/ Begin(c) \/ Time(c) \/ Seq(c) \/ Join(c)
         \/ \E s \in Services : Query(c, s) \/ Mock(c, s)
    \/ \E s \in Services : SetOverride(s) \/ ResetOverride(s)
    \/ Tick \/ Restart \/ Stop

Spec == Init /\ [][Next]_vars

-----------------------------------------------------------------------------
Apart(x, y, n) == x - y >= n \/ y - x >= n

\* Ids repeat only when both halves do: the two numbers were drawn as many
\* draws apart as the counter has values, or before and after a restart; and
\* the clock was read in the same millisecond, a full turn of the timestamp
\* apart, or on the two sides of the epoch.  So Commander's ids are unique as
\* long as fewer than 256 are drawn between the readings of one millisecond.
IdsRepeatLate ==
    \A x, y \in {a \in issued : a.mocked = {}} :
        x # y /\ x.time = y.time /\ x.seq = y.seq =>
            /\ x.boot # y.boot \/ Apart(x.draw, y.draw, SeqValues)
            /\ x.ms = y.ms \/ Apart(x.ms, y.ms, Max32) \/ (x.ms < 0) # (y.ms < 0)

\* A mock answers only calls during which it was set: once it is reset, whoever
\* asks anew gets the service, though an answer of the mock may still be pending.
MocksAreScoped == \A c \in Callers : answer[c].mocked \subseteq scope[c]

\* A timestamp stands for the time it was made from during the first turn of
\* the counter after the epoch, and never before the epoch or after it.
EpochExact == FromEpoch(ToEpoch(clock)) = clock <=> clock \in 0..(Max32 - 1)

\* What holds at any time.
ParamsInv == TypeOK /\ MocksAreScoped /\ EpochExact
=============================================================================
