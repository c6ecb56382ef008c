---------------------------- MODULE ParamsProofs ----------------------------
(***************************************************************************)
(* Proofs about Params, for any number of callers, restarts and mocks, any *)
(* clock, and any width of timestamp and counter: ids repeat only when     *)
(* both the clock and the counter have come round, and a mock answers only *)
(* calls during which it was set.                                          *)
(***************************************************************************)
EXTENDS Params, TLAPS

-----------------------------------------------------------------------------
(* The timestamp.                                                           *)

\* Numbers with one remainder are the same or a multiple of the divisor apart.
LEMMA SameRemainder ==
    ASSUME NEW x \in Nat, NEW y \in Nat, NEW m \in Nat \ {0}, x % m = y % m
    PROVE  x = y \/ Apart(x, y, m)
  <1> DEFINE p == x \div m
             q == y \div m
  <1>1. /\ p \in Int /\ q \in Int
        /\ x = m * p + (x % m) /\ y = m * q + (y % m)
    OBVIOUS
  <1>2. x - y = m * (p - q)
    <2>1. x - y = m * p - m * q
      BY <1>1
    <2> QED BY <1>1, <2>1
  <1> HIDE DEF p, q
  <1>3. CASE p = q
    BY <1>1, <1>3
  <1>4. CASE p > q
    <2>1. m * (p - q) >= m * 1
      BY <1>1, <1>4
    <2> QED BY <1>2, <2>1 DEF Apart
  <1>5. CASE q > p
    <2>1. m * (q - p) >= m * 1 /\ m * (q - p) = -(m * (p - q))
      BY <1>1, <1>5
    <2> QED BY <1>2, <2>1 DEF Apart
  <1> QED BY <1>1, <1>3, <1>4, <1>5

\* What ToEpoch gives, for times after and before the epoch.
LEMMA EpochValue ==
    ASSUME NEW x \in Int
    PROVE  /\ ToEpoch(x) \in 0..Max32
           /\ x >= 0 => ToEpoch(x) = x % Max32
           /\ x < 0 => ToEpoch(x) = IF (-x) % Max32 = 0 THEN 0
                                    ELSE TimeValues - ((-x) % Max32)
  <1>1. TimeValues \in Nat /\ TimeValues > 1 /\ Max32 \in Nat \ {0} /\ Max32 < TimeValues
        /\ Max32 = TimeValues - 1
    BY WidthAssumption DEF Max32
  <1>2. \A n \in 0..(TimeValues - 1) : n % TimeValues = n
    BY <1>1
  <1>3. CASE x >= 0
    <2>1. x % Max32 \in 0..(Max32 - 1)
      BY <1>1, <1>3
    <2> QED BY <1>1, <1>2, <1>3, <2>1 DEF ToEpoch
  <1>4. CASE x < 0
    <2> DEFINE r == (-x) % Max32
    <2>1. r \in 0..(Max32 - 1) /\ ToEpoch(x) = (-r) % TimeValues
      BY <1>1, <1>4 DEF ToEpoch
    <2> HIDE DEF r
    <2>2. (-r) % TimeValues = IF r = 0 THEN 0 ELSE TimeValues - r
      BY <1>1, <2>1
    <2> QED BY <1>1, <1>4, <2>1, <2>2 DEF r
  <1> QED BY <1>3, <1>4

\* Times with one timestamp are the same, a turn apart, or on the two sides of
\* the epoch.
LEMMA SameTimestamp ==
    ASSUME NEW x \in Int, NEW y \in Int, ToEpoch(x) = ToEpoch(y)
    PROVE  x = y \/ Apart(x, y, Max32) \/ (x < 0) # (y < 0)
  <1>1. TimeValues \in Nat /\ Max32 \in Nat \ {0} /\ Max32 = TimeValues - 1
    BY WidthAssumption DEF Max32
  <1>2. CASE x >= 0 /\ y >= 0
    BY <1>1, <1>2, EpochValue, SameRemainder
  <1>3. CASE x < 0 /\ y < 0
    <2>1. (-x) % Max32 \in 0..(Max32 - 1) /\ (-y) % Max32 \in 0..(Max32 - 1)
      BY <1>1, <1>3
    <2>2. (-x) % Max32 = (-y) % Max32
      BY <1>1, <1>3, <2>1, EpochValue
    <2>3. -x = -y \/ Apart(-x, -y, Max32)
      BY <1>1, <1>3, <2>2, SameRemainder
    <2> QED BY <1>1, <2>3 DEF Apart
  <1> QED BY <1>2, <1>3

\* A timestamp names its time in the first turn after the epoch, and only there.
LEMMA ExactInFirstTurn ==
    ASSUME NEW x \in Int
    PROVE  FromEpoch(ToEpoch(x)) = x <=> x \in 0..(Max32 - 1)
  <1>1. Max32 \in Nat \ {0}
    BY WidthAssumption DEF Max32
  <1>2. CASE x >= 0
    <2>1. x % Max32 \in 0..(Max32 - 1) /\ (x < Max32 => x % Max32 = x)
      BY <1>1, <1>2
    <2> QED BY <1>1, <1>2, <2>1, EpochValue DEF FromEpoch
  <1>3. CASE x < 0
    BY <1>3, EpochValue DEF FromEpoch
  <1> QED BY <1>2, <1>3

-----------------------------------------------------------------------------
(* What calls have been answered so far.                                    *)

\* An answer in progress belongs to its caller's step: what was not asked yet was
\* not answered, what is done was answered by a mock or by the service.
AnswersFit ==
    \A c \in Callers :
        /\ step[c] = Idle => answer[c] = NoAnswer
        /\ step[c]["seq"] # "done" => answer[c].draw = 0
        /\ step[c]["seq"] = "done" => "seq" \in answer[c].mocked \/ answer[c].draw > 0
        /\ step[c]["time"] = "done" =>
             "time" \in answer[c].mocked \/ answer[c].time = ToEpoch(answer[c].ms)

\* Returned ids were made of a timestamp and a number, unless mocks made them.
IssuedFit ==
    \A a \in issued : a.mocked = {} => a.draw > 0 /\ a.time = ToEpoch(a.ms)

\* Answers, returned or in progress, that hold a number drawn from the service.
Drawn == {a \in issued \cup {answer[c] : c \in Callers} : a.draw > 0}

\* A number drawn is given to one call only.
DrawnOnce ==
    /\ \A a \in Drawn : a.draw <= drawn
    /\ \A a, b \in issued : a.draw > 0 /\ a.draw = b.draw => a = b
    /\ \A a \in issued, c \in Callers : answer[c].draw > 0 => a.draw # answer[c].draw
    /\ \A c, d \in Callers : answer[c].draw > 0 /\ answer[c].draw = answer[d].draw => c = d

\* The counter is as far from a number drawn since the process started as there
\* were draws since, but for whole turns; so equal numbers are turns apart.
CounterTurns ==
    /\ \A a \in Drawn : a.boot <= boots
    /\ \A a \in Drawn : a.boot = boots =>
         \E q \in Nat : counter = a.seq + (drawn + 1 - a.draw) - SeqValues * q
    /\ \A a, b \in Drawn :
         a.boot = b.boot /\ a.seq = b.seq /\ a.draw # b.draw => Apart(a.draw, b.draw, SeqValues)

\* Whoever was sent to a mock was so while the mock was set; a mock that is set
\* counts for every call in progress.
MocksFit ==
    /\ overridden \subseteq wanted
    /\ \A c \in Callers :
         /\ step[c] # Idle => wanted \subseteq scope[c]
         /\ \A s \in Services : step[c][s] = "mock" => s \in scope[c]

Inv == TypeOK /\ AnswersFit /\ IssuedFit /\ DrawnOnce /\ CounterTurns /\ MocksFit /\ MocksAreScoped

-----------------------------------------------------------------------------
(* Types.                                                                   *)

\* The parts of an answer that a step sets.
LEMMA AnswerTypes ==
    ASSUME NEW a \in Answers
    PROVE  /\ \A t \in Int, m \in Int : [a EXCEPT !.time = t, !.ms = m] \in Answers
           /\ \A q, d, b \in Nat : [a EXCEPT !.seq = q, !.draw = d, !.boot = b] \in Answers
           /\ \A s \in Services, t \in Int, q \in Nat :
                [a EXCEPT !.mocked = @ \cup {s}, !.time = t, !.seq = q] \in Answers
  BY DEF Answers

LEMMA TypeStep == TypeOK /\ [Next]_vars => TypeOK'
  <1> SUFFICES ASSUME TypeOK, [Next]_vars PROVE TypeOK'
    OBVIOUS
  <1> USE DEF TypeOK, Services
  <1>1. ASSUME NEW c \in Callers, Begin(c) PROVE TypeOK'
    BY <1>1 DEF Begin
  <1>2. ASSUME NEW c \in Callers, NEW s \in Services, Query(c, s) PROVE TypeOK'
    BY <1>2 DEF Query, scopes
  <1>3. ASSUME NEW c \in Callers, Time(c) PROVE TypeOK'
    <2>1. clock \in Int /\ ToEpoch(clock) \in Int
      BY TimeAssumption, WidthAssumption, EpochValue DEF Max32
    <2>2. answer' \in [Callers -> Answers]
      BY <1>3, <2>1, AnswerTypes DEF Time
    <2> QED BY <1>3, <2>2 DEF Time, scopes
  <1>4. ASSUME NEW c \in Callers, Seq(c) PROVE TypeOK'
    <2>1. counter' \in 0..(SeqValues - 1) /\ drawn' \in Nat /\ counter \in Nat
      BY <1>4, WidthAssumption DEF Seq, Advance
    <2>2. answer' \in [Callers -> Answers]
      BY <1>4, <2>1, AnswerTypes DEF Seq
    <2> QED BY <1>4, <2>1, <2>2 DEF Seq, scopes
  <1>5. ASSUME NEW c \in Callers, NEW s \in Services, Mock(c, s) PROVE TypeOK'
    <2>1. MockAnswer \in Nat /\ MockAnswer \in Int
      BY TimeAssumption
    <2>2. answer[c] \in Answers /\ answer[c].time \in Int /\ answer[c].seq \in Nat
      BY DEF Answers
    <2>3. answer' \in [Callers -> Answers]
      BY <1>5, <2>1, <2>2, AnswerTypes DEF Mock
    <2> QED BY <1>5, <2>3 DEF Mock, scopes
  <1>6. NoAnswer \in Answers /\ Idle \in [Services -> {"none", "query", "real", "mock", "done"}]
    BY DEF NoAnswer, Answers, Idle
  <1>7. ASSUME NEW c \in Callers, Join(c) PROVE TypeOK'
    BY <1>6, <1>7 DEF Join, scopes
  <1>8. ASSUME NEW s \in Services, SetOverride(s) PROVE TypeOK'
    BY <1>8 DEF SetOverride
  <1>9. ASSUME NEW s \in Services, ResetOverride(s) PROVE TypeOK'
    BY <1>9 DEF ResetOverride
  <1>10. CASE Tick
    BY <1>10 DEF Tick, scopes
  <1>11. CASE Restart
    BY <1>6, <1>11, WidthAssumption DEF Restart
  <1>12. CASE Stop \/ UNCHANGED vars
    BY <1>12 DEF Stop, vars, scopes
  <1> QED BY <1>1, <1>2, <1>3, <1>4, <1>5, <1>7, <1>8, <1>9, <1>10, <1>11, <1>12 DEF Next

LEMMA InvInit == Init => Inv
  <1> SUFFICES ASSUME Init PROVE Inv
    OBVIOUS
  <1> USE DEF Init
  <1>1. TypeOK
    BY WidthAssumption DEF TypeOK, Idle, NoAnswer, Answers, Services
  <1>2. AnswersFit /\ IssuedFit /\ MocksFit /\ MocksAreScoped
    BY DEF AnswersFit, IssuedFit, MocksFit, MocksAreScoped, Idle, NoAnswer, Services
  <1>3. Drawn = {}
    BY DEF Drawn, NoAnswer
  <1>4. DrawnOnce /\ CounterTurns
    BY <1>3 DEF DrawnOnce, CounterTurns, NoAnswer
  <1> QED BY <1>1, <1>2, <1>4 DEF Inv

-----------------------------------------------------------------------------
(* Answers and mocks.                                                       *)

\* Every step keeps answers with the steps that gave them, and mocks with the
\* calls they were set in.
LEMMA FitStep ==
    Inv /\ [Next]_vars => AnswersFit' /\ IssuedFit' /\ MocksFit' /\ MocksAreScoped'
  <1> SUFFICES ASSUME Inv, [Next]_vars
               PROVE  AnswersFit' /\ IssuedFit' /\ MocksFit' /\ MocksAreScoped'
    OBVIOUS
  <1> USE DEF Inv, TypeOK, AnswersFit, IssuedFit, MocksFit, MocksAreScoped, Services
  <1>1. ASSUME NEW c \in Callers, Begin(c)
        PROVE  AnswersFit' /\ IssuedFit' /\ MocksFit' /\ MocksAreScoped'
    <2>1. /\ \A d \in Callers : d # c => step'[d] = step[d] /\ scope'[d] = scope[d]
          /\ \A s \in Services : step'[c][s] = "query"
          /\ step'[c] # Idle /\ scope'[c] = wanted
          /\ answer[c].draw = 0 /\ answer[c].mocked = {}
      BY <1>1 DEF Begin, Idle, NoAnswer
    <2> QED BY <1>1, <2>1 DEF Begin
  <1>2. ASSUME NEW c \in Callers, NEW s \in Services, Query(c, s)
        PROVE  AnswersFit' /\ IssuedFit' /\ MocksFit' /\ MocksAreScoped'
    <2>1. step[c] # Idle
      BY <1>2 DEF Query, Idle
    <2>2. /\ \A d \in Callers : d # c => step'[d] = step[d]
          /\ \A t \in Services : t # s => step'[c][t] = step[c][t]
          /\ step'[c][s] # "done" /\ (step'[c][s] = "mock" => s \in overridden)
          /\ step'[c] # Idle
      BY <1>2 DEF Query, Idle
    <2> QED BY <1>2, <2>1, <2>2 DEF Query, scopes
  <1>3. ASSUME NEW c \in Callers, Time(c)
        PROVE  AnswersFit' /\ IssuedFit' /\ MocksFit' /\ MocksAreScoped'
    <2>1. step[c] # Idle
      BY <1>3 DEF Time, Idle
    <2>2. /\ \A d \in Callers : d # c => answer'[d] = answer[d] /\ step'[d] = step[d]
          /\ answer'[c].time = ToEpoch(clock) /\ answer'[c].ms = clock
          /\ answer'[c].draw = answer[c].draw /\ answer'[c].mocked = answer[c].mocked
          /\ step'[c]["time"] = "done" /\ step'[c]["seq"] = step[c]["seq"]
          /\ step'[c] # Idle
      BY <1>3 DEF Time, Answers, Idle
    <2> QED BY <1>3, <2>1, <2>2 DEF Time, scopes
  <1>4. ASSUME NEW c \in Callers, Seq(c)
        PROVE  AnswersFit' /\ IssuedFit' /\ MocksFit' /\ MocksAreScoped'
    <2>1. step[c] # Idle
      BY <1>4 DEF Seq, Idle
    <2>2. /\ \A d \in Callers : d # c => answer'[d] = answer[d] /\ step'[d] = step[d]
          /\ answer'[c].time = answer[c].time /\ answer'[c].ms = answer[c].ms
          /\ answer'[c].draw > 0 /\ answer'[c].mocked = answer[c].mocked
          /\ step'[c]["seq"] = "done" /\ step'[c]["time"] = step[c]["time"]
          /\ step'[c] # Idle
      BY <1>4 DEF Seq, Answers, Idle
    <2> QED BY <1>4, <2>1, <2>2 DEF Seq, scopes
  <1>5. ASSUME NEW c \in Callers, NEW s \in Services, Mock(c, s)
        PROVE  AnswersFit' /\ IssuedFit' /\ MocksFit' /\ MocksAreScoped'
    <2>1. step[c] # Idle /\ s \in scope[c]
      BY <1>5 DEF Mock, Idle
    <2>2. /\ \A d \in Callers : d # c => answer'[d] = answer[d] /\ step'[d] = step[d]
          /\ s = "seq" => answer'[c].time = answer[c].time
          /\ answer'[c].ms = answer[c].ms
          /\ answer'[c].draw = answer[c].draw /\ answer'[c].mocked = answer[c].mocked \cup {s}
          /\ step'[c] = [step[c] EXCEPT ![s] = "done"]
          /\ step'[c] # Idle
      BY <1>5 DEF Mock, Answers, Idle
    <2> QED BY <1>5, <2>1, <2>2 DEF Mock, scopes
  <1>6. ASSUME NEW c \in Callers, Join(c)
        PROVE  AnswersFit' /\ IssuedFit' /\ MocksFit' /\ MocksAreScoped'
    BY <1>6 DEF Join, scopes, Idle, NoAnswer
  <1>7. ASSUME NEW s \in Services, SetOverride(s) \/ ResetOverride(s)
        PROVE  AnswersFit' /\ IssuedFit' /\ MocksFit' /\ MocksAreScoped'
    <2>1. \A c \in Callers : scope[c] \subseteq scope'[c]
      BY <1>7 DEF SetOverride, ResetOverride
    <2>2. \A c \in Callers : wanted \subseteq scope[c] => wanted' \subseteq scope'[c]
      <3>1. CASE SetOverride(s)
        BY <3>1 DEF SetOverride
      <3>2. CASE ResetOverride(s)
        BY <3>2 DEF ResetOverride
      <3> QED BY <1>7, <3>1, <3>2
    <2>3. /\ step' = step /\ answer' = answer /\ issued' = issued
          /\ overridden' \subseteq wanted'
      BY <1>7 DEF SetOverride, ResetOverride
    <2>4. AnswersFit' /\ IssuedFit'
      BY <2>3
    <2>5. \A c \in Callers :
            /\ step'[c] = step[c] /\ answer'[c] = answer[c]
            /\ step[c] # Idle => wanted \subseteq scope[c]
            /\ \A t \in Services : step[c][t] = "mock" => t \in scope[c]
      BY <2>3
    <2>6. MocksFit'
      BY <2>1, <2>2, <2>3, <2>5
    <2>7. MocksAreScoped'
      BY <2>1, <2>5
    <2> QED BY <2>4, <2>6, <2>7
  <1>8. CASE Tick
    BY <1>8 DEF Tick, scopes
  <1>9. CASE Restart
    BY <1>9 DEF Restart, Idle, NoAnswer
  <1>10. CASE Stop \/ UNCHANGED vars
    BY <1>10 DEF Stop, vars, scopes
  <1> QED BY <1>1, <1>2, <1>3, <1>4, <1>5, <1>6, <1>7, <1>8, <1>9, <1>10 DEF Next

-----------------------------------------------------------------------------
(* Draws.                                                                   *)

\* A step that draws nothing leaves the numbers where they are or drops them.
LEMMA NothingDrawn ==
    ASSUME TypeOK, DrawnOnce, CounterTurns,
           counter' = counter, drawn' = drawn, boots' = boots,
           \A a \in Drawn' : \E b \in Drawn : a.draw = b.draw /\ a.seq = b.seq /\ a.boot = b.boot
    PROVE  CounterTurns' /\ \A a \in Drawn' : a.draw <= drawn'
  <1>1. \A a \in Drawn' : a.draw <= drawn' /\ a.boot <= boots'
    BY DEF DrawnOnce, CounterTurns
  <1>2. \A a \in Drawn' : a.boot = boots' =>
          \E q \in Nat : counter' = a.seq + (drawn' + 1 - a.draw) - SeqValues * q
    BY DEF CounterTurns
  <1>3. ASSUME NEW a \in Drawn', NEW b \in Drawn', a.boot = b.boot, a.seq = b.seq, a.draw # b.draw
        PROVE  Apart(a.draw, b.draw, SeqValues)
    <2>1. PICK x \in Drawn, y \in Drawn :
            /\ a.draw = x.draw /\ a.seq = x.seq /\ a.boot = x.boot
            /\ b.draw = y.draw /\ b.seq = y.seq /\ b.boot = y.boot
      OBVIOUS
    <2> QED BY <1>3, <2>1 DEF CounterTurns
  <1> QED BY <1>1, <1>2, <1>3 DEF CounterTurns

\* Every answer has numbers for its parts.
LEMMA DrawnTypes ==
    ASSUME TypeOK
    PROVE  \A a \in Drawn : a \in Answers /\ a.draw \in Nat /\ a.seq \in Nat /\ a.boot \in Nat
  BY DEF TypeOK, Drawn, Answers

\* The number a draw gives away is as many draws from its equals as make whole turns.
LEMMA DrawStep ==
    ASSUME Inv, NEW c \in Callers, Seq(c), TypeOK'
    PROVE  DrawnOnce' /\ CounterTurns'
  <1> DEFINE n == answer'[c]
  <1>1. /\ \A d \in Callers : d # c => answer'[d] = answer[d]
        /\ n.seq = counter /\ n.draw = drawn + 1 /\ n.boot = boots
        /\ issued' = issued /\ drawn' = drawn + 1 /\ boots' = boots
        /\ drawn \in Nat /\ boots \in Nat /\ counter \in Nat /\ counter < SeqValues
        /\ SeqValues \in Nat \ {0}
    BY WidthAssumption DEF Inv, TypeOK, Seq, Answers
  <1>2. \A a \in Drawn : /\ a.draw \in Nat /\ a.seq \in Nat /\ a.boot \in Nat
                         /\ a.draw <= drawn /\ a.boot <= boots
    BY DrawnTypes DEF Inv, DrawnOnce, CounterTurns
  <1>3. \A a \in Drawn' : a \in Drawn \/ a = n
    BY <1>1 DEF Drawn
  <1>4. \A a \in issued : a.draw <= drawn \/ ~(a.draw > 0)
    BY <1>2 DEF Drawn
  <1>5. \A d \in Callers : answer[d].draw <= drawn \/ ~(answer[d].draw > 0)
    BY <1>2 DEF Drawn
  <1> HIDE DEF n
  <1>6. DrawnOnce'
    <2>1. \A a \in Drawn' : a.draw <= drawn'
      BY <1>1, <1>2, <1>3
    <2>2. \A a, b \in issued' : a.draw > 0 /\ a.draw = b.draw => a = b
      BY <1>1 DEF Inv, DrawnOnce
    <2>3. \A a \in issued', d \in Callers : answer'[d].draw > 0 => a.draw # answer'[d].draw
      BY <1>1, <1>4 DEF Inv, DrawnOnce, n
    <2>4. \A d, e \in Callers : answer'[d].draw > 0 /\ answer'[d].draw = answer'[e].draw => d = e
      BY <1>1, <1>5 DEF Inv, DrawnOnce, n
    <2> QED BY <2>1, <2>2, <2>3, <2>4 DEF DrawnOnce
  <1>7. counter' = counter + 1 \/ counter' = counter + 1 - SeqValues
    <2>1. counter' = (counter + 1) % SeqValues
      BY DEF Seq, Advance
    <2> QED BY <1>1, <2>1
  <1>8. ASSUME NEW a \in Drawn', a.boot = boots'
        PROVE  \E q \in Nat : counter' = a.seq + (drawn' + 1 - a.draw) - SeqValues * q
    <2>1. PICK q \in Nat : counter = a.seq + (drawn + 1 - a.draw) - SeqValues * q
      <3>1. CASE a \in Drawn
        BY <1>1, <1>8, <3>1 DEF Inv, CounterTurns
      <3>2. CASE a = n
        BY <1>1, <3>2
      <3> QED BY <1>3, <3>1, <3>2
    <2> DEFINE k == SeqValues * q
    <2>2. SeqValues * (q + 1) = k + SeqValues /\ k \in Nat
      BY <1>1
    <2>3. a.seq \in Nat /\ a.draw \in Nat
      BY <1>1, <1>2, <1>3
    <2>7. counter = a.seq + (drawn + 1 - a.draw) - k
      BY <2>1
    <2>4. CASE counter' = counter + 1
      <3> HIDE DEF k
      <3>1. counter' = a.seq + (drawn' + 1 - a.draw) - k
        BY <1>1, <2>2, <2>3, <2>4, <2>7
      <3> QED BY <3>1 DEF k
    <2>5. CASE counter' = counter + 1 - SeqValues
      <3> HIDE DEF k
      <3>1. counter' = a.seq + (drawn' + 1 - a.draw) - (k + SeqValues)
        BY <1>1, <2>2, <2>3, <2>5, <2>7
      <3> QED BY <2>2, <3>1
    <2> QED BY <1>7, <2>4, <2>5
  <1>9. ASSUME NEW a \in Drawn, a.boot = n.boot, a.seq = n.seq PROVE n.draw - a.draw >= SeqValues
    <2>1. PICK q \in Nat : counter = a.seq + (drawn + 1 - a.draw) - SeqValues * q
      BY <1>1, <1>9 DEF Inv, CounterTurns
    <2> DEFINE k == SeqValues * q
    <2>2. k \in Nat /\ counter = a.seq + (drawn + 1 - a.draw) - k
      BY <1>1, <2>1
    <2>3. n.draw - a.draw = k /\ k > 0
      <3> HIDE DEF k
      <3> QED BY <1>1, <1>2, <1>9, <2>2
    <2>4. q >= 1
      BY <1>1, <2>3
    <2>5. k >= SeqValues * 1
      BY <1>1, <2>4
    <2> HIDE DEF k
    <2> QED BY <1>1, <2>3, <2>5
  <1>10. ASSUME NEW a \in Drawn', NEW b \in Drawn', a.boot = b.boot, a.seq = b.seq, a.draw # b.draw
         PROVE  Apart(a.draw, b.draw, SeqValues)
    <2>1. CASE a \in Drawn /\ b \in Drawn
      BY <1>10, <2>1 DEF Inv, CounterTurns
    <2>2. CASE a = n /\ b \in Drawn
      BY <1>9, <1>10, <2>2 DEF Apart
    <2>3. CASE b = n /\ a \in Drawn
      BY <1>9, <1>10, <2>3 DEF Apart
    <2> QED BY <1>3, <1>10, <2>1, <2>2, <2>3
  <1>11. \A a \in Drawn' : a.boot <= boots'
    BY <1>1, <1>2, <1>3
  <1> QED BY <1>6, <1>8, <1>10, <1>11 DEF CounterTurns

\* Every step keeps the numbers drawn apart.
LEMMA DrawsStep == Inv /\ [Next]_vars => DrawnOnce' /\ CounterTurns'
  <1> SUFFICES ASSUME Inv, [Next]_vars PROVE DrawnOnce' /\ CounterTurns'
    OBVIOUS
  <1>0. TypeOK /\ TypeOK'
    BY TypeStep DEF Inv
  <1> USE DEF Inv
  <1>1. ASSUME answer' = answer, issued' = issued,
               counter' = counter, drawn' = drawn, boots' = boots
        PROVE  DrawnOnce' /\ CounterTurns'
    <2>1. Drawn' = Drawn
      BY <1>1 DEF Drawn
    <2> QED BY <1>1, <2>1 DEF DrawnOnce, CounterTurns
  <1>2. ASSUME NEW c \in Callers, issued' = issued,
               \A d \in Callers : d # c => answer'[d] = answer[d],
               answer'[c].draw = answer[c].draw /\ answer'[c].boot = answer[c].boot,
               answer[c].draw > 0 => answer'[c].seq = answer[c].seq,
               counter' = counter, drawn' = drawn, boots' = boots
        PROVE  DrawnOnce' /\ CounterTurns'
    <2>1. \A a \in Drawn' : \E b \in Drawn : a.draw = b.draw /\ a.seq = b.seq /\ a.boot = b.boot
      BY <1>2 DEF Drawn
    <2>2. CounterTurns' /\ \A a \in Drawn' : a.draw <= drawn'
      BY <1>0, <1>2, <2>1, NothingDrawn
    <2>3. \A d \in Callers : answer'[d].draw = answer[d].draw
      BY <1>2
    <2> QED BY <1>2, <2>2, <2>3 DEF DrawnOnce
  <1>3. ASSUME NEW c \in Callers, Time(c) PROVE DrawnOnce' /\ CounterTurns'
    <2>1. /\ \A d \in Callers : d # c => answer'[d] = answer[d]
          /\ answer'[c].draw = answer[c].draw /\ answer'[c].boot = answer[c].boot
          /\ answer'[c].seq = answer[c].seq
      BY <1>0, <1>3 DEF Time, TypeOK, Answers
    <2> QED BY <1>2, <1>3, <2>1 DEF Time
  <1>4. ASSUME NEW c \in Callers, NEW s \in Services, Mock(c, s) PROVE DrawnOnce' /\ CounterTurns'
    <2>1. /\ \A d \in Callers : d # c => answer'[d] = answer[d]
          /\ answer'[c].draw = answer[c].draw /\ answer'[c].boot = answer[c].boot
          /\ s # "seq" => answer'[c].seq = answer[c].seq
      BY <1>0, <1>4 DEF Mock, TypeOK, Answers
    <2>2. s = "seq" => answer[c].draw = 0
      BY <1>4 DEF Mock, AnswersFit
    <2>3. answer[c].draw > 0 => answer'[c].seq = answer[c].seq
      BY <2>1, <2>2
    <2>4. issued' = issued /\ counter' = counter /\ drawn' = drawn /\ boots' = boots
      BY <1>4 DEF Mock
    <2> QED BY <1>2, <2>1, <2>3, <2>4
  <1>5. ASSUME NEW c \in Callers, Join(c) PROVE DrawnOnce' /\ CounterTurns'
    <2>1. /\ \A d \in Callers : d # c => answer'[d] = answer[d]
          /\ answer'[c].draw = 0 /\ issued' = issued \cup {answer[c]}
      BY <1>0, <1>5 DEF Join, TypeOK, NoAnswer
    <2>2. \A a \in Drawn' : a \in Drawn
      BY <1>0, <2>1 DEF Drawn
    <2>3. CounterTurns' /\ \A a \in Drawn' : a.draw <= drawn'
      BY <1>0, <1>5, <2>2, NothingDrawn DEF Join
    <2>4. \A a, b \in issued' : a.draw > 0 /\ a.draw = b.draw => a = b
      BY <2>1 DEF DrawnOnce
    <2>5. \A a \in issued', d \in Callers : answer'[d].draw > 0 => a.draw # answer'[d].draw
      BY <2>1 DEF DrawnOnce
    <2>6. \A d, e \in Callers : answer'[d].draw > 0 /\ answer'[d].draw = answer'[e].draw => d = e
      BY <2>1 DEF DrawnOnce
    <2> QED BY <2>3, <2>4, <2>5, <2>6 DEF DrawnOnce
  <1>6. CASE Restart
    <2>1. Drawn' \subseteq Drawn /\ boots' = boots + 1 /\ boots \in Nat
          /\ drawn' = drawn /\ issued' = issued
          /\ \A c \in Callers : answer'[c].draw = 0
      BY <1>0, <1>6 DEF Restart, Drawn, NoAnswer, TypeOK
    <2>2. \A a \in Drawn' : a.boot \in Nat /\ a.boot <= boots
      BY <1>0, <2>1, DrawnTypes DEF CounterTurns
    <2> QED BY <2>1, <2>2 DEF DrawnOnce, CounterTurns
  <1>7. CASE \E c \in Callers : Begin(c) \/ \E s \in Services : Query(c, s)
    BY <1>1, <1>7 DEF Begin, Query
  <1>8. CASE \E c \in Callers : Seq(c)
    BY <1>0, <1>8, DrawStep
  <1>9. CASE (\E s \in Services : SetOverride(s) \/ ResetOverride(s)) \/ Tick \/ Stop \/ UNCHANGED vars
    BY <1>1, <1>9 DEF SetOverride, ResetOverride, Tick, Stop, vars
  <1> QED BY <1>3, <1>4, <1>5, <1>6, <1>7, <1>8, <1>9 DEF Next

-----------------------------------------------------------------------------
(* The theorems.                                                            *)

LEMMA InvStep == Inv /\ [Next]_vars => Inv'
  BY TypeStep, FitStep, DrawsStep DEF Inv

\* Types hold, a mock answers only calls during which it was set (the override
\* registry's set, reset and query), and a timestamp is its time exactly in the
\* first turn after the epoch.
THEOREM ParamsInvariant == Spec => []ParamsInv
  <1>1. Inv => ParamsInv
    <2>1. TypeOK => clock \in Int
      BY TimeAssumption DEF TypeOK
    <2> QED BY <2>1, ExactInFirstTurn DEF Inv, ParamsInv, EpochExact
  <1> QED BY <1>1, InvInit, InvStep, PTL DEF Spec

\* Two ids params() returned are equal only if the counter and the clock have both
\* come round between them, for counters and timestamps of any width.
THEOREM IdsRepeat == Spec => []IdsRepeatLate
  <1>1. ASSUME Inv PROVE IdsRepeatLate
    <2> SUFFICES ASSUME NEW x \in issued, NEW y \in issued, x.mocked = {}, y.mocked = {},
                        x # y, x.time = y.time, x.seq = y.seq
                 PROVE  /\ x.boot # y.boot \/ Apart(x.draw, y.draw, SeqValues)
                        /\ x.ms = y.ms \/ Apart(x.ms, y.ms, Max32) \/ (x.ms < 0) # (y.ms < 0)
      BY DEF IdsRepeatLate
    <2>1. /\ x.draw > 0 /\ x.time = ToEpoch(x.ms) /\ x.ms \in Int
          /\ y.draw > 0 /\ y.time = ToEpoch(y.ms) /\ y.ms \in Int
      BY <1>1 DEF Inv, IssuedFit, TypeOK, Answers
    <2>2. x \in Drawn /\ y \in Drawn /\ x.draw # y.draw
      BY <1>1, <2>1 DEF Inv, DrawnOnce, Drawn
    <2>3. x.boot # y.boot \/ Apart(x.draw, y.draw, SeqValues)
      BY <1>1, <2>2 DEF Inv, CounterTurns
    <2>4. x.ms = y.ms \/ Apart(x.ms, y.ms, Max32) \/ (x.ms < 0) # (y.ms < 0)
      BY <2>1, SameTimestamp
    <2> QED BY <2>3, <2>4
  <1> QED BY <1>1, InvInit, InvStep, PTL DEF Spec

=============================================================================
