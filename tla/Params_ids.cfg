SPECIFICATION Spec
CONSTANTS
    c1 = c1
    c2 = c2
    Callers <- TwoCallers
    TimeValues = 4
    SeqValues = 2
    Times <- SomeTimes
    MaxDraws = 3
    MaxBoots = 1
    Mocks = {"time"}
    MockAnswer = 0
SYMMETRY Symmetry
INVARIANTS
    ParamsInv
    IdsRepeatLate
