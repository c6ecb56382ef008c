SPECIFICATION Spec
CONSTANTS
    MaxCode = 4
    Inputs <- AllInputs
INVARIANTS
    CobsFrames
    DelimitedItems
PROPERTY DecodingEnds
