SPECIFICATION FairSpec
CONSTANTS
    MaxUp = 3
    MaxDown = 2
    MaxHangups = 2
    Kinds <- RelayPackets
    ReadErrors = TRUE
INVARIANTS
    LinkInv
    AnswersFollowFrames
PROPERTIES
    LossNeedsFailure
    ImplementsFifo
    PacketsEnd
    WritingReconnects
