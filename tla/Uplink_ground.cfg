SPECIFICATION FairSpec
CONSTANTS
    c1 = c1
    c2 = c2
    Consoles <- TwoConsoles
    MaxSent = 2
    MaxSockets = 3
    QueueLen = 2
INVARIANTS
    UplinkInv
    LostAreLast
PROPERTIES
    
    ConsolesSettle
