SPECIFICATION FairSpec
CONSTANTS
    d1 = d1
    d2 = d2
    Downlinks <- TwoDownlinks
    MaxPackets = 2
    MaxOutages = 2
    MaxBad = 1
    MaxMailbox = 1
    None = None
    Log = Log
INVARIANTS
    EchoInv
    OneLossPerFault
    OneFaultPerOutage
PROPERTIES
    ImplementsEcho
    
    LogsDieDown
