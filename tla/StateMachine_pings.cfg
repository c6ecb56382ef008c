CONSTANTS
    h1 = h1
    h2 = h2
    h3 = h3
    Handles <- MCHandles
    NoTask = NoTask
    UpMsgs <- GroundMission
    DownEvents <- SerialBLE
    MaxRetry = 1
    MaxMailbox = 2
    MaxPings = 1
SPECIFICATION Spec
INVARIANT
    PingsWhilePinging
