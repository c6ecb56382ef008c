CONSTANTS
    h1 = h1
    h2 = h2
    h3 = h3
    Handles <- MCHandles
    NoTask = NoTask
    UpMsgs <- GroundAll
    DownEvents <- SerialAll
    MaxRetry = 3
    MaxMailbox = 2
    MaxPings = 1
SPECIFICATION Spec
SYMMETRY Symmetry
INVARIANTS
    TypeOK
    SingleTask
    TaskFitsState
    LinkTracked
    RunsOnlyWhenStopped
    DeferredUntilReady
    ReplayIsNext
PROPERTIES
    CommandsFollowRover
    ImplementsMode
