CONSTANTS
    c1 = c1
    m1 = m1
    m2 = m2
    m3 = m3
    o1 = o1
    o2 = o2
    o3 = o3
    None = None
    Callers <- OneCaller
    Msgs <- ThreeMsgs
    OwnIds <- ThreeOwn
    GroundIds <- Ground
    Retries <- RetryOnce
    MaxInbox = 1
SPECIFICATION FairSpec
INVARIANTS
    RightReply
    NeverDropped
    RegistryInv
PROPERTIES
    CallsEnd
    ReplyIsFinal
