SPECIFICATION Spec
CONSTANTS
    g = g
    h = h
    w = w
    None = None
    Turns = {g, h, w}
    Readers = {g, h, w}
    OnLoop = {g, h}
    MaxEvents = 2
    MaxOutput = 2
    Window = 1
    MaxAttempts = 2
    Scenarios <- TwoLoops
INVARIANTS
    TypeOK
    NoWakeLost
    HolderAttachable
    FallbackTells
PROPERTIES
    FeedKept
CHECK_DEADLOCK FALSE
