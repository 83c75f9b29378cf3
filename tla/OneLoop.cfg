SPECIFICATION FairSpec
CONSTANTS
    s1 = s1
    s2 = s2
    s3 = s3
    t1 = t1
    h1 = h1
    h2 = h2
    k1 = k1
    c1 = c1
    d1 = d1
    d2 = d2
    x1 = x1
    n1 = n1
    alice = alice
    bob = bob
    None = None
    Streams = {s1, s2, s3}
    Posts = {}
    Chats = {}
    Holds = {}
    Clears = {c1}
    Deletes = {}
    Stops = {}
    Notes = {n1}
    OnLoop = {s1, s2, s3, c1}
    Unqueueable = {s3}
    Closable = {}
    Human = {s1, s2}
    UserOf <- MCUserOf
    QueueMax = 2
INVARIANTS
    PendingReachable
    NoneLeftBehind
    HaltNotCarriedOver
PROPERTIES
    OwnUserOnly
    EveryPromptWoken
    EveryCallReturns
