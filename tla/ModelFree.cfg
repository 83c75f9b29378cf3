SPECIFICATION Spec
CONSTANTS
    s1 = s1
    s2 = s2
    s3 = s3
    t1 = t1
    h1 = h1
    h2 = h2
    k1 = k1
    c1 = c1
    d1 = d1
    d2 = d2
    x1 = x1
    n1 = n1
    alice = alice
    bob = bob
    None = None
    Streams = {s1}
    Posts = {}
    Chats = {}
    Holds = {k1}
    Clears = {c1}
    Deletes = {d1, d2}
    Stops = {}
    Notes = {}
    OnLoop = {s1, c1}
    Unqueueable = {}
    Closable = {}
    Human = {s1}
    UserOf <- MCUserOf
    QueueMax = 2
INVARIANTS
    TurnOfLivingThread
    QuietBehindModelFree
