SPECIFICATION Spec
CONSTANTS
    s1 = s1
    s2 = s2
    s3 = s3
    t1 = t1
    h1 = h1
    h2 = h2
    k1 = k1
    c1 = c1
    d1 = d1
    d2 = d2
    x1 = x1
    n1 = n1
    alice = alice
    bob = bob
    None = None
    Streams = {s1, t1}
    Posts = {t1}
    Chats = {h1}
    Holds = {}
    Clears = {}
    Deletes = {}
    Stops = {x1}
    Notes = {n1}
    OnLoop = {s1, x1}
    Unqueueable = {}
    Closable = {s1}
    Human = {s1, h1}
    UserOf <- MCUserOf
    QueueMax = 1
PROPERTIES
    PromiseKept
