SPECIFICATION FairSpec
CONSTANTS
    p1 = p1
    p2 = p2
    t1 = t1
    t2 = t2
    e1 = e1
    e2 = e2
    s1 = s1
    Nobody = Nobody
    None = None
    Procs = {p1, p2}
    MaxFiles = 1
    Probers = {}
    LockFaults = FALSE
    Todos = {t1, t2}
    Recurring = {t2}
    MaxTime = 0
    Homes = {p1, p2}
    TakesOver = {p1, p2}
    Ask = FALSE
    MaxRetries = 1
    PauseAfter = 1
    PoolSize = 1
    DiskFaults = FALSE
    DbFaults = {}
    MaxStarts = 1
    Editors = {}
    Rest = {}
    Home <- OneHome
    MaxEdits = 0
PROPERTIES
    DueIsServed
    TakeoverHappens
CHECK_DEADLOCK FALSE
