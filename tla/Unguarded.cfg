SPECIFICATION FairSpec
CONSTANTS
    p1 = p1
    p2 = p2
    t1 = t1
    t2 = t2
    e1 = e1
    e2 = e2
    s1 = s1
    Nobody = Nobody
    None = None
    Procs = {p1, p2}
    MaxFiles = 3
    Probers = {}
    LockFaults = TRUE
    Todos = {}
    Recurring = {}
    MaxTime = 0
    Homes = {p1, p2}
    TakesOver = {p1, p2}
    Ask = FALSE
    MaxRetries = 2
    PauseAfter = 1
    PoolSize = 1
    DiskFaults = FALSE
    DbFaults = {}
    MaxStarts = 2
    Editors = {}
    Rest = {}
    Home <- OneHome
    MaxEdits = 0
PROPERTIES
    TwoSchedulersReported
CHECK_DEADLOCK FALSE
