SPECIFICATION Spec
CONSTANTS
    p1 = p1
    p2 = p2
    t1 = t1
    t2 = t2
    e1 = e1
    e2 = e2
    s1 = s1
    Nobody = Nobody
    None = None
    Procs = {p1}
    MaxFiles = 1
    Probers = {}
    LockFaults = FALSE
    Todos = {t1}
    Recurring = {t1}
    MaxTime = 1
    Homes = {p1}
    TakesOver = {p1}
    Ask = FALSE
    MaxRetries = 1
    PauseAfter = 1
    PoolSize = 1
    DiskFaults = FALSE
    DbFaults = {}
    MaxStarts = 1
    Editors = {e1, e2}
    Rest = {e1}
    Home <- OneHome
    MaxEdits = 1
PROPERTIES
    PausedStays
    DeletedStaysDeleted
    DoneKeepsArmed
CHECK_DEADLOCK FALSE
