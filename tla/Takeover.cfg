SPECIFICATION Spec
CONSTANTS
    p1 = p1
    p2 = p2
    t1 = t1
    t2 = t2
    e1 = e1
    e2 = e2
    s1 = s1
    Nobody = Nobody
    None = None
    Procs = {p1, p2}
    MaxFiles = 1
    Probers = {s1}
    LockFaults = FALSE
    Todos = {t1}
    Recurring = {t1}
    MaxTime = 1
    Homes = {p1, p2}
    TakesOver = {p1, p2}
    Ask = TRUE
    MaxRetries = 2
    PauseAfter = 1
    PoolSize = 1
    DiskFaults = TRUE
    DbFaults = {"claim", "release"}
    MaxStarts = 2
    Editors = {}
    Rest = {}
    Home <- OneHome
    MaxEdits = 0
INVARIANTS
    OneRunPerTodo
    MarkersAccounted
    HeldWaits
    IndexAgrees
    SeriesGoesOn
CHECK_DEADLOCK FALSE
