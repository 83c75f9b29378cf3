SPECIFICATION FairSpec
CONSTANTS
    r1 = r1
    r2 = r2
    r3 = r3
    r4 = r4
    r5 = r5
    Requests = {r1, r2, r3, r4, r5}
    Exempt = {r5}
    Limits = {1}
    FirstLimit = 1
    Patient = {r1, r2, r3}
INVARIANTS
    CeilingHeld
    WaitOnlyWhenFull
    SlotsAccounted
PROPERTIES
    ServedInOrder
    GateEmpties
