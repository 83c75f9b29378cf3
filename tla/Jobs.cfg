SPECIFICATION FairSpec
CONSTANTS
    a = a
    b = b
    d = d
    k = k
    l = l
    f = f
    g = g
    None = None
    ToolCalls = {a}
    CodeCalls = {k}
    Spares = {f}
    Fresh = {k}
    MaxTurns = 1
    Talkers = {a, f}
INVARIANTS
    DroppedAreNamed
    ReportsInSequence
    EndTurnsDelivered
    SlotCoversRun
PROPERTIES
    AllSettles
