SPECIFICATION Spec
CONSTANTS
    a = a
    b = b
    d = d
    k = k
    l = l
    f = f
    g = g
    None = None
    ToolCalls = {a}
    CodeCalls = {k}
    Spares = {f}
    Fresh = {}
    MaxTurns = 0
    Talkers = {a, k, f}
PROPERTIES
    LastIsNewest
