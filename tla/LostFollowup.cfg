SPECIFICATION Spec
CONSTANTS
    a = a
    b = b
    d = d
    k = k
    l = l
    f = f
    g = g
    None = None
    ToolCalls = {a, b}
    CodeCalls = {}
    Spares = {}
    Fresh = {}
    MaxTurns = 0
    Talkers = {a, b}
INVARIANTS
    ReceiptHonoured
