SPECIFICATION Spec
CONSTANTS
    h1 = h1
    h2 = h2
    r1 = r1
    r2 = r2
    t1 = t1
    None = None
    Holds = {h1, h2}
    Answers <- MCAnswers
    KindChoices <- MCKinds
    Resolvers = {r1, r2}
    Threads = {t1}
    ThreadOf <- MCThreadOf
    Cap = 1
INVARIANTS
    EveryExitDeletes
CHECK_DEADLOCK FALSE
