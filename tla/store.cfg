SPECIFICATION StoreSpec
CONSTANTS
    t1 = t1
    t2 = t2
    n1 = n1
    n2 = n2
    e1 = e1
    p1 = p1
    a1 = a1
    Callers = {t1, t2}
    Nodes = {n1, n2}
    Edges = {e1}
    Proposals = {p1}
    Values = {1}
    Agents = {a1}
    Quorum = 66
    Full = 10
    Window = 1
    Kept = 2
    Calls = {"graph", "votes"}
    MaxCalls = 3
    Interrupts = 1
    Kills = 1
    Closes = 1
    Null = Null
SYMMETRY Symmetry
INVARIANT EventSourcedUnlessInterrupted
PROPERTY GovernedBySqlite
CHECK_DEADLOCK FALSE
