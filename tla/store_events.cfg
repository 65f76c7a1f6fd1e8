SPECIFICATION StoreSpec
CONSTANTS
    Null = Null
    Callers = {t1, t2}
    Nodes = {n1, n2}
    Edges = {e1}
    Proposals = {}
    Values = {1, 2}
    Agents = {}
    Quorum = 66
    Full = 10
    Window = 1
    Kept = 2
    Calls = {"graph"}
    MaxCalls = 2
    Interrupts = 1
    Kills = 0
    Closes = 1
INVARIANT EventSourced
CHECK_DEADLOCK FALSE
