SPECIFICATION MCSpec
CONSTANTS
    t1 = t1
    t2 = t2
    a1 = a1
    p1 = p1
    Tasks = {t1, t2}
    Agents = {a1}
    Proposals = {p1}
    Quorums = {66}
    Ratings = {10}
    Full = 10
    Window = 1
    MaxRecords = 1
    MaxTime = 1
    Clients = {c1, c2}
    FirstTasks = 3
    FirstEdges = 2
    Asked = {1, 2}
    MaxNodes = 4
    MaxEdges = 3
    MaxDepth = 2
    MaxOps = 2
    MaxVotes = 4
    None = None
SYMMETRY Symmetry
INVARIANT GraphSound
PROPERTY GovernanceSound
