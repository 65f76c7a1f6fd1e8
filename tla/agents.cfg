SPECIFICATION MCSpec
CONSTANTS
    Factories = {f1, f2}
    Blueprints = {b1}
    Actors = {a1, a2}
    Skills = {s1}
    Prompts = {p1, p2}
    Packs = {p1}
    Safety = p2
    MaxMoves = 3
    MaxCalls = 3
    Agents = {a1}
    Names = {n1, n2}
    All = All
    Staging = Staging
    MaxTime = 1
    MaxChanges = 3
    Loops = {l1, l2}
    Procs = {p1, p2}
    Budget = 1
    MaxRestarts = 1
    Callers = {c1, c2}
    Findings = {f1}
    Fields = {k1, k2}
    Entries = {e1, e2}
    Top = 2
    MaxRequests = 3
    MaxFaults = 1
    MaxStops = 1
    Transports = {"claude", "hermes", "codex", "openclaw"}
    Calls = {c1, c2}
    FailureThreshold = 2
    HalfOpenMax = 1
    SuccessThreshold = 2
    Dwell = 1
    MaxRetries = 1
    MaxRoutes = 5
    MaxCancels = 2
    Jobs = {j1}
    Branches = {b1}
    Paths = {p1, p2}
    Protected = {p1, p2}
    Dotted = {p2}
    Kinds = {"clean", "lint", "danger", "broken", "opaque", "absent"}
    MaxEdits = 1
    MaxRounds = 2
    MaxRunning = 1
    MaxWrites = 1
    Base = Base
    None = None
INVARIANT ToolCallsSound
INVARIANT BridgesSound
PROPERTY AuthoritySound
PROPERTY EvidenceSound
PROPERTY ForgeSound
CHECK_DEADLOCK FALSE
