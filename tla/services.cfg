SPECIFICATION Spec
CONSTANTS
    Tasks = {t1, t2}
    Calls = {c1, c2}
    Workers = {w1}
    Priorities = {0, 1}
    MaxSubtasks = 2
    MaxRetries = 1
    MaxRestarts = 1
    N = 2
    MaxSeen = 1
    Limit = 2
    MaxFaults = 2
    Items = {i1, i2}
    Ops = {o1, o2}
    NewTiers = {4}
    AgingThreshold = 1
    MaxDays = 2
    MaxOps = 2
    MaxInterrupts = 1
    None = None
INVARIANT MemorySound
INVARIANT GatewaySound
PROPERTY ExecutionSound
PROPERTY ServicesProgress
CHECK_DEADLOCK FALSE
