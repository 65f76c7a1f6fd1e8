SPECIFICATION MCSpec
CONSTANTS
    p1 = p1  p2 = p2  r1 = r1  i1 = i1  i2 = i2
    Procs = {p1, p2}
    NoProc = NoProc
    Runs = {r1}
    NoRun = NoRun
    Inputs = {i1, i2}
    NoInput = NoInput
    N = 3
    Deps <- JoinDeps
    Configs <- ThreeConfigs
    Author = p1
    MaxRuns = 1
    Faults = 1
    None = None
INVARIANTS WorkerOwnsRun EffectsVisible SameBinding CompletedSound
PROPERTIES CallOrder LockReleased ImplementsDurableRun WorkflowsSound
