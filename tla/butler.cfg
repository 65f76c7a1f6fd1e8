SPECIFICATION MCSpec
CONSTANTS
    o1 = o1
    o2 = o2
    h1 = h1
    h2 = h2
    t1 = t1
    t2 = t2
    Owners = {o1, o2}
    Threads = {h1, h2}
    Tasks = {t1, t2}
    Spaces = 1
    Window = 1
    Lines = 2
    MaxTurns = 2
    Past = 1
    MaxStops = 1
    Launchers = {l1, l2}
    MaxEdits = 1
    MaxFaults = 1
    Nothing = Nothing
    MaxHeight = 8
    MaxEmpty = 4
    MaxDeaths = 1
    None = None
SYMMETRY Symmetry
INVARIANT ServerSound
INVARIANT LabSound
PROPERTY TurnsSound
CHECK_DEADLOCK FALSE
