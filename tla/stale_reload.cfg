SPECIFICATION Spec
CONSTANTS
    s1 = s1
    s2 = s2
    c1 = c1
    c2 = c2
    r1 = r1
    r2 = r2
    Main = Main
    None = None
    Schedules = {s1}
    Crons = {c1, c2}
    Requests = {r1, r2}
    MaxEntries = 4
    MaxTurns = 2
    FaultKinds = {}
    MaxFaults = 0
CHECK_DEADLOCK FALSE
SYMMETRY Symmetry
INVARIANT InSync
