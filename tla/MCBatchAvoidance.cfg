SPECIFICATION Spec
CONSTANTS
    N_runs = 5
    start_pair = 2
    DemoPair = 1
    LastPair = 5
    R_safe = 3
    Distances = {1, 3, 4}
    Inf = 9
    MaxSessions = 2
INVARIANTS
    TypeOK
    OwnTrajectories
    DemoStartsOnPath
    CountsAddUp
    CasesChosen
CHECK_DEADLOCK FALSE
