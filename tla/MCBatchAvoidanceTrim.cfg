SPECIFICATION Spec
CONSTANTS
    N_runs = 2
    start_pair = 2
    DemoPair = 1
    LastPair = 4
    R_safe = 3
    Distances = {1, 4}
    Inf = 9
    MaxSessions = 1
INVARIANT OwnInitialConditions
CHECK_DEADLOCK FALSE
