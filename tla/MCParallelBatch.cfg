SPECIFICATION Spec
CONSTANTS
    N = 2
    NRuns = 2
    Others <- MCOthers
    MaxSessions = 2
    MaxInterrupted = 1
    MaxFailures = 1
INVARIANTS
    TypeOK
    OwnResults
PROPERTIES
    SessionEnds
    ImplementsPool
CHECK_DEADLOCK FALSE
