SPECIFICATION Spec
CONSTANTS
    NUMST = 3
    FirstTid = 0
    CounterLimit <- MCLimit
    FlagMod = 4
    MaxNesting = 4
    Drivers = {"loop", "interrupt"}
    MaskFlags = TRUE
INVARIANTS
    TypeOK
    RateMonotonic
    RunsOnlyReleased
    NoLostRelease
    CleanExit
PROPERTIES
    StarvationDetected
    ImplementsScheduler
