SPECIFICATION Spec
CONSTANTS
    NUMST = 3
    FirstTid = 0
    CounterLimit <- MCLimit
    FlagMod = 4
    MaxNesting = 4
    Drivers = {"interrupt"}
    MaskFlags = FALSE
INVARIANT RunsOnlyReleased
