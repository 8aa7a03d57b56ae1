SPECIFICATION Spec
CONSTANTS
    QueueDepth = 2
    MaxFailures = 1
    MaxPoses = 3
    MaxStarts = 2
INVARIANT AttitudeAsSent
CHECK_DEADLOCK FALSE
