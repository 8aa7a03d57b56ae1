SPECIFICATION Spec
CONSTANTS
    QueueDepth = 2
    MaxFailures = 1
    MaxPoses = 3
    MaxStarts = 2
INVARIANTS
    TypeOK
    CheckedBeforeArming
    CleanExits
PROPERTIES
    OwnPosesInOrder
    LastPoseShown
    SigintEnds
CHECK_DEADLOCK FALSE
