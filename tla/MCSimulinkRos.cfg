SPECIFICATION Spec
CONSTANTS
    LibPublishers = {"pose"}
    NonlibPublishers = {"bball"}
    LibOf <- MexLibs
    QueueDepth = 2
    MaxRuns = 2
    MaxSteps = 2
    MaxSigints = 2
    MaxMessages = 4
INVARIANTS
    TypeOK
    NoDanglingNode
    NoNodeLeak
    Connected
    TopicsMirrorBlocks
PROPERTY LagBounded
CHECK_DEADLOCK FALSE
