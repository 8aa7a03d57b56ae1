SPECIFICATION Spec
CONSTANTS
    LibPublishers = {"pose", "bball"}
    NonlibPublishers = {}
    LibOf <- ExeLibs
    QueueDepth = 2
    MaxRuns = 1
    MaxSteps = 1
    MaxSigints = 0
    MaxMessages = 1
INVARIANT OwnTopic
CHECK_DEADLOCK FALSE
