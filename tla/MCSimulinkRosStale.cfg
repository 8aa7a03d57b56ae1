SPECIFICATION Spec
CONSTANTS
    LibPublishers = {"pose"}
    NonlibPublishers = {"bball"}
    LibOf <- MexLibs
    QueueDepth = 2
    MaxRuns = 2
    MaxSteps = 1
    MaxSigints = 0
    MaxMessages = 2
INVARIANT ZerosUntilData
CHECK_DEADLOCK FALSE
