SPECIFICATION Spec
CONSTANTS
    QueueDepth = 2
    BufferSize = 8
    Interval = 2
    EmbDim = 2
    Delay = 3
    RefNum = 3
    RefDen = 5
    Dims = {1, 2}
    PlotDepth = 1
    MaxBlanks = 1
    MaxSent = 12
    MaxAnalyzers = 2
    MaxWindows = 1
INVARIANTS
    TypeOK
    ReferenceFromOneAnalysis
    TestDisjointFromReference
    AnalysesAccounted
PROPERTIES
    LastPosePlotted
CHECK_DEADLOCK FALSE
