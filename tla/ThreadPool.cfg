CONSTANTS
    MinThreads = 1
    MaxThreads = 3
    ShrinkStep = 2
    StretchStep = 2
    Type = {network, io}
    NoType = NoType
    MaxTasks = 2
SPECIFICATION FairSpec
INVARIANTS
    SlotsExact
    NeverBelowMin
PROPERTIES
    ImplementsPool
    CallsReturn
    TasksRun
