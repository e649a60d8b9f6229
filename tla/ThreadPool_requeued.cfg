CONSTANTS
    MinThreads = 1
    MaxThreads = 2
    ShrinkStep = 1
    StretchStep = 1
    Type = {network, io}
    NoType = NoType
    MaxTasks = 2
SPECIFICATION FairSpec
PROPERTY QueuedTasksRun
