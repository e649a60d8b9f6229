CONSTANTS
    Path = {p1}
    NoPath = NoPath
    Length = 2
    MaxProcessing = 1
    MaxTasks = 2
SPECIFICATION FairSpec
INVARIANTS
    HeldOnce
    PathsReleased
PROPERTIES
    Intact
    Reported
CHECK_DEADLOCK FALSE
