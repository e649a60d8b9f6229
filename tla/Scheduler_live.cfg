CONSTANTS
    Target = {x1, x2}
    Key = {k1}
    Timer = {t1, t2}
    Interval = {0, 1}
    Repeat = {0, 1}
    Forever = Forever
    Delay = {0, 1}
    Step = {2}
    NoTarget = NoTarget
    NoTimer = NoTimer
    Freed = Freed
    MaxCalls = 1
    MaxPosts = 2
SPECIFICATION FairSpec
INVARIANT RepeatHonoured
PROPERTIES
    ImplementsQueue
    FrameEnds
