CONSTANTS
    Target = {x1, x2}
    Key = {k1, k2, k3}
    Timer = {t1, t2, t3, t4}
    Interval = {1}
    Repeat = {Forever}
    Forever = Forever
    Delay = {0}
    Step = {2}
    NoTarget = NoTarget
    NoTimer = NoTimer
    Freed = Freed
    MaxCalls = 2
    MaxPosts = 0
SPECIFICATION Spec
SYMMETRY Symmetry
INVARIANTS
    NoDanglingPointer
    RefCountsExact
    HashConsistent
    NoTimerSkipped
    EveryTargetVisited
PROPERTY NoTimerTwice
