CONSTANTS
    Client = {c1, c2}
    Request = {r1, r2}
    None = None
    Sentinel = Sentinel
    Early = {r2}
SPECIFICATION FairSpec
INVARIANTS
    CountExact
    RefsExact
    AnsweredInOrder
PROPERTIES
    Answered
    WindsDown
CHECK_DEADLOCK FALSE
