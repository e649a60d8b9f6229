CONSTANTS
    Socket = {s1, n1}
    Script = {s1}
    None = None
    Fragments = 1
    MaxMessages = 1
SPECIFICATION FairSpec
PROPERTIES
    ClosingCloses
    JoinReturns
CHECK_DEADLOCK FALSE
