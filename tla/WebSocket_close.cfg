CONSTANTS
    Socket = {s1}
    Script = {s1}
    None = None
    Fragments = 1
    MaxMessages = 0
SPECIFICATION FairSpec
PROPERTY CloseCloses
CHECK_DEADLOCK FALSE
