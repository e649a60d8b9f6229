CONSTANTS
    Socket = {s1, n1}
    Script = {s1}
    None = None
    Fragments = 2
    MaxMessages = 2
SPECIFICATION Spec
INVARIANTS
    CallbackOrder
    RefsExact
    ThreadWithSockets
    WorksForLiving
    WireInOrder
CHECK_DEADLOCK FALSE
