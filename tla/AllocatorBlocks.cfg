SPECIFICATION MCSpec
CONSTANTS
    a1 = a1
    a2 = a2
    Null = Null
    Allocators = {a1, a2}
    BufferCount = 1
    Page = 2
    RecordLength = 2
    Requests = {1, 2}
    Reservations = {2}
    MaxBuffers = 2
    Graphs = {1, 2}
    Main = 1
    MaxNodes = 4
INVARIANTS BlocksInsideBuffer HeldApart OnlyTailsLost LinksAgree NodesHaveMemory
PROPERTIES ImplementsPool ImplementsForest LosesFirstChildren
CHECK_DEADLOCK FALSE
