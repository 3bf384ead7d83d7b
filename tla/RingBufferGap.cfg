SPECIFICATION MCSpec
CONSTANTS
    b1 = b1
    b2 = b2
    x = x
    y = y
    Garbage = Garbage
    Buffers = {b1, b2}
    Values = {x, y}
    Page = 5
    RecordLength = 2
    Lengths = {2}
    Requested = {0, 4}
    Rewinds = {2}
    Word = 1000
    MaxCount = 9
    t1 = t1
    t2 = t2
    t3 = t3
    Requesters = {t1, t2}
    Retrievers = {t3}
    Size = 5
    BlockLength = 2
    MaxBytes = 12
SYMMETRY Symmetric
INVARIANTS WithinCapacity HeldWithinSize
PROPERTIES UnreadIntact ImplementsFifo
CHECK_DEADLOCK FALSE
