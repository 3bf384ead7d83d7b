SPECIFICATION Spec
CONSTANTS
    b1 = b1
    b2 = b2
    x = x
    y = y
    Garbage = Garbage
    Buffers = {b1, b2}
    Values = {x, y}
    Page = 6
    RecordLength = 2
    Lengths = {2}
    Requested = {6}
    Rewinds = {2}
    Word = 1000
    MaxCount = 9
SYMMETRY Symmetric
PROPERTY CopyKeepsRecords
CHECK_DEADLOCK FALSE
