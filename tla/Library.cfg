SPECIFICATION MCSpec
CONSTANTS
    main = main
    w = w
    f = f
    g = g
    Threads = {main, w}
    Main = main
    Named = {f}
    Numbered = {g}
    ThrottleCount = 2
    MaxCalls = 3
    MaxInits = 2
    Names = {f}
    MaxRegions = 2
    MaxNumbers = 3
    NoRecord = NoRecord
    Users = {main, w}
    Components = {f}
    Default = {f}
    Nobody = Nobody
    MaxSets = 3
INVARIANTS OpenIsCalled MeasuredToTheEnd EarlyOnlyAfterRace EmptiedStaysEmpty RecordsPaired CurrentAsDocumented
CHECK_DEADLOCK FALSE
