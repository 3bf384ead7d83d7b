SPECIFICATION MCSpec
CONSTANTS
    main = main
    w1 = w1
    w2 = w2
    foo = foo
    bar = bar
    Null = Null
    Master = main
    Workers = {w1, w2}
    Labels = {foo}
    MaxBookmarks = 3
    MaxDepth = 3
    PushesMain = 2
    PushesFirst = 1
    PushesSecond = 1
    MaxPushes <- Pushes
    MaxNodes = 1
    Leader = main
    Followers = {w1, w2}
    NoThread = NoThread
    MaxRecords = 2
INVARIANTS EarlierArePrinted OnlyOverlappingMisuse CallbacksLive
PROPERTIES NestedInOpen ExitedIsMerged EndsComplete
CHECK_DEADLOCK FALSE
