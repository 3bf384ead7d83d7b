SPECIFICATION WorkSpec
CONSTANTS
    main = main
    w1 = w1
    w2 = w2
    foo = foo
    bar = bar
    Null = Null
    Master = main
    Workers = {w1}
    Labels = {foo, bar}
    MaxBookmarks = 4
    MaxDepth = 4
    PushesMain = 4
    PushesFirst = 1
    PushesSecond = 0
    MaxPushes <- Pushes
    MaxNodes = 4
INVARIANTS MergedWhereBookmarked
CHECK_DEADLOCK FALSE
