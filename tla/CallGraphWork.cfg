SPECIFICATION Spec
CONSTANTS
    main = main
    w1 = w1
    w2 = w2
    foo = foo
    bar = bar
    Null = Null
    Master = main
    Workers = {w1}
    Labels = {foo, bar}
    MaxBookmarks = 3
    MaxDepth = 2
    PushesMain = 2
    PushesFirst = 2
    PushesSecond = 0
    MaxPushes <- Pushes
    MaxNodes = 4
SYMMETRY Symmetric
INVARIANTS LapsConserved StackTracksDepth ChildDepth BookmarksFound DepthExceededByOne
PROPERTIES StaleOnlyAtEqualDepth
CHECK_DEADLOCK FALSE
