CONSTANTS
    Threads = {1, 2, 3}
    totalSlices = 3
    width = 5
    height = 2
SPECIFICATION FairSpec
INVARIANT BarIsFull
PROPERTY ImplementsPicture
CHECK_DEADLOCK FALSE
