CONSTANTS
    Routers = {1, 2, 3, 4, 5}
    Links = {1, 2, 3, 4, 5, 6}
    Infty = 100
    CircuitDB <- Pentagon
    routerId = 1
SPECIFICATION TableSpec
INVARIANTS
    TableIsShortest
    StuckIffTwoUnreached
CHECK_DEADLOCK FALSE
