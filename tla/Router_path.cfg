CONSTANTS
    Routers = {1, 2, 3, 4}
    Links = {1, 2, 3}
    Infty = 100
    CircuitDB <- Path
    MaxLost = 1
    observed = 1
SPECIFICATION HistorySpec
INVARIANTS
    NeighboursAgree
PROPERTIES
    TableFollows
CHECK_DEADLOCK FALSE
