CONSTANTS
    Routers = {1, 2}
    Links = {1, 2}
    Infty = 100
    CircuitDB <- Parallel
    MaxLost = 1
SPECIFICATION FairSpec
INVARIANTS
    TypeOK
    DatabaseIsTrue
    NeighboursKnown
PROPERTIES
    FloodEnds
CHECK_DEADLOCK FALSE
