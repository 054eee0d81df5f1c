CONSTANTS
    c1 = c1
    c2 = c2
    c3 = c3
    Clients = {c1, c2, c3}
    NumLines <- OneWithLines
    MaxKilled = 1
    max_clients = 2
    None = None
SPECIFICATION FairSpec
INVARIANTS
    NothingLost
    ReturnsAnswered
    ServerOutlivesOrderlyClients
PROPERTIES
    LinesAnswered
    ClientEnds
CHECK_DEADLOCK FALSE
