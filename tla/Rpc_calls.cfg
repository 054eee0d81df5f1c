CONSTANTS
    s1 = s1
    s2 = s2
    f = f
    g = g
    Servers = {s1, s2}
    Clients = {c1, c2}
    Functions = {f, g}
    Offers <- TwoServers
    MaxCalls = 1
    MaxKilled = 1
    None = None
SPECIFICATION Spec
INVARIANTS LocatedServerHasIt RemovedUnlessReset ResultIsHonest
CHECK_DEADLOCK FALSE
