CONSTANTS
    s1 = s1
    s2 = s2
    f = f
    g = g
    Servers = {s1, s2}
    Clients = {c1}
    Functions = {f, g}
    Offers <- TwoServers
    MaxCalls = 2
    MaxKilled = 1
    None = None
SPECIFICATION FairSpec
PROPERTIES RegistryFollows ServersFollow CallsReturn
CHECK_DEADLOCK FALSE
