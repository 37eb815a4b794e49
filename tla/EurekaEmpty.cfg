CONSTANTS
    both = both
    grpcOnly = grpcOnly
    Nodes = {both, grpcOnly}
    Schemes <- MCSchemes
    MaxChanges = 1
    MaxFaults = 0
    Calls = {s1}
    Addrs = {a1}
    MaxWeight = 1
    MaxObjects = 1
    CounterLimit = 1
    MaxBreakers = 1
    MaxResults = 1
SPECIFICATION AllSpec
PROPERTY EurekaChangesEmitted
CHECK_DEADLOCK FALSE
