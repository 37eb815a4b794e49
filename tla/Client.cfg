CONSTANTS
    both = both
    grpcOnly = grpcOnly
    Nodes = {both, grpcOnly}
    Schemes <- MCSchemes
    MaxChanges = 3
    MaxFaults = 2
    Calls = {s1, s2}
    Addrs = {a1, a2}
    MaxWeight = 2
    MaxObjects = 3
    CounterLimit = 3
    MaxBreakers = 3
    MaxResults = 2
SPECIFICATION AllSpec
INVARIANTS CallsCounted SharesByWeight StableNodesServed CaughtUp
PROPERTIES WatchSettles CallsFindNodes
CHECK_DEADLOCK FALSE
