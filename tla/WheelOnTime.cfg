CONSTANTS
    Callers = {c1}
    MaxMonitors = 2
    Pair = {p1}
    Key = {k1}
    Keys = {k1}
    Burst = 2
    Interval = 2
    Cleanup = 3
    MaxLimit = 2
    Receivers = {r1, r2}
    Publishers = {publisher}
    Dispatchers = {dispatcher}
    Capacity = 1
    MaxPushes = 2
    MaxMessages = 2
    Subscribers = {s1}
    MaxFaults = 0
    Clients = {c1}
    Wheel = wheel
    Values = {1, 2}
    NumSlots = 3
    MaxDelay = 7
    CacheLimit = 1
    MaxSize = 3
    GrowThreshold = 2
    MaxElements = 9
    Steps = 2
    Threshold = 1
    MaxPuts = 6
SPECIFICATION AllSpec
INVARIANT TimersOnTime
CHECK_DEADLOCK FALSE
