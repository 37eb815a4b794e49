CONSTANTS
    Callers = {c1, c2, c3}
    MaxMonitors = 2
    Pair = {p1, p2}
    Key = {k1}
    Keys = {k1, k2}
    Burst = 2
    Interval = 2
    Cleanup = 3
    MaxLimit = 2
    Receivers = {r1, r2}
    Publishers = {publisher}
    Dispatchers = {dispatcher}
    Capacity = 1
    MaxPushes = 2
    MaxMessages = 2
    Subscribers = {s1, s2}
    MaxFaults = 1
    Clients = {c1, c2}
    Wheel = wheel
    Values = {1, 2}
    NumSlots = 3
    MaxDelay = 7
    CacheLimit = 1
    MaxSize = 3
    GrowThreshold = 2
    MaxElements = 9
    Steps = 2
    Threshold = 1
    MaxPuts = 6
SPECIFICATION AllSpec
INVARIANTS NeverStranded RateHeld MessagesReach CollectionsConsistent
PROPERTIES WaitingPays NewestOfEachSource NothingIsStuck
CHECK_DEADLOCK FALSE
