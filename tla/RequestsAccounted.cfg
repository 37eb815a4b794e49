CONSTANTS
    MaxLeases = 1
    N = 1
    Stoppers = {g1}
    MaxRuns = 1
    Kinds = {"http"}
    Layouts = {"matched"}
    Backends = {"consul", "eureka", "polaris", "nacos", "static"}
    MaxRegisters = 2
    Lifetime = 2
    MaxTime = 4
    Requests = {r1}
    Modes = {"otel", "file", "console", "classic", "hybrid"}
    Outputs = {"stdout", "file"}
    MaxApplies = 3
    Loggers = {1, 2}
    MaxHandlers = 4
    MaxRecords = 2
SPECIFICATION AllSpec
INVARIANT EveryRequestAccounted
CHECK_DEADLOCK FALSE
