CONSTANTS
    MaxLeases = 3
    N = 2
    Stoppers = {g1, g2}
    MaxRuns = 2
    Kinds = {"http", "grpc"}
    Layouts = {"flat", "matched"}
    Backends = {"consul", "eureka", "polaris", "nacos", "static"}
    MaxRegisters = 2
    Lifetime = 2
    MaxTime = 4
    Requests = {r1, r2}
    Modes = {"otel", "file", "console", "classic", "hybrid"}
    Outputs = {"stdout", "file"}
    MaxApplies = 3
    Loggers = {1, 2}
    MaxHandlers = 4
    MaxRecords = 2
SPECIFICATION AllSpec
INVARIANTS OneTender QuietWhenStopped HeartbeatKeepsEntry TelemetryHolds
PROPERTIES Reregisters DeregisterRemovesKey RunEnds
CHECK_DEADLOCK FALSE
