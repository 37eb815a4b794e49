CONSTANTS
    Callers = {c1, c2, c3}
    Nodes = {n1, n2}
    TTL = 3
    NodeTTL = 1
    MinRetryInterval = 2
    Tasks = {t1, t2, t3}
    Waiters = {w1}
    Flushers = {f1, f2}
    Large = {t3}
    MaxTasks = 2
    Four = {c1, c2, c3, c4}
    Trio = {c1, c2, c3}
    Pair = {c1, c2}
    NoOne = NoOne
    MaxLoads = 2
    PoolLimit = 2
    SlotLimit = 1
    Threshold = 1
    MaxTime = 5
    MaxRuns = 2
    Items = 3
    Workers = 2
    MaxValue = 3
SPECIFICATION AllSpec
INVARIANTS OneFlight ExactlyOnePlace PrimitivesHold PipeComplete
PROPERTIES ErrorOnlyWithoutSnapshot FreshNodesServed ConvergesToRegistry CallersReturn
CHECK_DEADLOCK FALSE
