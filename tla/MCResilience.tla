---------------------------- MODULE MCResilience ----------------------------
(* The breakers, retries, limits and hedges of pkg/resiliency,              *)
(* pkg/resilience and the client's chain.  These parts share nothing, so    *)
(* `part` picks at the start which one the behaviour is about and the       *)
(* others stay as they begin.                                               *)
EXTENDS CircuitBreaker

CONSTANTS
    Pair, Endpoints,
    \* One policy provider and its runners (PolicyRunner).
    CacheSize, BreakerRequests, BreakerThreshold, BreakerTimeout,
    RetryLimit, RetryDuration, RetryMaxInterval,
    \* The client's chain (ClientChain).
    MaxConcurrent, ChainAttempts, Buckets, Protection, ProbeInterval, MaxPerTick,
    \* The rolling window (RollingWindow).
    WindowSize, WindowInterval, MaxAdds,
    \* The retry budget (RetryBudget).
    BudgetAttempts, RatioNum, RatioDen, BudgetTotal

ASSUME PairFinite == IsFiniteSet(Pair)
ASSUME PolicyConstants ==
    /\ Endpoints # {}
    /\ BreakerRequests \in Nat /\ BreakerThreshold \in Nat /\ BreakerTimeout \in Nat
ASSUME ChainConstants == MaxConcurrent \in Nat /\ MaxPerTick \in Nat
ASSUME WindowConstants ==
    WindowSize \in Nat \ {0} /\ WindowInterval \in Nat \ {0} /\ MaxAdds \in Nat
ASSUME BudgetConstants ==
    /\ BudgetAttempts \in Nat \ {0} /\ BudgetTotal \in Nat
    /\ RatioNum \in Nat /\ RatioDen \in Nat \ {0}

VARIABLES
    part,
    policy, cbCache, breaker, own, cached, at, ep, tries, wait, phase, lost,
    shared, borrowed, win, lastPass, sincePass, stage, attempt,
    buckets, offset, elapsed,
    total, retried, pc, try, sawTotal, sawRetried,
    hedge, primary, backup, flying, backupTotal, backupSuccess,
    cpuHigh, inFlight, overloadTime, sinceOverload, droppedRecently, step

Policy == INSTANCE PolicyRunner WITH
    Callers <- Pair, cbMax <- CacheSize, MaxRequests <- BreakerRequests,
    Threshold <- BreakerThreshold, Timeout <- BreakerTimeout, MaxRetries <- RetryLimit,
    Duration <- RetryDuration, MaxInterval <- RetryMaxInterval, leaked <- lost
Chain == INSTANCE ClientChain WITH
    Callers <- Pair, MaxAttempts <- ChainAttempts, call <- stage
Window == INSTANCE RollingWindow WITH Size <- WindowSize, Interval <- WindowInterval
Budget == INSTANCE RetryBudget WITH
    Callers <- Pair, MaxAttempts <- BudgetAttempts, MaxTotal <- BudgetTotal
Hedging == INSTANCE Hedge WITH
    Callers <- Pair, MaxBackups <- 2, RateNum <- 1, RateDen <- 2, MaxTotal <- 4, at <- hedge
Shed == INSTANCE Shedder WITH Callers <- Pair, CoolOff <- 2

policyVars == <<policy, cbCache, breaker, own, cached, at, ep, tries, wait, phase, lost>>
chainVars == <<shared, borrowed, win, lastPass, sincePass, stage, attempt>>
windowVars == <<buckets, offset, elapsed>>
budgetVars == <<total, retried, pc, try, sawTotal, sawRetried>>
hedgeVars == <<hedge, primary, backup, flying, backupTotal, backupSuccess>>
shedVars == <<cpuHigh, inFlight, overloadTime, sinceOverload, droppedRecently, step>>
allVars == <<part, vars, policyVars, chainVars, windowVars, budgetVars, hedgeVars, shedVars>>

AllInit ==
    /\ part \in {"breaker", "policy", "chain", "window", "budget", "hedge", "shedder"}
    /\ Init /\ Policy!Init /\ Chain!Init /\ Window!Init /\ Budget!Init /\ Hedging!Init /\ Shed!Init
    /\ part # "breaker" => healthy
    /\ part # "policy" => policy = [exponential |-> TRUE, matching |-> Policy!RetryAll]
    /\ part # "chain" => shared
    /\ part # "shedder" => cpuHigh

AllNext ==
    \/ /\ part = "breaker" /\ Next
       /\ UNCHANGED <<part, policyVars, chainVars, windowVars, budgetVars, hedgeVars, shedVars>>
    \/ /\ part = "policy" /\ Policy!Next
       /\ UNCHANGED <<part, vars, chainVars, windowVars, budgetVars, hedgeVars, shedVars>>
    \/ /\ part = "chain" /\ Chain!Next
       /\ UNCHANGED <<part, vars, policyVars, windowVars, budgetVars, hedgeVars, shedVars>>
    \/ /\ part = "window" /\ Window!Next
       /\ UNCHANGED <<part, vars, policyVars, chainVars, budgetVars, hedgeVars, shedVars>>
    \/ /\ part = "budget" /\ Budget!Next
       /\ UNCHANGED <<part, vars, policyVars, chainVars, windowVars, hedgeVars, shedVars>>
    \/ /\ part = "hedge" /\ Hedging!Next
       /\ UNCHANGED <<part, vars, policyVars, chainVars, windowVars, budgetVars, shedVars>>
    \/ /\ part = "shedder" /\ Shed!Next
       /\ UNCHANGED <<part, vars, policyVars, chainVars, windowVars, budgetVars, hedgeVars>>

\* Clients keep calling, requests return, time passes.  In the client's chain
\* the draw does not go against a breaker that has never let a throttled
\* request through for ever.  Hedged requests return once canceled.
AllSpec ==
    /\ AllInit /\ [][AllNext]_allVars
    /\ \A c \in Callers :
         /\ WF_vars(part = "breaker" /\ beforeRequest(c))
         /\ WF_vars(part = "breaker" /\ afterRequest(c))
    /\ WF_vars(part = "breaker" /\ Tick)
    /\ WF_chainVars(part = "chain" /\ Chain!Tick)
    /\ WF_chainVars(part = "chain" /\ \E c \in Pair : Chain!TryBorrow(c))
    /\ \A c \in Pair :
         /\ WF_chainVars(part = "chain" /\ Chain!CallStep(c))
         /\ SF_chainVars(part = "chain" /\ ~lastPass /\ Chain!DrawPass(c))
    /\ \A c \in Pair :
         /\ WF_hedgeVars(part = "hedge" /\ Hedging!PrimaryEnds(c))
         /\ WF_hedgeVars(part = "hedge" /\ Hedging!BackupEnds(c))
         /\ WF_hedgeVars(part = "hedge" /\ Hedging!CallProceeds(c))
    /\ WF_shedVars(part = "shedder" /\ Shed!Tick)
    /\ \A c \in Pair :
         /\ WF_shedVars(part = "shedder" /\ Shed!systemOverloaded(c))
         /\ WF_shedVars(part = "shedder" /\ Shed!Step(c))

\* One breaker per cached endpoint (PolicyRunner).
ImplementsBreaker == Policy!ImplementsBreaker
\* Slots of the shared bulkhead (ClientChain).
SlotsMatchCalls == Chain!SlotsMatchCalls
\* Throttling never starves the endpoint (ClientChain).
RequestsGetThrough == part = "chain" => Chain!RequestsGetThrough
\* The HTTP client's bulkhead (ClientChain).
BulkheadBounds == Chain!BulkheadBounds
\* The rolling window is a sliding one (RollingWindow).
ImplementsSlidingWindow == Window!ImplementsSlidingWindow
\* Retries stay within the ratio (RetryBudget).
BudgetHolds == Budget!BudgetHolds
\* Hedged calls and their losers end (Hedge).
CallAndLosersEnd == Hedging!CallAndLosersEnd
\* Shedding ends with the load (Shedder).
SheddingEnds == Shed!SheddingEnds
=============================================================================
