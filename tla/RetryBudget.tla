----------------------------- MODULE RetryBudget -----------------------------
(***************************************************************************)
(* resilience.Retry with WithMaxRetryRatio: the callers of one middleware  *)
(* share a retryPercentageLimiter.  allowRetry reads the two windows and   *)
(* adds the retry in three separately locked steps, so that several        *)
(* callers may pass on the same reading.  All of it happens within one     *)
(* window, so that the counts only grow; they are bounded by MaxTotal.     *)
(***************************************************************************)
EXTENDS Naturals, FiniteSets

CONSTANTS
    Callers,
    MaxAttempts,           \* retryConfig.maxAttempts
    RatioNum, RatioDen,    \* retryConfig.maxRetryRatio
    MaxTotal               \* bound: attempts in the window

VARIABLES
    total, retried,   \* the sums of the windows total and retry
    pc, try,          \* where each caller is, and the number of its attempt
    sawTotal, sawRetried

vars == <<total, retried, pc, try, sawTotal, sawRetried>>

TypeOK ==
    /\ total \in 0..MaxTotal /\ retried \in 0..MaxTotal
    /\ pc \in [Callers -> {"idle", "try", "reduceTotal", "reduceRetry", "decide", "backoff"}]
    /\ try \in [Callers -> 1..MaxAttempts]
    /\ sawTotal \in [Callers -> 0..MaxTotal] /\ sawRetried \in [Callers -> 0..MaxTotal]

Init ==
    /\ total = 0 /\ retried = 0
    /\ pc = [c \in Callers |-> "idle"]
    /\ try = [c \in Callers |-> 1]
    /\ sawTotal = [c \in Callers |-> 0] /\ sawRetried = [c \in Callers |-> 0]

Goto(c, l) == pc' = [pc EXCEPT ![c] = l]

\* An attempt begins: observeTotal.  The next attempt begins after the backoff.
Attempt(c) ==
    /\ pc[c] \in {"idle", "backoff"}
    /\ total < MaxTotal
    /\ total' = total + 1
    /\ try' = [try EXCEPT ![c] = IF pc[c] = "idle" THEN 1 ELSE @ + 1]
    /\ Goto(c, "try")
    /\ UNCHANGED <<retried, sawTotal, sawRetried>>

\* It returns: success and the last attempt end the call.
Returns(c) ==
    /\ pc[c] = "try"
    /\ \/ Goto(c, "idle")
       \/ try[c] < MaxAttempts /\ Goto(c, "reduceTotal")
    /\ UNCHANGED <<total, retried, try, sawTotal, sawRetried>>

ReduceTotal(c) ==
    /\ pc[c] = "reduceTotal"
    /\ sawTotal' = [sawTotal EXCEPT ![c] = total]
    /\ Goto(c, "reduceRetry")
    /\ UNCHANGED <<total, retried, try, sawRetried>>

ReduceRetry(c) ==
    /\ pc[c] = "reduceRetry"
    /\ sawRetried' = [sawRetried EXCEPT ![c] = retried]
    /\ Goto(c, "decide")
    /\ UNCHANGED <<total, retried, try, sawTotal>>

\* Faulty variant: the retry is not counted.
DecideUncounted(c) ==
    /\ pc[c] = "decide"
    /\ Goto(c, IF sawRetried[c] * RatioDen >= sawTotal[c] * RatioNum THEN "idle" ELSE "backoff")
    /\ UNCHANGED <<total, retried, try, sawTotal, sawRetried>>

Decide(c) ==
    /\ pc[c] = "decide"
    /\ IF sawRetried[c] * RatioDen >= sawTotal[c] * RatioNum
         THEN Goto(c, "idle") /\ UNCHANGED retried
         ELSE Goto(c, "backoff") /\ retried' = retried + 1
    /\ UNCHANGED <<total, try, sawTotal, sawRetried>>

\* The caller's context ends during the backoff, after the retry was counted.
Canceled(c) ==
    /\ pc[c] = "backoff"
    /\ Goto(c, "idle")
    /\ UNCHANGED <<total, retried, try, sawTotal, sawRetried>>

Next ==
    \E c \in Callers : \/ Attempt(c) \/ Returns(c) \/ ReduceTotal(c) \/ ReduceRetry(c)
                       \/ Decide(c) \/ Canceled(c)

Spec == Init /\ [][Next]_vars

-----------------------------------------------------------------------------
\* The attempts that really were retries of a running call, begun or due.
Due == {c \in Callers : pc[c] = "backoff"} \cup {c \in Callers : pc[c] # "idle" /\ try[c] > 1}

\* Although callers decide on readings that others have made stale, the retries
\* stay within the ratio of all attempts but for one per concurrent caller, and
\* no retry is under way that was not counted.
BudgetHolds ==
    /\ retried * RatioDen <= total * RatioNum + Cardinality(Callers) * RatioDen
    /\ Cardinality(Due) <= retried
=============================================================================
