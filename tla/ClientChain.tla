----------------------------- MODULE ClientChain -----------------------------
(***************************************************************************)
(* The resilience chain of a client (pkg/client/resilience.go):            *)
(* deadline -> bulkhead -> breaker -> retry around every call.             *)
(*                                                                         *)
(* The gRPC client builds the chain once, in Dial, so that all its calls   *)
(* share the bulkhead's slots and the breaker's window.  HTTPClient.Do     *)
(* builds it anew for every call: slots and window then belong to that     *)
(* call alone, an empty window never throttles and a fresh bulkhead is     *)
(* never full.                                                             *)
(*                                                                         *)
(* The breaker's rolling window is kept as the counts of the last Buckets  *)
(* intervals, newest first, which is what RollingWindow shows it to be.    *)
(* accept draws a random number: both outcomes are possible wherever the   *)
(* drop ratio is neither 0 nor less.                                       *)
(***************************************************************************)
EXTENDS Naturals, FiniteSets, FiniteSetsExt

CONSTANTS
    Callers,
    MaxConcurrent,   \* resilienceConfig.maxConcurrent
    MaxAttempts,     \* resilienceConfig.maxAttempts
    Buckets,         \* breakerConfig.buckets
    Protection,      \* protection
    ProbeInterval,   \* breakerConfig.probeInterval, in ticks
    MaxPerTick       \* bound: outcomes recorded in one interval

VARIABLES
    shared,      \* is the chain built once (gRPC) or per call (HTTP)?
    borrowed,    \* slots taken from the shared bulkhead
    win,         \* the shared breaker's window
    lastPass,    \* has lastPass been stored?
    sincePass,   \* time since then, saturating above ProbeInterval
    call,        \* what each caller is doing
    attempt      \* the attempt its retry loop is in

vars == <<shared, borrowed, win, lastPass, sincePass, call, attempt>>
breakerVars == <<win, lastPass, sincePass>>

Outcomes == {"success", "failure", "drop"}
Empty == [o \in Outcomes |-> 0]

TypeOK ==
    /\ shared \in BOOLEAN /\ lastPass \in BOOLEAN
    /\ borrowed \in 0..MaxConcurrent
    /\ win \in [1..Buckets -> [Outcomes -> 0..MaxPerTick]]
    /\ sincePass \in 0..(ProbeInterval + 1)
    /\ call \in [Callers -> {"idle", "accept", "throttled", "pass", "try", "backoff"}]
    /\ attempt \in [Callers -> 1..MaxAttempts]

Init ==
    /\ shared \in BOOLEAN
    /\ borrowed = 0
    /\ win = [i \in 1..Buckets |-> Empty]
    /\ lastPass = FALSE /\ sincePass = 0
    /\ call = [c \in Callers |-> "idle"]
    /\ attempt = [c \in Callers |-> 1]

Goto(c, pc) == call' = [call EXCEPT ![c] = pc]
Inside == {c \in Callers : call[c] # "idle"}

-----------------------------------------------------------------------------
(* The breaker's window.                                                   *)

Total(b) == b["success"] + b["failure"] + b["drop"]

history ==
    [accepts |-> MapThenSumSet(LAMBDA i : win[i]["success"], 1..Buckets),
     total   |-> MapThenSumSet(LAMBDA i : Total(win[i]), 1..Buckets),
     working |-> Cardinality({i \in 1..Buckets : win[i]["success"] > 0}),
     failing |-> Cardinality({i \in 1..Buckets : win[i]["failure"] > 0})]

\* dropRatio > 0, for k = 1.5 and minK = 1.1, multiplied by 10 * Buckets.
Throttling(h) ==
    10 * Buckets * h.total >
        10 * Buckets * Protection + (15 * Buckets - 4 * h.failing) * h.accepts

mark(outcome) ==
    win' = IF shared THEN [win EXCEPT ![1][outcome] = @ + 1] ELSE win

-----------------------------------------------------------------------------
(* Bulkhead.                                                               *)

\* A call enters the chain; a full bulkhead rejects it, which is no step.
TryBorrow(c) ==
    /\ call[c] = "idle"
    /\ Total(win[1]) + Cardinality(Inside) < MaxPerTick
    /\ shared => borrowed < MaxConcurrent
    /\ borrowed' = IF shared THEN borrowed + 1 ELSE borrowed
    /\ Goto(c, "accept")
    /\ attempt' = [attempt EXCEPT ![c] = 1]
    /\ UNCHANGED <<shared, breakerVars>>

\* The call leaves with its outcome on record; the deferred Return gives the
\* slot back.
Leave(c, outcome) ==
    /\ Goto(c, "idle")
    /\ mark(outcome)
    /\ borrowed' = IF shared THEN borrowed - 1 ELSE borrowed
    /\ UNCHANGED <<shared, lastPass, sincePass, attempt>>

-----------------------------------------------------------------------------
(* Breaker.                                                                *)

Accept(c) ==
    /\ call[c] = "accept"
    /\ Goto(c, IF shared /\ Throttling(history) THEN "throttled" ELSE "try")
    /\ UNCHANGED <<shared, borrowed, breakerVars, attempt>>

\* Faulty variant: the probe interval is compared the wrong way round.
ForcePassNever(c) ==
    /\ call[c] = "throttled"
    /\ lastPass /\ sincePass < 0
    /\ Goto(c, "pass")
    /\ UNCHANGED <<shared, borrowed, breakerVars, attempt>>

\* The probe interval has passed since the last throttled request got through.
ForcePass(c) ==
    /\ call[c] = "throttled"
    /\ lastPass /\ sincePass > ProbeInterval
    /\ Goto(c, "pass")
    /\ UNCHANGED <<shared, borrowed, breakerVars, attempt>>

DrawPass(c) ==
    /\ call[c] = "throttled"
    /\ ~(lastPass /\ sincePass > ProbeInterval)
    /\ Goto(c, "pass")
    /\ UNCHANGED <<shared, borrowed, breakerVars, attempt>>

\* Faulty variant: the slot of a rejected request is not returned.
DrawDropKeepSlot(c) ==
    /\ call[c] = "throttled"
    /\ ~(lastPass /\ sincePass > ProbeInterval)
    /\ history.working < Buckets
    /\ Goto(c, "idle")
    /\ mark("drop")
    /\ UNCHANGED <<shared, borrowed, lastPass, sincePass, attempt>>

\* The ratio drops to 0 once every bucket has a success.
DrawDrop(c) ==
    /\ call[c] = "throttled"
    /\ ~(lastPass /\ sincePass > ProbeInterval)
    /\ history.working < Buckets
    /\ Leave(c, "drop")

StoreLastPass(c) ==
    /\ call[c] = "pass"
    /\ lastPass' = TRUE /\ sincePass' = 0
    /\ Goto(c, "try")
    /\ UNCHANGED <<shared, borrowed, win, attempt>>

-----------------------------------------------------------------------------
(* Retry around the call itself.                                           *)

\* The kinds of result the classifiers tell apart, with an example of each.
Results == {"ok", "invalid", "exhausted", "unimplemented", "unavailable", "panic"}
grpcAcceptable(r) == r \in {"ok", "invalid", "exhausted"}
grpcRetryable(r) == r \in {"exhausted", "unavailable"}

\* An attempt returns, or panics through the whole chain.
Answer(c) ==
    /\ call[c] = "try"
    /\ \E r \in Results :
         IF grpcRetryable(r) /\ attempt[c] < MaxAttempts
           THEN Goto(c, "backoff") /\ UNCHANGED <<shared, borrowed, breakerVars, attempt>>
           ELSE Leave(c, IF grpcAcceptable(r) THEN "success" ELSE "failure")

BackoffEnds(c) ==
    /\ call[c] = "backoff"
    /\ Goto(c, "try")
    /\ attempt' = [attempt EXCEPT ![c] = @ + 1]
    /\ UNCHANGED <<shared, borrowed, breakerVars>>

\* The deadline, or the caller, ends the call during a backoff; ctx.Err() is a
\* plain error, which errorsx classifies.
Canceled(c) ==
    /\ call[c] = "backoff"
    /\ \E outcome \in {"success", "failure"} : Leave(c, outcome)

CallStep(c) ==
    \/ Accept(c) \/ ForcePass(c) \/ DrawPass(c) \/ DrawDrop(c) \/ StoreLastPass(c)
    \/ Answer(c) \/ BackoffEnds(c) \/ Canceled(c)

Tick ==
    /\ win' = [i \in 1..Buckets |-> IF i = 1 THEN Empty ELSE win[i - 1]]
    /\ sincePass' = IF lastPass /\ sincePass <= ProbeInterval THEN sincePass + 1 ELSE sincePass
    /\ UNCHANGED <<shared, borrowed, lastPass, call, attempt>>

Next == Tick \/ \E c \in Callers : TryBorrow(c) \/ CallStep(c)

Spec == Init /\ [][Next]_vars

-----------------------------------------------------------------------------
(* Properties.                                                             *)

\* Rejections, retries, timeouts and panics all return the slot exactly once:
\* the slots taken are the calls inside, and never more than the limit.
SlotsMatchCalls ==
    shared => borrowed = Cardinality(Inside) /\ borrowed <= MaxConcurrent

\* However long the failures last and however much is rejected, requests keep
\* reaching the endpoint: the breaker can notice that it is well again.
RequestsGetThrough == []<>(\E c \in Callers : call[c] = "try")

\* The promise of WithHTTPBulkhead: requests in flight stay within the limit.
BulkheadBounds == Cardinality({c \in Callers : call[c] = "try"}) <= MaxConcurrent
=============================================================================
