---------------------------- MODULE PolicyRunner ----------------------------
(***************************************************************************)
(* Declarative policies (pkg/resiliency): EndpointPolicy resolves the      *)
(* policy of a call and takes the endpoint's breaker from a bounded cache, *)
(* Runner retries around that breaker.  An endpoint beyond the cache's     *)
(* limit gets a breaker of its own for every call.                         *)
(*                                                                         *)
(* A breaker is a record of the fields of resiliency.breaker; time counts  *)
(* in ticks, and a breaker's age in the open state saturates at Timeout.   *)
(* The timeout of the policy may end a call in any backoff.                *)
(***************************************************************************)
EXTENDS Naturals, FiniteSets

CONSTANTS
    Callers, Endpoints,
    cbMax,                   \* appPolicies.cbMax
    MaxRequests, Threshold, Timeout,
    MaxRetries,              \* RetryPolicy.maxRetries
    Duration, MaxInterval    \* RetryPolicy.duration and maxInterval

VARIABLES
    policy,      \* the retry policy: [exponential, matching]
    cbCache,     \* the endpoints whose breaker is cached
    breaker,     \* their breakers
    own,         \* the breaker of a caller that found the cache full
    cached,      \* does the caller use the cached breaker?
    at, ep, tries, wait,
    phase,       \* ghost: in which period of the breaker the caller was admitted
    leaked       \* ghost: did a probe of the breaker's half-open period panic?

vars == <<policy, cbCache, breaker, own, cached, at, ep, tries, wait, phase, leaked>>
runVars == <<at, tries, wait>>

newBreaker == [state |-> "closed", failures |-> 0, half |-> 0, since |-> 0]

-----------------------------------------------------------------------------
(* Matching.  A list of status codes and ranges is a set of intervals.     *)

NoError == [http |-> 200, grpc |-> 0]
Errors == {[http |-> 503, grpc |-> 14], [http |-> 400, grpc |-> 3]}
ErrCircuitOpen == [http |-> 503, grpc |-> 14]
RetryAll == [http |-> {}, grpc |-> {}]

\* A policy of each kind.
Policies ==
    {[exponential |-> TRUE, matching |-> RetryAll],
     [exponential |-> FALSE, matching |-> [http |-> {<<500, 500>>, <<502, 504>>}, grpc |-> {}]],
     [exponential |-> TRUE, matching |-> [http |-> {<<429, 429>>}, grpc |-> {<<8, 8>>, <<14, 14>>}]]}

ParseStatusRanges(ranges, code) == \E r \in ranges : r[1] <= code /\ code <= r[2]

Matches(err) ==
    \/ policy.matching = RetryAll
    \/ ParseStatusRanges(policy.matching.http, err.http)
    \/ ParseStatusRanges(policy.matching.grpc, err.grpc)

Capped(d) == IF MaxInterval > 0 /\ d > MaxInterval THEN MaxInterval ELSE d

backoff(attempt) == Capped(IF policy.exponential THEN Duration * 2^attempt ELSE Duration)

Init ==
    /\ policy \in Policies
    /\ cbCache = {}
    /\ breaker = [e \in Endpoints |-> newBreaker] /\ own = [c \in Callers |-> newBreaker]
    /\ cached = [c \in Callers |-> FALSE]
    /\ at = [c \in Callers |-> "idle"] /\ ep = [c \in Callers |-> CHOOSE e \in Endpoints : TRUE]
    /\ tries = [c \in Callers |-> 0] /\ wait = [c \in Callers |-> 0]
    /\ phase = [c \in Callers |-> "idle"] /\ leaked = [e \in Endpoints |-> FALSE]

-----------------------------------------------------------------------------
(* Policy lookup.                                                          *)

\* Faulty variant: the breaker is created and stored without looking again
\* under the lock, so that a racing lookup replaces it.
endpointBreakerReplaced(c, e) ==
    LET room == Cardinality(cbCache \cup {e}) <= cbMax
    IN  /\ cbCache' = IF room THEN cbCache \cup {e} ELSE cbCache
        /\ breaker' = IF room THEN [breaker EXCEPT ![e] = newBreaker] ELSE breaker
        /\ cached' = [cached EXCEPT ![c] = room]
        /\ own' = [own EXCEPT ![c] = newBreaker]

endpointBreaker(c, e) ==
    LET room == Cardinality(cbCache \cup {e}) <= cbMax
    IN  /\ cbCache' = IF room THEN cbCache \cup {e} ELSE cbCache
        /\ cached' = [cached EXCEPT ![c] = room \/ e \in cbCache]
        /\ own' = [own EXCEPT ![c] = newBreaker]
        /\ UNCHANGED breaker

\* EndpointPolicy for an app that is a target; an app without a policy, or
\* known by the configuration's name only, runs its call unprotected.
EndpointPolicy(c) ==
    /\ at[c] = "idle"
    /\ \E e \in Endpoints : endpointBreaker(c, e) /\ ep' = [ep EXCEPT ![c] = e]
    /\ at' = [at EXCEPT ![c] = "execute"]
    /\ tries' = [tries EXCEPT ![c] = 0]
    /\ UNCHANGED <<policy, wait, phase, leaked>>

-----------------------------------------------------------------------------
(* The breaker around every attempt.                                       *)

Mine(c) == IF cached[c] THEN breaker[ep[c]] ELSE own[c]

Before(b) ==
    CASE b.state = "open" -> [b EXCEPT !.state = "half-open", !.half = 0]
      [] b.state = "half-open" -> [b EXCEPT !.half = @ + 1]
      [] b.state = "closed" -> b

Rejects(b) ==
    \/ b.state = "open" /\ b.since < Timeout
    \/ b.state = "half-open" /\ b.half >= MaxRequests

After(b, ok) ==
    LET trips == b.failures + 1 >= Threshold
    IN  CASE b.state = "open" -> b
          [] b.state = "closed" /\ ok -> [b EXCEPT !.failures = 0]
          [] b.state = "closed" /\ ~ok /\ trips ->
               [b EXCEPT !.failures = @ + 1, !.state = "open", !.since = 0]
          [] b.state = "closed" /\ ~ok /\ ~trips -> [b EXCEPT !.failures = @ + 1]
          [] b.state = "half-open" /\ ok -> [b EXCEPT !.state = "closed", !.failures = 0, !.half = 0]
          [] b.state = "half-open" /\ ~ok ->
               [b EXCEPT !.state = "open", !.since = 0, !.failures = Threshold]

Set(c, b) ==
    IF cached[c] THEN breaker' = [breaker EXCEPT ![ep[c]] = b] /\ UNCHANGED own
                 ELSE own' = [own EXCEPT ![c] = b] /\ UNCHANGED breaker

\* runRetry, after an attempt: success and the last error return.
Returned(c, err) ==
    IF err \in Errors /\ Matches(err) /\ tries[c] < MaxRetries
      THEN /\ at' = [at EXCEPT ![c] = "backoff"]
           /\ wait' = [wait EXCEPT ![c] = backoff(tries[c])]
      ELSE at' = [at EXCEPT ![c] = "idle"] /\ UNCHANGED wait

Execute(c) ==
    /\ at[c] = "execute"
    /\ IF Rejects(Mine(c))
         THEN Returned(c, ErrCircuitOpen) /\ UNCHANGED <<breaker, own, phase>>
         ELSE /\ Set(c, Before(Mine(c)))
              /\ at' = [at EXCEPT ![c] = "op"]
              /\ phase' = [phase EXCEPT ![c] = IF Mine(c).state = "closed" THEN "normal" ELSE "probe"]
              /\ UNCHANGED wait
    /\ UNCHANGED <<policy, cbCache, cached, ep, tries, leaked>>

\* Ghost: everyone else inside the breaker was admitted in an earlier period.
Late(c) ==
    LET fellow == {d \in Callers : cached[d] /\ cached[c] /\ ep[d] = ep[c] /\ phase[d] # "idle"}
    IN  [d \in Callers |-> IF d = c THEN "idle" ELSE IF d \in fellow THEN "late" ELSE phase[d]]

OpReturns(c) ==
    /\ at[c] = "op"
    /\ \E err \in Errors \cup {NoError} :
         LET b == After(Mine(c), err = NoError)
         IN  /\ Set(c, b)
             /\ phase' = IF b.state = Mine(c).state THEN [phase EXCEPT ![c] = "idle"] ELSE Late(c)
             /\ Returned(c, err)
    /\ leaked' = IF cached[c] THEN [leaked EXCEPT ![ep[c]] = FALSE] ELSE leaked
    /\ UNCHANGED <<policy, cbCache, cached, ep, tries>>

OpPanics(c) ==
    /\ at[c] = "op"
    /\ at' = [at EXCEPT ![c] = "idle"]
    /\ phase' = [phase EXCEPT ![c] = "idle"]
    /\ leaked' = IF cached[c] THEN [leaked EXCEPT ![ep[c]] = @ \/ phase[c] = "probe"] ELSE leaked
    /\ UNCHANGED <<policy, cbCache, breaker, own, cached, ep, tries, wait>>

-----------------------------------------------------------------------------
TimerFires(c) ==
    /\ at[c] = "backoff" /\ wait[c] = 0
    /\ at' = [at EXCEPT ![c] = "execute"]
    /\ tries' = [tries EXCEPT ![c] = @ + 1]
    /\ UNCHANGED <<policy, cbCache, breaker, own, cached, ep, wait, phase, leaked>>

CtxDone(c) ==
    /\ at[c] = "backoff"
    /\ at' = [at EXCEPT ![c] = "idle"]
    /\ UNCHANGED <<policy, cbCache, breaker, own, cached, ep, tries, wait, phase, leaked>>

Older(b) == IF b.state = "open" /\ b.since < Timeout THEN [b EXCEPT !.since = @ + 1] ELSE b

Tick ==
    /\ breaker' = [e \in Endpoints |-> Older(breaker[e])]
    /\ own' = [c \in Callers |-> Older(own[c])]
    /\ wait' = [c \in Callers |-> IF wait[c] > 0 THEN wait[c] - 1 ELSE 0]
    /\ UNCHANGED <<policy, cbCache, cached, at, ep, tries, phase, leaked>>

Next ==
    \/ \E c \in Callers : \/ EndpointPolicy(c) \/ Execute(c) \/ OpReturns(c) \/ OpPanics(c)
                          \/ TimerFires(c) \/ CtxDone(c)
    \/ Tick

Spec == Init /\ [][Next]_vars

-----------------------------------------------------------------------------
\* Endpoints are interchangeable: one stands for all.
Tracked == CHOOSE e \in Endpoints : TRUE

Breaker == INSTANCE CircuitBreaker WITH
    state <- breaker[Tracked].state, consecutiveFailures <- breaker[Tracked].failures,
    halfOpenRequests <- breaker[Tracked].half, sinceOpened <- breaker[Tracked].since,
    call <- [c \in Callers |-> IF cached[c] /\ ep[c] = Tracked THEN phase[c] ELSE "idle"],
    healthy <- FALSE, leaked <- leaked[Tracked]

\* Whatever lookups, retries, timeouts and panics come together, a cached
\* endpoint has one breaker that behaves like CircuitBreaker towards all its
\* callers: its state survives across policy lookups.
ImplementsBreaker == Breaker!Spec
=============================================================================
