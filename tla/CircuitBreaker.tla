--------------------------- MODULE CircuitBreaker ---------------------------
(***************************************************************************)
(* The consecutive-failure circuit breaker of pkg/resiliency/breaker.go,   *)
(* shared by every caller of one endpoint.                                 *)
(*                                                                         *)
(* beforeRequest and afterRequest each run under b.mu, so each is one      *)
(* atomic step; the request itself runs between them with the mutex        *)
(* released, which is where the interleavings are.  time.Since(openedAt)   *)
(* is the variable sinceOpened, which Tick advances and which saturates at *)
(* Timeout: the code only ever compares it with the timeout.               *)
(***************************************************************************)
EXTENDS Naturals, FiniteSets

CONSTANTS
    Callers,      \* goroutines that call Execute
    MaxRequests,  \* breakerOptions.maxRequests, after newBreaker's default
    Threshold,    \* defaultBreakerThreshold
    Timeout       \* breakerOptions.timeout, in ticks

ASSUME BreakerAssumption ==
    /\ IsFiniteSet(Callers)
    /\ MaxRequests \in Nat \ {0}
    /\ Threshold \in Nat \ {0}
    /\ Timeout \in Nat \ {0}

VARIABLES
    state,                \* b.state
    consecutiveFailures,  \* b.consecutiveFailures
    halfOpenRequests,     \* b.halfOpenRequests
    sinceOpened,          \* time.Since(b.openedAt), saturating at Timeout
    call,                 \* what each caller is doing, see Phase
    healthy,              \* does the protected endpoint answer without error?
    leaked                \* ghost: did a probe of this half-open period panic?

vars == <<state, consecutiveFailures, halfOpenRequests, sinceOpened, call, healthy, leaked>>

State == {"closed", "open", "half-open"}

\* A caller is idle or inside req.  For the properties, a caller inside req
\* also remembers its admission: "normal" while closed, "probe" in half-open,
\* and "late" once the breaker has left the period it was admitted in.
Phase == {"idle", "normal", "probe", "late"}

TypeOK ==
    /\ state \in State
    /\ consecutiveFailures \in 0..Threshold
    /\ halfOpenRequests \in 0..MaxRequests
    /\ sinceOpened \in 0..Timeout
    /\ call \in [Callers -> Phase]
    /\ healthy \in BOOLEAN /\ leaked \in BOOLEAN

Init ==
    /\ state = "closed"
    /\ consecutiveFailures = 0
    /\ halfOpenRequests = 0
    /\ sinceOpened = 0
    /\ call = [c \in Callers |-> "idle"]
    /\ healthy \in BOOLEAN /\ leaked = FALSE

-----------------------------------------------------------------------------
(* beforeRequest, by the state it finds.                                   *)

\* Closed: the request passes.
AdmitClosed(c) ==
    /\ state = "closed"
    /\ call' = [call EXCEPT ![c] = "normal"]
    /\ UNCHANGED <<state, consecutiveFailures, halfOpenRequests, sinceOpened>>

\* Open and cooled down: the request that finds it so turns the breaker
\* half-open and passes, without being counted in halfOpenRequests.
AdmitFirstProbe(c) ==
    /\ state = "open"
    /\ sinceOpened >= Timeout
    /\ state' = "half-open"
    /\ halfOpenRequests' = 0
    /\ call' = [call EXCEPT ![c] = "probe"]
    /\ UNCHANGED <<consecutiveFailures, sinceOpened>>

\* Faulty variant: the probe counter is never advanced.
AdmitUncountedProbe(c) ==
    /\ state = "half-open"
    /\ halfOpenRequests < MaxRequests
    /\ call' = [call EXCEPT ![c] = "probe"]
    /\ UNCHANGED <<state, consecutiveFailures, halfOpenRequests, sinceOpened>>

\* Half-open: at most maxRequests further requests pass.
AdmitProbe(c) ==
    /\ state = "half-open"
    /\ halfOpenRequests < MaxRequests
    /\ halfOpenRequests' = halfOpenRequests + 1
    /\ call' = [call EXCEPT ![c] = "probe"]
    /\ UNCHANGED <<state, consecutiveFailures, sinceOpened>>

\* A rejected request (ErrCircuitOpen) changes nothing, so it is no step.
beforeRequest(c) ==
    /\ call[c] = "idle"
    /\ AdmitClosed(c) \/ AdmitFirstProbe(c) \/ AdmitProbe(c)
    /\ UNCHANGED <<healthy, leaked>>

-----------------------------------------------------------------------------
(* afterRequest, by the state it finds and by the classified result.       *)

\* Caller c has returned and the breaker changes state: everyone else still
\* inside req was admitted in a period that is now over.
Leave(c) == [d \in Callers |-> IF d = c \/ call[d] = "idle" THEN "idle" ELSE "late"]

\* Caller c has returned and the breaker stays where it was.
Return(c) == [call EXCEPT ![c] = "idle"]

\* Faulty variant: a failure that reaches the threshold does not open.
FailClosedNoTrip(c) ==
    /\ state = "closed"
    /\ consecutiveFailures' = IF consecutiveFailures < Threshold
                              THEN consecutiveFailures + 1 ELSE Threshold
    /\ call' = Return(c)
    /\ UNCHANGED <<state, halfOpenRequests, sinceOpened>>

FailClosed(c) ==
    /\ state = "closed"
    /\ consecutiveFailures' = consecutiveFailures + 1
    /\ IF consecutiveFailures' >= Threshold
         THEN state' = "open" /\ sinceOpened' = 0 /\ call' = Leave(c)
         ELSE call' = Return(c) /\ UNCHANGED <<state, sinceOpened>>
    /\ UNCHANGED halfOpenRequests

SucceedClosed(c) ==
    /\ state = "closed"
    /\ consecutiveFailures' = 0
    /\ call' = Return(c)
    /\ UNCHANGED <<state, halfOpenRequests, sinceOpened>>

FailHalfOpen(c) ==
    /\ state = "half-open"
    /\ state' = "open"
    /\ sinceOpened' = 0
    /\ consecutiveFailures' = Threshold
    /\ call' = Leave(c)
    /\ UNCHANGED halfOpenRequests

\* Faulty variant: a successful probe frees its slot and leaves the breaker
\* half-open.
SucceedHalfOpenStay(c) ==
    /\ state = "half-open"
    /\ halfOpenRequests' = IF halfOpenRequests > 0 THEN halfOpenRequests - 1 ELSE 0
    /\ call' = Return(c)
    /\ UNCHANGED <<state, consecutiveFailures, sinceOpened>>

\* Faulty variant: the result of a probe is classified the wrong way round.
SucceedHalfOpenReopens(c) == FailHalfOpen(c)

SucceedHalfOpen(c) ==
    /\ state = "half-open"
    /\ state' = "closed"
    /\ consecutiveFailures' = 0
    /\ halfOpenRequests' = 0
    /\ call' = Leave(c)
    /\ UNCHANGED sinceOpened

\* Faulty variant: a result that arrives while open re-opens the breaker.
ResultWhileOpenRestarts(c) ==
    /\ state = "open"
    /\ sinceOpened' = 0
    /\ call' = Return(c)
    /\ UNCHANGED <<state, consecutiveFailures, halfOpenRequests>>

\* The switch has no StateOpen case: a result that arrives then is dropped.
ResultWhileOpen(c) ==
    /\ state = "open"
    /\ call' = Return(c)
    /\ UNCHANGED <<state, consecutiveFailures, halfOpenRequests, sinceOpened>>

\* req returned: a healthy endpoint answers without error, an unhealthy one
\* may do either.  Every result that finds the breaker half-open ends the period.
afterRequest(c) ==
    /\ call[c] # "idle"
    /\ \/ healthy = FALSE /\ (FailClosed(c) \/ FailHalfOpen(c))
       \/ SucceedClosed(c) \/ SucceedHalfOpen(c)
       \/ ResultWhileOpen(c)
    /\ leaked' = FALSE
    /\ UNCHANGED healthy

\* req panicked: Execute has no deferred call, so afterRequest is skipped.
Panic(c) ==
    /\ call[c] # "idle"
    /\ call' = Return(c)
    /\ leaked' = (leaked \/ call[c] = "probe")
    /\ UNCHANGED <<state, consecutiveFailures, halfOpenRequests, sinceOpened, healthy>>

-----------------------------------------------------------------------------
Tick ==
    /\ sinceOpened < Timeout
    /\ state = "open"
    /\ sinceOpened' = sinceOpened + 1
    /\ UNCHANGED <<state, consecutiveFailures, halfOpenRequests, call, healthy, leaked>>

HealthChange ==
    /\ healthy' = ~healthy
    /\ UNCHANGED <<state, consecutiveFailures, halfOpenRequests, sinceOpened, call, leaked>>

Next ==
    \/ \E c \in Callers : beforeRequest(c) \/ afterRequest(c) \/ Panic(c)
    \/ Tick
    \/ HealthChange

Spec == Init /\ [][Next]_vars

\* Clients keep calling, a running request returns, time passes.
FairSpec ==
    /\ Spec
    /\ \A c \in Callers : WF_vars(beforeRequest(c)) /\ WF_vars(afterRequest(c))
    /\ WF_vars(Tick)

-----------------------------------------------------------------------------
(* Properties.                                                             *)

Probes == {c \in Callers : call[c] = "probe"}

\* The breaker is closed exactly while fewer than Threshold failures in a row
\* are on record: no path (late results, half-open failures, recovery) leaves
\* a closed breaker that has already met its threshold, or an open one that
\* one more failure would not justify.
FailuresMatchState == (state = "closed") <=> (consecutiveFailures < Threshold)

\* However requests, results and panics interleave, the probes inside req in a
\* half-open period are the counted ones and the request that ended the
\* cooldown: halfOpenRequests never loses touch with who is inside.  (That the
\* uncounted one comes on top of the documented number is ProbesWithinMaxRequests.)
ProbesAccounted ==
    state = "half-open" => Cardinality(Probes) <= halfOpenRequests + 1

\* The documented limit: MaxRequests is the number of requests allowed in the
\* half-open state.  The request that ends the cooldown is let in besides.
ProbesWithinMaxRequests ==
    state = "half-open" => Cardinality(Probes) <= MaxRequests

\* A half-open breaker always has a probe inside req whose result will decide
\* the period, so it never rejects everybody with nobody left to decide.  The
\* one way out of this is a probe that panicked: its slot is lost.
HalfOpenHasProbe == state = "half-open" => Probes # {} \/ leaked

\* Results that arrive while the breaker is open neither restart the cooldown
\* nor close the breaker: an open period ends by the cooldown alone.
OpenEndsByCooldown ==
    [][state = "open" =>
         /\ state' # "open" => sinceOpened = Timeout /\ state' = "half-open"
         /\ state' = "open" => sinceOpened' >= sinceOpened]_vars

\* Once the endpoint stays healthy the breaker ends up closed for good,
\* whatever was in flight and whatever state the outage left it in, unless a
\* panicking probe has left it half-open for good.
Recovers == <>[](healthy /\ ~leaked) => <>[](state = "closed")
=============================================================================
