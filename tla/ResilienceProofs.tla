-------------------------- MODULE ResilienceProofs --------------------------
(***************************************************************************)
(* What the resilience layer promises for every number of callers and      *)
(* every configuration: the circuit breaker, the slots of the client's     *)
(* bulkhead, the budget of the retries, the breakers behind the policies,  *)
(* and the rolling window.  The parts of MCResilience share no variable,   *)
(* so each is proved from its own steps.                                   *)
(***************************************************************************)
EXTENDS MCResilience, DataLemmas

-----------------------------------------------------------------------------
(* CircuitBreaker: any number of callers, any threshold, probe limit and   *)
(* timeout, with and without panics in the request.                        *)

\* A request is a probe only while the breaker is half-open, so the first
\* probe of a period finds none of an earlier period inside req.
NoStrayProbe == state # "half-open" => Probes = {}

\* TypeOK needs FailuresMatchState (the counter stops at Threshold), and the
\* probe count needs NoStrayProbe.
IInv == TypeOK /\ FailuresMatchState /\ NoStrayProbe /\ ProbesAccounted

-----------------------------------------------------------------------------
\* One more counted probe: the probe set grows by at most the caller that
\* beforeRequest has just admitted.
LEMMA OneMoreProbe ==
    ASSUME TypeOK, NEW c \in Callers, call' = [call EXCEPT ![c] = "probe"]
    PROVE  /\ Cardinality(Probes') <= Cardinality(Probes) + 1
           /\ Cardinality(Probes) \in Nat /\ Cardinality(Probes') \in Nat
  <1>1. IsFiniteSet(Callers)
    BY BreakerAssumption
  <1>2. IsFiniteSet(Probes) /\ Cardinality(Probes) \in Nat
    BY <1>1, FS_Subset, FS_CardinalityType DEF Probes
  <1>3. Probes' = Probes \cup {c}
    BY DEF Probes, TypeOK
  <1>4. Cardinality(Probes') = Cardinality(Probes) \/ Cardinality(Probes') = Cardinality(Probes) + 1
    BY <1>2, <1>3, FS_AddElement
  <1> QED
    BY <1>2, <1>4

\* A caller that leaves req (a result or a panic) never adds a probe.
LEMMA NoMoreProbes ==
    ASSUME Probes' \subseteq Probes
    PROVE  Cardinality(Probes') <= Cardinality(Probes) /\ Cardinality(Probes) \in Nat
                /\ Cardinality(Probes') \in Nat
  <1>1. IsFiniteSet(Probes)
    BY BreakerAssumption, FS_Subset DEF Probes
  <1> QED
    BY <1>1, FS_Subset, FS_CardinalityType

-----------------------------------------------------------------------------
LEMMA InitIInv == Init => IInv
  <1> SUFFICES ASSUME Init PROVE IInv
    OBVIOUS
  <1>0. healthy \in BOOLEAN /\ leaked \in BOOLEAN
    BY Zenon DEF Init
  <1>1. TypeOK /\ FailuresMatchState
    BY <1>0, BreakerAssumption DEF Init, TypeOK, FailuresMatchState, State, Phase
  <1>2. Probes = {}
    BY DEF Init, Probes
  <1> QED
    BY <1>1, <1>2 DEF IInv, NoStrayProbe, ProbesAccounted, Init

\* beforeRequest preserves the invariant.
LEMMA BeforeRequestIInv ==
    ASSUME IInv, NEW c \in Callers, beforeRequest(c)
    PROVE  IInv'
  <1> USE BreakerAssumption
  <1>1. CASE AdmitClosed(c)
    <2>1. (TypeOK /\ FailuresMatchState)'
      BY <1>1 DEF IInv, beforeRequest, AdmitClosed, TypeOK, State, Phase, FailuresMatchState
    <2>2. Probes' = {} /\ state' = "closed"
      BY <1>1 DEF IInv, AdmitClosed, TypeOK, NoStrayProbe, Probes
    <2> QED
      BY <2>1, <2>2 DEF IInv, NoStrayProbe, ProbesAccounted
  <1>2. CASE AdmitFirstProbe(c)
    <2>1. (TypeOK /\ FailuresMatchState)'
      BY <1>2 DEF IInv, beforeRequest, AdmitFirstProbe, TypeOK, State, Phase, FailuresMatchState
    <2>2. Probes' = {c}
      BY <1>2 DEF IInv, AdmitFirstProbe, TypeOK, NoStrayProbe, Probes
    <2>3. Cardinality(Probes') = 1
      BY <2>2, FS_Singleton
    <2> QED
      BY <1>2, <2>1, <2>3 DEF IInv, NoStrayProbe, ProbesAccounted, AdmitFirstProbe
  <1>3. CASE AdmitProbe(c)
    <2>1. (TypeOK /\ FailuresMatchState)'
      BY <1>3 DEF IInv, beforeRequest, AdmitProbe, TypeOK, State, Phase, FailuresMatchState
    <2>2. Cardinality(Probes') <= Cardinality(Probes) + 1
          /\ Cardinality(Probes) \in Nat /\ Cardinality(Probes') \in Nat
      BY <1>3, OneMoreProbe DEF IInv, AdmitProbe
    <2> QED
      BY <1>3, <2>1, <2>2 DEF IInv, TypeOK, NoStrayProbe, ProbesAccounted, AdmitProbe
  <1> QED
    BY <1>1, <1>2, <1>3 DEF beforeRequest

\* afterRequest preserves the invariant: it leaves the half-open state.
LEMMA AfterRequestIInv ==
    ASSUME IInv, NEW c \in Callers, afterRequest(c)
    PROVE  IInv'
  <1> USE BreakerAssumption
  <1>1. state' # "half-open"
    BY DEF IInv, TypeOK, State, afterRequest, FailClosed, SucceedClosed, FailHalfOpen,
           SucceedHalfOpen, ResultWhileOpen
  <1>2. (TypeOK /\ FailuresMatchState)'
    <2>0. healthy' \in BOOLEAN /\ leaked' \in BOOLEAN
      BY Zenon DEF IInv, TypeOK, afterRequest
    <2>1. CASE FailClosed(c)
      BY <2>0, <2>1 DEF IInv, afterRequest, FailClosed, Leave, Return, TypeOK, State, Phase, FailuresMatchState
    <2>2. CASE SucceedClosed(c)
      BY <2>0, <2>2 DEF IInv, afterRequest, SucceedClosed, Return, TypeOK, State, Phase, FailuresMatchState
    <2>3. CASE FailHalfOpen(c)
      BY <2>0, <2>3 DEF IInv, afterRequest, FailHalfOpen, Leave, TypeOK, State, Phase, FailuresMatchState
    <2>4. CASE SucceedHalfOpen(c)
      BY <2>0, <2>4 DEF IInv, afterRequest, SucceedHalfOpen, Leave, TypeOK, State, Phase, FailuresMatchState
    <2>5. CASE ResultWhileOpen(c)
      BY <2>0, <2>5 DEF IInv, afterRequest, ResultWhileOpen, Return, TypeOK, State, Phase, FailuresMatchState
    <2> QED
      BY <2>1, <2>2, <2>3, <2>4, <2>5 DEF afterRequest
  <1>3. Probes' = {}
    <2>1. CASE state = "half-open"
      BY <2>1 DEF afterRequest, FailClosed, SucceedClosed, FailHalfOpen, SucceedHalfOpen,
                  ResultWhileOpen, Leave, Probes
    <2>2. CASE state # "half-open"
      <3>1. \A d \in Callers : call[d] # "probe"
        BY <2>2 DEF IInv, NoStrayProbe, Probes
      <3>2. call' = Leave(c) \/ call' = Return(c)
        BY DEF afterRequest, FailClosed, SucceedClosed, FailHalfOpen, SucceedHalfOpen, ResultWhileOpen
      <3> QED
        BY <3>1, <3>2 DEF IInv, TypeOK, Leave, Return, Probes
    <2> QED
      BY <2>1, <2>2
  <1> QED
    BY <1>1, <1>2, <1>3 DEF IInv, NoStrayProbe, ProbesAccounted

\* Panics, time and the endpoint preserve the invariant.
LEMMA OtherIInv ==
    ASSUME IInv, (\E c \in Callers : Panic(c)) \/ Tick \/ HealthChange \/ UNCHANGED vars
    PROVE  IInv'
  <1> USE BreakerAssumption
  <1>1. ASSUME NEW c \in Callers, Panic(c) PROVE IInv'
    <2>1. (TypeOK /\ FailuresMatchState)'
      BY <1>1 DEF IInv, Panic, Return, TypeOK, State, Phase, FailuresMatchState
    <2>2. Probes' \subseteq Probes
      BY <1>1 DEF IInv, TypeOK, Panic, Return, Probes
    <2>3. Cardinality(Probes') <= Cardinality(Probes) /\ Cardinality(Probes) \in Nat
          /\ Cardinality(Probes') \in Nat
      BY <2>2, NoMoreProbes
    <2> QED
      BY <1>1, <2>1, <2>2, <2>3 DEF IInv, Panic, TypeOK, NoStrayProbe, ProbesAccounted
  <1>2. ASSUME Tick \/ HealthChange \/ UNCHANGED vars PROVE IInv'
    <2>1. Probes' = Probes
      BY <1>2 DEF Tick, HealthChange, vars, Probes
    <2>2. healthy' \in BOOLEAN /\ leaked' \in BOOLEAN
      BY <1>2, Zenon DEF IInv, Tick, HealthChange, vars, TypeOK
    <2>3. (TypeOK /\ FailuresMatchState)'
      BY <1>2, <2>2 DEF IInv, Tick, HealthChange, vars, TypeOK, FailuresMatchState
    <2> QED
      BY <1>2, <2>1, <2>3 DEF IInv, Tick, HealthChange, vars, NoStrayProbe, ProbesAccounted
  <1> QED
    BY <1>1, <1>2

\* The inductive invariant: every step of the breaker, its callers and its
\* clock keeps the counters, the state and the probes inside req consistent.
THEOREM Inductive == Spec => []IInv
  <1>1. IInv /\ [Next]_vars => IInv'
    BY BeforeRequestIInv, AfterRequestIInv, OtherIInv DEF Next
  <1> QED
    BY InitIInv, <1>1, PTL DEF Spec

\* Type correctness: the failure counter never passes the threshold and the
\* probe counter of beforeRequest never passes maxRequests.
THEOREM TypeCorrect == Spec => []TypeOK
  BY Inductive, PTL DEF IInv

\* b.state and b.consecutiveFailures agree: the breaker is closed exactly
\* while fewer than the threshold's failures in a row are on record.
THEOREM FailuresMatch == Spec => []FailuresMatchState
  BY Inductive, PTL DEF IInv

\* The probes inside req of a half-open period are the counted ones and the
\* one that ended the cooldown, even when requests panic.
THEOREM ProbesBounded == Spec => []ProbesAccounted
  BY Inductive, PTL DEF IInv

\* A half-open breaker always has a probe inside req, so its period always
\* ends, unless a probe of this period panicked out of Execute.
THEOREM ProbeDecides == Spec => []HalfOpenHasProbe
  <1>1. Init => HalfOpenHasProbe
    BY DEF Init, HalfOpenHasProbe
  <1>2. IInv /\ HalfOpenHasProbe /\ [Next]_vars => HalfOpenHasProbe'
    <2> SUFFICES ASSUME IInv, HalfOpenHasProbe, [Next]_vars PROVE HalfOpenHasProbe'
      OBVIOUS
    <2>1. ASSUME NEW c \in Callers, beforeRequest(c) PROVE HalfOpenHasProbe'
      BY <2>1 DEF IInv, TypeOK, beforeRequest, AdmitClosed, AdmitFirstProbe, AdmitProbe,
                  HalfOpenHasProbe, Probes
    <2>2. ASSUME NEW c \in Callers, afterRequest(c) PROVE HalfOpenHasProbe'
      BY <2>2 DEF afterRequest, FailClosed, SucceedClosed, FailHalfOpen, SucceedHalfOpen,
                  ResultWhileOpen, HalfOpenHasProbe
    <2>3. ASSUME NEW c \in Callers, Panic(c) PROVE HalfOpenHasProbe'
      BY <2>3 DEF Panic, Return, IInv, TypeOK, HalfOpenHasProbe, Probes
    <2>4. CASE Tick \/ HealthChange \/ UNCHANGED vars
      BY <2>4 DEF Tick, HealthChange, vars, HalfOpenHasProbe, Probes
    <2> QED
      BY <2>1, <2>2, <2>3, <2>4 DEF Next
  <1> QED
    BY Inductive, <1>1, <1>2, PTL DEF Spec

\* Late results never end or prolong an open period: it ends by the cooldown.
THEOREM CooldownDecides == Spec => OpenEndsByCooldown
  <1>1. IInv /\ [Next]_vars =>
          [state = "open" =>
             /\ state' # "open" => sinceOpened = Timeout /\ state' = "half-open"
             /\ state' = "open" => sinceOpened' >= sinceOpened]_vars
    <2> SUFFICES ASSUME IInv, Next, state = "open"
                 PROVE  /\ state' # "open" => sinceOpened = Timeout /\ state' = "half-open"
                        /\ state' = "open" => sinceOpened' >= sinceOpened
      OBVIOUS
    <2>1. sinceOpened \in 0..Timeout /\ Timeout \in Nat
      BY BreakerAssumption DEF IInv, TypeOK
    <2>2. ASSUME NEW c \in Callers, beforeRequest(c) \/ afterRequest(c) \/ Panic(c)
          PROVE  /\ state' # "open" => sinceOpened = Timeout /\ state' = "half-open"
                 /\ state' = "open" => sinceOpened' >= sinceOpened
      BY <2>1, <2>2 DEF beforeRequest, AdmitClosed, AdmitFirstProbe, AdmitProbe, afterRequest,
           FailClosed, SucceedClosed, FailHalfOpen, SucceedHalfOpen, ResultWhileOpen, Panic
    <2>3. CASE Tick \/ HealthChange
      BY <2>1, <2>3 DEF Tick, HealthChange
    <2> QED
      BY <2>2, <2>3 DEF Next
  <1> QED
    BY Inductive, <1>1, PTL DEF Spec, OpenEndsByCooldown

-----------------------------------------------------------------------------
(* The steps of a part.                                                    *)

LEMMA SafetyOfAll == AllSpec => AllInit /\ [][AllNext]_allVars
  BY PTL DEF AllSpec

LEMMA ChainMoves == [AllNext]_allVars => [Chain!Next]_chainVars
  BY DEF AllNext, allVars, vars, policyVars, chainVars, windowVars, budgetVars, hedgeVars, shedVars

LEMMA BudgetMoves == [AllNext]_allVars => [Budget!Next]_budgetVars
  BY DEF AllNext, allVars, vars, policyVars, chainVars, windowVars, budgetVars, hedgeVars, shedVars

LEMMA WindowMoves == [AllNext]_allVars => [Window!Next]_windowVars
  BY DEF AllNext, allVars, vars, policyVars, chainVars, windowVars, budgetVars, hedgeVars, shedVars

LEMMA PolicyMoves == [AllNext]_allVars => [Policy!Next]_policyVars
  BY DEF AllNext, allVars, vars, policyVars, chainVars, windowVars, budgetVars, hedgeVars, shedVars

\* The instances count with the same Cardinality.
LEMMA SameCardinality ==
  \A S : Chain!Cardinality(S) = Cardinality(S) /\ Budget!Cardinality(S) = Cardinality(S)
  BY DEF Chain!Cardinality, Budget!Cardinality, Cardinality

-----------------------------------------------------------------------------
(* The bulkhead of the client's chain.                                     *)

\* SlotsMatchCalls with the types it needs.
ChainInv ==
    /\ shared \in BOOLEAN
    /\ borrowed \in Nat
    /\ DOMAIN stage = Pair
    /\ SlotsMatchCalls

\* A step enters a call, ends one, or leaves slots and callers alone.
LEMMA ChainStepKinds ==
  ASSUME Chain!Next, ChainInv
  PROVE  /\ shared' = shared
         /\ DOMAIN stage' = Pair
         /\ \/ borrowed' = borrowed /\ Chain!Inside' = Chain!Inside
            \/ \E c \in Pair \ Chain!Inside :
                 /\ shared => borrowed < MaxConcurrent
                 /\ borrowed' = IF shared THEN borrowed + 1 ELSE borrowed
                 /\ Chain!Inside' = Chain!Inside \cup {c}
            \/ \E c \in Chain!Inside :
                 /\ borrowed' = IF shared THEN borrowed - 1 ELSE borrowed
                 /\ Chain!Inside' = Chain!Inside \ {c}
<1>1. CASE Chain!Tick
  BY <1>1 DEF Chain!Tick, Chain!Inside, ChainInv
<1>2. ASSUME NEW c \in Pair, Chain!TryBorrow(c)
      PROVE  /\ shared' = shared
             /\ DOMAIN stage' = Pair
             /\ c \in Pair \ Chain!Inside
             /\ shared => borrowed < MaxConcurrent
             /\ borrowed' = IF shared THEN borrowed + 1 ELSE borrowed
             /\ Chain!Inside' = Chain!Inside \cup {c}
  BY <1>2 DEF Chain!TryBorrow, Chain!Goto, Chain!Inside, ChainInv
<1>3. ASSUME NEW c \in Pair, NEW o, stage[c] # "idle", Chain!Leave(c, o)
      PROVE  /\ shared' = shared
             /\ DOMAIN stage' = Pair
             /\ c \in Chain!Inside
             /\ borrowed' = IF shared THEN borrowed - 1 ELSE borrowed
             /\ Chain!Inside' = Chain!Inside \ {c}
  BY <1>3 DEF Chain!Leave, Chain!Goto, Chain!Inside, ChainInv
<1>4. ASSUME NEW c \in Pair, NEW l, l # "idle", stage[c] # "idle", Chain!Goto(c, l),
             UNCHANGED <<shared, borrowed>>
      PROVE  /\ shared' = shared
             /\ DOMAIN stage' = Pair
             /\ borrowed' = borrowed /\ Chain!Inside' = Chain!Inside
  BY <1>4 DEF Chain!Goto, Chain!Inside, ChainInv
<1>5. ASSUME NEW c \in Pair, Chain!CallStep(c)
      PROVE  \/ stage[c] # "idle" /\ \E o : Chain!Leave(c, o)
             \/ /\ stage[c] # "idle" /\ UNCHANGED <<shared, borrowed>>
                /\ \E l : l # "idle" /\ Chain!Goto(c, l)
  BY <1>5 DEF Chain!CallStep, Chain!Accept, Chain!ForcePass, Chain!DrawPass, Chain!DrawDrop,
         Chain!StoreLastPass, Chain!Answer, Chain!BackoffEnds, Chain!Canceled
<1>6. QED
  BY <1>1, <1>2, <1>3, <1>4, <1>5 DEF Chain!Next

LEMMA ChainInvStep == ChainInv /\ [Chain!Next]_chainVars => ChainInv'
<1> SUFFICES ASSUME ChainInv, [Chain!Next]_chainVars
             PROVE  ChainInv'
  OBVIOUS
<1> DEFINE In == Chain!Inside
<1>0. IsFiniteSet(In) /\ Cardinality(In) \in Nat
  BY PairFinite, FS_Subset, FS_CardinalityType DEF Chain!Inside
<1>1. CASE UNCHANGED chainVars
  BY <1>1 DEF chainVars, ChainInv, SlotsMatchCalls, Chain!SlotsMatchCalls, Chain!Inside
<1>2. CASE Chain!Next
  <2>0. shared' = shared /\ DOMAIN stage' = Pair
    BY <1>2, ChainStepKinds
  <2>1. CASE borrowed' = borrowed /\ In' = In
    BY <2>0, <2>1 DEF ChainInv, SlotsMatchCalls, Chain!SlotsMatchCalls
  <2>2. ASSUME NEW c \in Pair \ In,
               shared => borrowed < MaxConcurrent,
               borrowed' = IF shared THEN borrowed + 1 ELSE borrowed,
               In' = In \cup {c}
        PROVE  ChainInv'
    <3>1. Cardinality(In') = Cardinality(In) + 1
      BY <1>0, <2>2, FS_AddElement
    <3>2. QED
      BY <1>0, <2>0, <2>2, <3>1, ChainConstants, SameCardinality
         DEF ChainInv, SlotsMatchCalls, Chain!SlotsMatchCalls
  <2>3. ASSUME NEW c \in In,
               borrowed' = IF shared THEN borrowed - 1 ELSE borrowed,
               In' = In \ {c}
        PROVE  ChainInv'
    <3>1. Cardinality(In') = Cardinality(In) - 1 /\ Cardinality(In) # 0
      BY <1>0, <2>3, FS_RemoveElement, FS_EmptySet
    <3>2. QED
      BY <1>0, <2>0, <2>3, <3>1, ChainConstants, SameCardinality
         DEF ChainInv, SlotsMatchCalls, Chain!SlotsMatchCalls
  <2>4. QED
    BY <1>2, <2>1, <2>2, <2>3, ChainStepKinds
<1>3. QED
  BY <1>1, <1>2

\* However the calls of a client end - rejected, answered, retried, canceled or
\* by a panic - the slots of its shared bulkhead are those of the calls inside
\* and never exceed maxConcurrent (pkg/client/resilience.go).
THEOREM SlotsAlwaysMatchCalls == AllSpec => []SlotsMatchCalls
<1>1. AllInit => ChainInv
  <2> SUFFICES ASSUME AllInit PROVE ChainInv
    OBVIOUS
  <2>1. Chain!Inside = {}
    BY DEF AllInit, Chain!Init, Chain!Inside
  <2>2. QED
    BY <2>1, FS_EmptySet, ChainConstants, SameCardinality
       DEF AllInit, Chain!Init, ChainInv, SlotsMatchCalls, Chain!SlotsMatchCalls
<1>2. ChainInv => SlotsMatchCalls
  BY DEF ChainInv
<1>3. QED
  BY <1>1, <1>2, SafetyOfAll, ChainMoves, ChainInvStep, PTL
-----------------------------------------------------------------------------
(* The budget of the retries.                                              *)

LEMMA Products == \A a, b, d \in Nat : a * d \in Nat /\ (a <= b => a * d <= b * d)
  OBVIOUS

\* The callers whose readings of the two windows will let them retry.
Willing == {c \in Pair : pc[c] = "decide" /\ sawRetried[c] * RatioDen < sawTotal[c] * RatioNum}

\* Every caller that will retry is paid for as if it had done so already; a
\* reading of the total may be stale but is never too large.
BudgetInv ==
    /\ retried \in Nat /\ total \in Nat
    /\ DOMAIN pc = Pair /\ try \in [Pair -> Nat]
    /\ sawTotal \in [Pair -> Nat] /\ sawRetried \in [Pair -> Nat]
    /\ \A c \in Pair : sawTotal[c] <= total
    /\ (retried + Cardinality(Willing)) * RatioDen
          <= total * RatioNum + Cardinality(Pair) * RatioDen
    /\ Cardinality(Budget!Due) <= retried

\* The sets the invariant counts are finite.
LEMMA BudgetCounts ==
  /\ IsFiniteSet(Willing) /\ Cardinality(Willing) \in Nat
  /\ Cardinality(Willing) <= Cardinality(Pair)
  /\ IsFiniteSet(Budget!Due) /\ Cardinality(Budget!Due) \in Nat
  /\ Cardinality(Pair) \in Nat
  BY PairFinite, FS_Subset, FS_CardinalityType DEF Willing, Budget!Due

LEMMA BudgetTypesStep ==
  ASSUME BudgetInv, NEW c \in Pair,
         \/ Budget!Attempt(c) \/ Budget!Returns(c) \/ Budget!ReduceTotal(c)
         \/ Budget!ReduceRetry(c) \/ Budget!Decide(c) \/ Budget!Canceled(c)
  PROVE  /\ retried' \in Nat /\ total' \in Nat
         /\ DOMAIN pc' = Pair /\ try' \in [Pair -> Nat]
         /\ sawTotal' \in [Pair -> Nat] /\ sawRetried' \in [Pair -> Nat]
         /\ \A d \in Pair : sawTotal'[d] <= total'
<1> USE DEF BudgetInv, Budget!Goto
<1>1. CASE Budget!Attempt(c)
  BY <1>1 DEF Budget!Attempt
<1>2. CASE Budget!Returns(c)
  BY <1>2 DEF Budget!Returns
<1>3. CASE Budget!ReduceTotal(c)
  BY <1>3 DEF Budget!ReduceTotal
<1>4. CASE Budget!ReduceRetry(c)
  BY <1>4 DEF Budget!ReduceRetry
<1>5. CASE Budget!Decide(c)
  BY <1>5 DEF Budget!Decide
<1>6. CASE Budget!Canceled(c)
  BY <1>6 DEF Budget!Canceled
<1>7. QED
  BY <1>1, <1>2, <1>3, <1>4, <1>5, <1>6

\* The ratio survives a step that lets nobody become willing.
LEMMA RatioKept ==
  ASSUME BudgetInv, Willing' \subseteq Willing, retried' = retried,
         total' \in Nat, total <= total'
  PROVE  (retried' + Cardinality(Willing')) * RatioDen
           <= total' * RatioNum + Cardinality(Pair) * RatioDen
<1>1. Cardinality(Willing') \in Nat /\ Cardinality(Willing') <= Cardinality(Willing)
  BY BudgetCounts, FS_Subset, FS_CardinalityType
<1>3. total * RatioNum <= total' * RatioNum
  BY Products, BudgetConstants DEF BudgetInv
<1>4. (retried + Cardinality(Willing')) * RatioDen <= (retried + Cardinality(Willing)) * RatioDen
  BY <1>1, Products, BudgetConstants, BudgetCounts DEF BudgetInv
<1> DEFINE a == total * RatioNum
           b == total' * RatioNum
           k == Cardinality(Pair) * RatioDen
           w == (retried + Cardinality(Willing)) * RatioDen
           v == (retried + Cardinality(Willing')) * RatioDen
<1>5. a \in Nat /\ b \in Nat /\ k \in Nat /\ w \in Nat /\ v \in Nat
  <2>2. retried + Cardinality(Willing) \in Nat /\ retried + Cardinality(Willing') \in Nat
    BY <1>1, BudgetCounts DEF BudgetInv
  <2>3. total \in Nat /\ RatioNum \in Nat /\ RatioDen \in Nat /\ Cardinality(Pair) \in Nat
    BY BudgetConstants, BudgetCounts DEF BudgetInv
  <2>4. QED
    BY <2>2, <2>3, Products
<1>6. a <= b /\ v <= w /\ w <= a + k
  BY <1>3, <1>4 DEF BudgetInv
<1>7. v <= b + k
  <2> HIDE DEF a, b, k, w, v
  <2> QED
    BY <1>5, <1>6
<1>8. QED
  BY <1>7

LEMMA RatioStep ==
  ASSUME BudgetInv, NEW c \in Pair,
         \/ Budget!Attempt(c) \/ Budget!Returns(c) \/ Budget!ReduceTotal(c)
         \/ Budget!ReduceRetry(c) \/ Budget!Decide(c) \/ Budget!Canceled(c)
  PROVE  (retried' + Cardinality(Willing')) * RatioDen
           <= total' * RatioNum + Cardinality(Pair) * RatioDen
<1> USE DEF Budget!Goto
<1>0. total' \in Nat /\ retried' \in Nat
  BY BudgetTypesStep
<1>1. CASE Budget!Attempt(c)
  <2>1. Willing' \subseteq Willing
    BY <1>1 DEF Budget!Attempt, Willing, BudgetInv
  <2>2. QED
    BY <1>0, <1>1, <2>1, RatioKept DEF Budget!Attempt, BudgetInv
<1>2. CASE Budget!Returns(c)
  <2>1. Willing' \subseteq Willing
    BY <1>2 DEF Budget!Returns, Willing, BudgetInv
  <2>2. QED
    BY <1>0, <1>2, <2>1, RatioKept DEF Budget!Returns, BudgetInv
<1>3. CASE Budget!ReduceTotal(c)
  <2>1. Willing' \subseteq Willing
    BY <1>3 DEF Budget!ReduceTotal, Willing, BudgetInv
  <2>2. QED
    BY <1>0, <1>3, <2>1, RatioKept DEF Budget!ReduceTotal, BudgetInv
<1>4. CASE Budget!ReduceRetry(c)
  <2>0. pc[c] = "reduceRetry" /\ retried' = retried /\ total' = total /\ total \in Nat
    BY <1>4 DEF Budget!ReduceRetry, BudgetInv
  <2>1. CASE retried * RatioDen < sawTotal[c] * RatioNum
    <3>1. Cardinality(Willing') \in Nat /\ Cardinality(Willing') <= Cardinality(Pair)
      <4>1. Willing' \subseteq Pair
        BY DEF Willing
      <4>2. QED
        BY <4>1, PairFinite, FS_Subset, FS_CardinalityType
    <3>2. sawTotal[c] * RatioNum <= total * RatioNum
      BY Products, BudgetConstants DEF BudgetInv
    <3>3. Cardinality(Willing') * RatioDen <= Cardinality(Pair) * RatioDen
      BY Products, <3>1, BudgetCounts, BudgetConstants
    <3>4. (retried + Cardinality(Willing')) * RatioDen
            = retried * RatioDen + Cardinality(Willing') * RatioDen
      BY <3>1, BudgetConstants DEF BudgetInv
    <3> DEFINE r == retried * RatioDen
               s == sawTotal[c] * RatioNum
               t == total * RatioNum
               v == Cardinality(Willing') * RatioDen
               k == Cardinality(Pair) * RatioDen
    <3>5. r \in Nat /\ s \in Nat /\ t \in Nat /\ v \in Nat /\ k \in Nat
      BY <3>1, BudgetCounts, BudgetConstants DEF BudgetInv
    <3>6. r < s /\ s <= t /\ v <= k
      BY <2>1, <3>2, <3>3
    <3>7. r + v <= t + k
      <4> HIDE DEF r, s, t, v, k
      <4> QED
        BY <3>5, <3>6
    <3>8. QED
      BY <2>0, <3>4, <3>7
  <2>2. CASE ~(retried * RatioDen < sawTotal[c] * RatioNum)
    <3>1. Willing' \subseteq Willing
      BY <1>4, <2>2 DEF Budget!ReduceRetry, Willing, BudgetInv
    <3>2. QED
      BY <2>0, <3>1, RatioKept
  <2>3. QED
    BY <2>1, <2>2
<1>5. CASE Budget!Decide(c)
  <2>0. pc[c] = "decide" /\ total' = total /\ total \in Nat /\ retried \in Nat
        /\ sawTotal' = sawTotal /\ sawRetried' = sawRetried
        /\ sawTotal[c] * RatioNum \in Nat /\ sawRetried[c] * RatioDen \in Nat
    BY <1>5, BudgetConstants DEF Budget!Decide, BudgetInv
  <2>1. CASE sawRetried[c] * RatioDen >= sawTotal[c] * RatioNum
    <3>1. Willing' \subseteq Willing
      BY <1>5, <2>0, <2>1 DEF Budget!Decide, Willing, BudgetInv
    <3>2. QED
      BY <1>5, <2>0, <2>1, <3>1, RatioKept DEF Budget!Decide
  <2>2. CASE ~(sawRetried[c] * RatioDen >= sawTotal[c] * RatioNum)
    <3>1. c \in Willing
      BY <2>0, <2>2 DEF Willing
    <3>2. Willing' = Willing \ {c} /\ retried' = retried + 1
      BY <1>5, <2>0, <2>2 DEF Budget!Decide, Willing, BudgetInv
    <3>3. Cardinality(Willing') = Cardinality(Willing) - 1
      BY <3>1, <3>2, BudgetCounts, FS_RemoveElement
    <3>4. retried' + Cardinality(Willing') = retried + Cardinality(Willing)
      BY <2>0, <3>2, <3>3, BudgetCounts
    <3>5. QED
      BY <2>0, <3>4 DEF BudgetInv
  <2>3. QED
    BY <2>1, <2>2
<1>6. CASE Budget!Canceled(c)
  <2>1. Willing' \subseteq Willing
    BY <1>6 DEF Budget!Canceled, Willing, BudgetInv
  <2>2. QED
    BY <1>0, <1>6, <2>1, RatioKept DEF Budget!Canceled, BudgetInv
<1>7. QED
  BY <1>1, <1>2, <1>3, <1>4, <1>5, <1>6

LEMMA DueStep ==
  ASSUME BudgetInv, NEW c \in Pair,
         \/ Budget!Attempt(c) \/ Budget!Returns(c) \/ Budget!ReduceTotal(c)
         \/ Budget!ReduceRetry(c) \/ Budget!Decide(c) \/ Budget!Canceled(c)
  PROVE  Cardinality(Budget!Due') <= retried'
<1> USE DEF Budget!Goto, BudgetInv
<1> DEFINE Due == Budget!Due
<1>1. \/ Due' \subseteq Due /\ retried' = retried
      \/ Due' \subseteq Due \cup {c} /\ retried' = retried + 1
  <2>1. CASE Budget!Attempt(c)
    BY <2>1 DEF Budget!Attempt, Budget!Due
  <2>2. CASE Budget!Returns(c)
    BY <2>2 DEF Budget!Returns, Budget!Due
  <2>3. CASE Budget!ReduceTotal(c)
    BY <2>3 DEF Budget!ReduceTotal, Budget!Due
  <2>4. CASE Budget!ReduceRetry(c)
    BY <2>4 DEF Budget!ReduceRetry, Budget!Due
  <2>5. CASE Budget!Decide(c)
    BY <2>5 DEF Budget!Decide, Budget!Due
  <2>6. CASE Budget!Canceled(c)
    BY <2>6 DEF Budget!Canceled, Budget!Due
  <2>7. QED
    BY <2>1, <2>2, <2>3, <2>4, <2>5, <2>6
<1>2. IsFiniteSet(Due \cup {c}) /\ Cardinality(Due \cup {c}) <= Cardinality(Due) + 1
      /\ Cardinality(Due \cup {c}) \in Nat
  <2>1. IsFiniteSet(Due) /\ Cardinality(Due) \in Nat
    BY BudgetCounts
  <2>2. /\ IsFiniteSet(Due \cup {c})
        /\ \/ Cardinality(Due \cup {c}) = Cardinality(Due)
           \/ Cardinality(Due \cup {c}) = Cardinality(Due) + 1
    <3> HIDE DEF Due, BudgetInv
    <3> QED
      BY <2>1, FS_AddElement
  <2>3. QED
    BY <2>1, <2>2
<1>3. CASE Due' \subseteq Due /\ retried' = retried
  <2>1. Cardinality(Due') <= Cardinality(Due) /\ Cardinality(Due') \in Nat
    BY <1>3, BudgetCounts, FS_Subset, FS_CardinalityType
  <2>2. QED
    BY <1>3, <2>1, BudgetCounts
<1>4. CASE Due' \subseteq Due \cup {c} /\ retried' = retried + 1
  <2>1. Cardinality(Due') <= Cardinality(Due \cup {c}) /\ Cardinality(Due') \in Nat
    BY <1>2, <1>4, FS_Subset, FS_CardinalityType
  <2>2. QED
    BY <1>2, <1>4, <2>1, BudgetCounts
<1>5. QED
  BY <1>1, <1>3, <1>4

LEMMA BudgetInvStep == BudgetInv /\ [Budget!Next]_budgetVars => BudgetInv'
<1> SUFFICES ASSUME BudgetInv, [Budget!Next]_budgetVars
             PROVE  BudgetInv'
  OBVIOUS
<1>1. CASE UNCHANGED budgetVars
  BY <1>1 DEF budgetVars, BudgetInv, Willing, Budget!Due
<1>2. CASE Budget!Next
  BY <1>2, BudgetTypesStep, RatioStep, DueStep DEF Budget!Next, BudgetInv
<1>3. QED
  BY <1>1, <1>2

LEMMA BudgetInvInit == AllInit => BudgetInv
<1> SUFFICES ASSUME AllInit PROVE BudgetInv
  OBVIOUS
<1>1. Willing = {} /\ Budget!Due = {}
  BY DEF AllInit, Budget!Init, Willing, Budget!Due
<1>2. Cardinality(Willing) = 0 /\ Cardinality(Budget!Due) = 0
  BY <1>1, FS_EmptySet
<1>3. Cardinality(Pair) * RatioDen \in Nat
  BY BudgetCounts, BudgetConstants
<1>4. total = 0 /\ retried = 0
  BY DEF AllInit, Budget!Init
<1>5. (retried + Cardinality(Willing)) * RatioDen = 0 /\ total * RatioNum = 0
  BY <1>2, <1>4, BudgetConstants
<1>6. QED
  BY <1>2, <1>3, <1>4, <1>5 DEF AllInit, Budget!Init, BudgetInv

\* Although callers decide on readings that others have made stale, the retries
\* counted stay within the ratio of all attempts but for one per caller, and no
\* retry is under way that allowRetry did not count (pkg/resilience/percentage_limit.go).
THEOREM BudgetAlwaysHolds == AllSpec => []BudgetHolds
<1>1. BudgetInv => BudgetHolds
  <2> SUFFICES ASSUME BudgetInv PROVE BudgetHolds
    OBVIOUS
  <2>1. retried * RatioDen <= (retried + Cardinality(Willing)) * RatioDen
    BY Products, BudgetCounts, BudgetConstants DEF BudgetInv
  <2> DEFINE r == retried * RatioDen
             w == (retried + Cardinality(Willing)) * RatioDen
             t == total * RatioNum + Cardinality(Pair) * RatioDen
  <2>2. r \in Nat /\ w \in Nat /\ t \in Nat
    BY BudgetCounts, BudgetConstants DEF BudgetInv
  <2>3. r <= w /\ w <= t
    BY <2>1 DEF BudgetInv
  <2>4. r <= t
    <3> HIDE DEF r, w, t
    <3> QED
      BY <2>2, <2>3
  <2>5. QED
    BY <2>4, SameCardinality DEF BudgetInv, BudgetHolds, Budget!BudgetHolds
<1>2. QED
  BY <1>1, SafetyOfAll, BudgetMoves, BudgetInvInit, BudgetInvStep, PTL

-----------------------------------------------------------------------------
(* The breakers behind the policies: PolicyRunner implements               *)
(* CircuitBreaker.                                                         *)

Breakers == [state : {"closed", "open", "half-open"}, failures : Nat, half : Nat, since : Nat]
T == Policy!Tracked

\* What the tracked breaker sees of the callers.
Admitted == [c \in Pair |-> IF cached[c] /\ ep[c] = T THEN phase[c] ELSE "idle"]

\* A caller has a place inside a breaker exactly while it runs its operation,
\* so that a policy lookup never moves it from one breaker to another.
PolicyInv ==
    /\ breaker \in [Endpoints -> Breakers] /\ own \in [Pair -> Breakers]
    /\ cached \in [Pair -> BOOLEAN] /\ ep \in [Pair -> Endpoints]
    /\ lost \in [Endpoints -> BOOLEAN]
    /\ DOMAIN at = Pair /\ DOMAIN phase = Pair
    /\ \A c \in Pair : phase[c] # "idle" <=> at[c] = "op"

LEMMA TrackedType == T \in Endpoints
  BY PolicyConstants DEF T, Policy!Tracked

LEMMA BreakerOps ==
  ASSUME NEW b \in Breakers, NEW ok \in BOOLEAN
  PROVE  /\ Policy!Before(b) \in Breakers
         /\ Policy!After(b, ok) \in Breakers
         /\ Policy!Older(b) \in Breakers
<1> USE DEF Breakers
<1>1. Policy!Before(b) \in Breakers
  <2>1. CASE b.state = "open"
    BY <2>1 DEF Policy!Before
  <2>2. CASE b.state = "half-open"
    BY <2>2 DEF Policy!Before
  <2>3. CASE b.state = "closed"
    BY <2>3 DEF Policy!Before
  <2>4. QED
    BY <2>1, <2>2, <2>3
<1>2. Policy!After(b, ok) \in Breakers
  <2>1. CASE b.state = "open"
    BY <2>1 DEF Policy!After
  <2>2. CASE b.state = "closed" /\ ok
    BY <2>2 DEF Policy!After
  <2>3. CASE b.state = "closed" /\ ~ok /\ b.failures + 1 >= BreakerThreshold
    <3>1. Policy!After(b, ok) = [b EXCEPT !.failures = @ + 1, !.state = "open", !.since = 0]
      BY <2>3 DEF Policy!After
    <3>2. b.failures + 1 \in Nat /\ b.half \in Nat
      OBVIOUS
    <3>3. Policy!After(b, ok)
            = [state |-> "open", failures |-> b.failures + 1, half |-> b.half, since |-> 0]
      BY <3>1
    <3>4. QED
      BY <3>2, <3>3
  <2>4. CASE b.state = "closed" /\ ~ok /\ ~(b.failures + 1 >= BreakerThreshold)
    BY <2>4 DEF Policy!After
  <2>5. CASE b.state = "half-open" /\ ok
    BY <2>5 DEF Policy!After
  <2>6. CASE b.state = "half-open" /\ ~ok
    BY <2>6, PolicyConstants DEF Policy!After
  <2>7. QED
    BY <2>1, <2>2, <2>3, <2>4, <2>5, <2>6
<1>3. Policy!Older(b) \in Breakers
  BY DEF Policy!Older
<1>4. QED
  BY <1>1, <1>2, <1>3

\* The breaker a caller uses, and what storing it back does.
LEMMA MineType ==
  ASSUME PolicyInv, NEW c \in Pair
  PROVE  Policy!Mine(c) \in Breakers
  BY DEF PolicyInv, Policy!Mine

LEMMA SetStores ==
  ASSUME PolicyInv, NEW c \in Pair, NEW b \in Breakers, Policy!Set(c, b)
  PROVE  /\ breaker' \in [Endpoints -> Breakers] /\ own' \in [Pair -> Breakers]
         /\ cached[c] /\ ep[c] = T => breaker'[T] = b /\ Policy!Mine(c) = breaker[T]
         /\ ~(cached[c] /\ ep[c] = T) => breaker'[T] = breaker[T]
<1>1. CASE cached[c]
  BY <1>1, TrackedType DEF PolicyInv, Policy!Set, Policy!Mine
<1>2. CASE ~cached[c]
  BY <1>2, TrackedType DEF PolicyInv, Policy!Set, Policy!Mine
<1>3. QED
  BY <1>1, <1>2

\* Runner's decision after an attempt leaves every caller outside its operation.
LEMMA ReturnedMoves ==
  ASSUME PolicyInv, NEW c \in Pair, NEW err, Policy!Returned(c, err)
  PROVE  \E l : l # "op" /\ at' = [at EXCEPT ![c] = l]
  BY DEF Policy!Returned

LEMMA PolicyInvStep == PolicyInv /\ [Policy!Next]_policyVars => PolicyInv'
<1> SUFFICES ASSUME PolicyInv, [Policy!Next]_policyVars
             PROVE  PolicyInv'
  OBVIOUS
<1> USE DEF PolicyInv
<1>1. CASE UNCHANGED policyVars
  BY <1>1 DEF policyVars
<1>2. ASSUME NEW c \in Pair, Policy!EndpointPolicy(c)
      PROVE  PolicyInv'
  <2>1. PICK e \in Endpoints : Policy!endpointBreaker(c, e) /\ ep' = [ep EXCEPT ![c] = e]
    BY <1>2 DEF Policy!EndpointPolicy
  <2>2. own' \in [Pair -> Breakers] /\ breaker' = breaker
    BY <2>1 DEF Policy!endpointBreaker, Policy!newBreaker, Breakers
  <2>3. cached' \in [Pair -> BOOLEAN]
    BY <2>1 DEF Policy!endpointBreaker
  <2>4. QED
    BY <1>2, <2>1, <2>2, <2>3 DEF Policy!EndpointPolicy
<1>3. ASSUME NEW c \in Pair, Policy!Execute(c)
      PROVE  PolicyInv'
  <2>1. CASE Policy!Rejects(Policy!Mine(c))
    <3>1. PICK l : l # "op" /\ at' = [at EXCEPT ![c] = l]
      BY <1>3, <2>1, ReturnedMoves DEF Policy!Execute
    <3>2. QED
      BY <1>3, <2>1, <3>1 DEF Policy!Execute
  <2>2. CASE ~Policy!Rejects(Policy!Mine(c))
    <3>1. breaker' \in [Endpoints -> Breakers] /\ own' \in [Pair -> Breakers]
      BY <1>3, <2>2, MineType, BreakerOps, SetStores DEF Policy!Execute
    <3>2. QED
      BY <1>3, <2>2, <3>1 DEF Policy!Execute
  <2>3. QED
    BY <2>1, <2>2
<1>4. ASSUME NEW c \in Pair, Policy!OpReturns(c)
      PROVE  PolicyInv'
  <2> DEFINE b(err) == Policy!After(Policy!Mine(c), err = Policy!NoError)
  <2>1. PICK err : /\ Policy!Set(c, b(err))
                   /\ phase' = IF b(err).state = Policy!Mine(c).state
                                THEN [phase EXCEPT ![c] = "idle"] ELSE Policy!Late(c)
                   /\ Policy!Returned(c, err)
    BY <1>4 DEF Policy!OpReturns
  <2>2. breaker' \in [Endpoints -> Breakers] /\ own' \in [Pair -> Breakers]
    BY <2>1, MineType, BreakerOps, SetStores
  <2>3. PICK l : l # "op" /\ at' = [at EXCEPT ![c] = l]
    BY <2>1, ReturnedMoves
  <2>4. /\ DOMAIN phase' = Pair /\ phase'[c] = "idle"
        /\ \A d \in Pair \ {c} : phase'[d] # "idle" <=> phase[d] # "idle"
    <3>1. CASE phase' = [phase EXCEPT ![c] = "idle"]
      BY <3>1
    <3>2. CASE phase' = Policy!Late(c)
      BY <3>2 DEF Policy!Late
    <3>3. QED
      BY <2>1, <3>1, <3>2
  <2>5. lost' \in [Endpoints -> BOOLEAN]
    BY <1>4 DEF Policy!OpReturns
  <2>6. QED
    BY <1>4, <2>2, <2>3, <2>4, <2>5 DEF Policy!OpReturns
<1>5. ASSUME NEW c \in Pair, Policy!OpPanics(c)
      PROVE  PolicyInv'
  <2>1. lost' \in [Endpoints -> BOOLEAN]
    BY <1>5, Zenon DEF Policy!OpPanics
  <2>2. QED
    BY <1>5, <2>1 DEF Policy!OpPanics
<1>6. ASSUME NEW c \in Pair, Policy!TimerFires(c) \/ Policy!CtxDone(c)
      PROVE  PolicyInv'
  BY <1>6 DEF Policy!TimerFires, Policy!CtxDone
<1>7. CASE Policy!Tick
  <2>1. breaker' \in [Endpoints -> Breakers] /\ own' \in [Pair -> Breakers]
    BY <1>7, BreakerOps DEF Policy!Tick
  <2>2. QED
    BY <1>7, <2>1 DEF Policy!Tick
<1>8. QED
  BY <1>1, <1>2, <1>3, <1>4, <1>5, <1>6, <1>7 DEF Policy!Next

\* The tracked breaker sees nothing of a step that leaves it, its callers and
\* the record of its leaked probes alone.
LEMMA Unseen ==
  ASSUME breaker'[T] = breaker[T], Admitted' = Admitted, lost'[T] = lost[T]
  PROVE  UNCHANGED Policy!Breaker!vars
  BY DEF Policy!Breaker!vars, Admitted, T

LEMMA LookupUnseen ==
  ASSUME PolicyInv, NEW c \in Pair, Policy!EndpointPolicy(c)
  PROVE  UNCHANGED Policy!Breaker!vars
<1>1. breaker' = breaker /\ lost' = lost /\ phase' = phase /\ phase[c] = "idle"
  BY DEF PolicyInv, Policy!EndpointPolicy, Policy!endpointBreaker
<1>2. \A d \in Pair \ {c} : cached'[d] = cached[d] /\ ep'[d] = ep[d]
  BY DEF PolicyInv, Policy!EndpointPolicy, Policy!endpointBreaker
<1>3. Admitted' = Admitted
  BY <1>1, <1>2 DEF Admitted, T, Policy!Tracked
<1>4. QED
  BY <1>1, <1>3, Unseen

\* beforeRequest, by the state it finds.
LEMMA ExecuteImplements ==
  ASSUME PolicyInv, NEW c \in Pair, Policy!Execute(c)
  PROVE  Policy!Breaker!beforeRequest(c) \/ UNCHANGED Policy!Breaker!vars
<1> DEFINE b == Policy!Mine(c)
<1>0. lost' = lost /\ cached' = cached /\ ep' = ep /\ at[c] = "execute" /\ b \in Breakers
  BY MineType DEF Policy!Execute
<1>1. CASE Policy!Rejects(b)
  <2>1. breaker' = breaker /\ phase' = phase
    BY <1>1 DEF Policy!Execute
  <2>2. QED
    BY <1>0, <2>1, Unseen DEF Admitted, T, Policy!Tracked
<1>2. CASE ~Policy!Rejects(b) /\ ~(cached[c] /\ ep[c] = T)
  <2>1. breaker'[T] = breaker[T]
    BY <1>0, <1>2, BreakerOps, SetStores DEF Policy!Execute
  <2>2. phase' = [phase EXCEPT ![c] = phase'[c]]
    BY <1>2 DEF Policy!Execute, PolicyInv
  <2>3. Admitted' = Admitted
    BY <1>0, <1>2, <2>2 DEF Admitted, T, Policy!Tracked, PolicyInv
  <2>4. QED
    BY <1>0, <2>1, <2>3, Unseen
<1>3. CASE ~Policy!Rejects(b) /\ cached[c] /\ ep[c] = T
  <2>1. b = breaker[T] /\ breaker'[T] = Policy!Before(b)
    BY <1>0, <1>3, BreakerOps, SetStores DEF Policy!Execute
  <2>2. phase' = [phase EXCEPT ![c] = IF b.state = "closed" THEN "normal" ELSE "probe"]
    BY <1>3 DEF Policy!Execute
  <2>3. Admitted[c] = "idle"
    BY <1>0 DEF Admitted, PolicyInv
  <2>4. Admitted' = [Admitted EXCEPT ![c] = IF b.state = "closed" THEN "normal" ELSE "probe"]
    BY <1>0, <1>3, <2>2 DEF Admitted, T, Policy!Tracked, PolicyInv
  <2>5. CASE b.state = "closed"
    <3>1. breaker'[T] = breaker[T]
      BY <2>1, <2>5 DEF Policy!Before
    <3>2. Policy!Breaker!AdmitClosed(c)
      BY <2>1, <2>4, <2>5, <3>1 DEF Policy!Breaker!AdmitClosed, Admitted, T
    <3>3. QED
      BY <1>0, <2>3, <3>2 DEF Policy!Breaker!beforeRequest, Admitted, T
  <2>6. CASE b.state = "open"
    <3>1. breaker'[T] = [b EXCEPT !.state = "half-open", !.half = 0]
      BY <2>1, <2>6 DEF Policy!Before
    <3>2. b.since >= BreakerTimeout
      BY <1>0, <1>3, <2>6, PolicyConstants DEF Policy!Rejects, Breakers
    <3>3. Policy!Breaker!AdmitFirstProbe(c)
      BY <1>0, <2>1, <2>4, <2>6, <3>1, <3>2
         DEF Policy!Breaker!AdmitFirstProbe, Admitted, T, Breakers
    <3>4. QED
      BY <1>0, <2>3, <3>3 DEF Policy!Breaker!beforeRequest, Admitted, T
  <2>7. CASE b.state = "half-open"
    <3>1. breaker'[T] = [b EXCEPT !.half = @ + 1]
      BY <2>1, <2>7 DEF Policy!Before
    <3>2. b.half < BreakerRequests
      BY <1>0, <1>3, <2>7, PolicyConstants DEF Policy!Rejects, Breakers
    <3>3. Policy!Breaker!AdmitProbe(c)
      BY <1>0, <2>1, <2>4, <2>7, <3>1, <3>2
         DEF Policy!Breaker!AdmitProbe, Admitted, T, Breakers
    <3>4. QED
      BY <1>0, <2>3, <3>3 DEF Policy!Breaker!beforeRequest, Admitted, T
  <2>8. QED
    BY <1>0, <2>5, <2>6, <2>7 DEF Breakers
<1>4. QED
  BY <1>1, <1>2, <1>3

\* afterRequest, by the state it finds and by the result.
LEMMA ResultImplements ==
  ASSUME PolicyInv, NEW c \in Pair, Policy!OpReturns(c)
  PROVE  Policy!Breaker!afterRequest(c) \/ UNCHANGED Policy!Breaker!vars
<1> DEFINE b == Policy!Mine(c)
           next(ok) == Policy!After(b, ok)
<1>0. cached' = cached /\ ep' = ep /\ at[c] = "op" /\ b \in Breakers /\ phase[c] # "idle"
  BY MineType DEF Policy!OpReturns, PolicyInv
<1>1. PICK ok \in BOOLEAN : /\ Policy!Set(c, next(ok))
                            /\ phase' = IF next(ok).state = b.state
                                         THEN [phase EXCEPT ![c] = "idle"] ELSE Policy!Late(c)
  BY DEF Policy!OpReturns
<1>2. next(ok) \in Breakers
  BY <1>0, BreakerOps
<1>3. CASE ~(cached[c] /\ ep[c] = T)
  <2>1. breaker'[T] = breaker[T]
    BY <1>1, <1>2, <1>3, SetStores
  <2>2. lost'[T] = lost[T]
    BY <1>3, TrackedType DEF Policy!OpReturns, PolicyInv
  <2>3. Admitted' = Admitted
    <3>1. CASE phase' = [phase EXCEPT ![c] = "idle"]
      BY <1>0, <1>3, <3>1 DEF Admitted, T, Policy!Tracked, PolicyInv
    <3>2. CASE phase' = Policy!Late(c)
      BY <1>0, <1>3, <3>2 DEF Policy!Late, Admitted, T, Policy!Tracked, PolicyInv
    <3>3. QED
      BY <1>1, <3>1, <3>2
  <2>4. QED
    BY <2>1, <2>2, <2>3, Unseen
<1>4. CASE cached[c] /\ ep[c] = T
  <2>1. b = breaker[T] /\ breaker'[T] = next(ok)
    BY <1>1, <1>2, <1>4, SetStores
  <2>2. lost'[T] = FALSE
    BY <1>4, TrackedType DEF Policy!OpReturns, PolicyInv
  <2>3. Admitted[c] # "idle"
    BY <1>0, <1>4 DEF Admitted
  <2>4. next(ok).state = b.state => Admitted' = Policy!Breaker!Return(c)
    BY <1>0, <1>1, <1>4 DEF Policy!Breaker!Return, Admitted, T, Policy!Tracked, PolicyInv
  <2>5. next(ok).state # b.state => Admitted' = Policy!Breaker!Leave(c)
    BY <1>0, <1>1, <1>4 DEF Policy!Late, Policy!Breaker!Leave, Admitted, T, Policy!Tracked, PolicyInv
  <2>6. CASE b.state = "open"
    <3>1. next(ok) = b
      BY <2>6 DEF Policy!After
    <3>2. Policy!Breaker!ResultWhileOpen(c)
      BY <2>1, <2>4, <2>6, <3>1 DEF Policy!Breaker!ResultWhileOpen, Admitted, T
    <3>3. QED
      BY <2>2, <2>3, <3>2 DEF Policy!Breaker!afterRequest, Admitted, T
  <2>7. CASE b.state = "closed" /\ ok
    <3>1. next(ok) = [b EXCEPT !.failures = 0]
      BY <2>7 DEF Policy!After
    <3>2. Policy!Breaker!SucceedClosed(c)
      BY <1>0, <2>1, <2>4, <2>7, <3>1, ZenonT(60) DEF Policy!Breaker!SucceedClosed, Admitted, T, Breakers
    <3>3. QED
      BY <2>2, <2>3, <3>2 DEF Policy!Breaker!afterRequest, Admitted, T
  <2>8. CASE b.state = "closed" /\ ~ok
    <3>1. CASE b.failures + 1 >= BreakerThreshold
      <4>1. next(ok) = [b EXCEPT !.failures = @ + 1, !.state = "open", !.since = 0]
        BY <2>8, <3>1 DEF Policy!After
      <4>2. /\ next(ok).state = "open" /\ next(ok).failures = b.failures + 1
            /\ next(ok).half = b.half /\ next(ok).since = 0
        BY <1>0, <4>1 DEF Breakers
      <4>3. Policy!Breaker!FailClosed(c)
        BY <2>1, <2>5, <2>8, <3>1, <4>2 DEF Policy!Breaker!FailClosed, Admitted, T
      <4>4. QED
        BY <2>2, <2>3, <4>3 DEF Policy!Breaker!afterRequest, Admitted, T
    <3>2. CASE ~(b.failures + 1 >= BreakerThreshold)
      <4>1. next(ok) = [b EXCEPT !.failures = @ + 1]
        BY <2>8, <3>2 DEF Policy!After
      <4>2. /\ next(ok).state = "closed" /\ next(ok).failures = b.failures + 1
            /\ next(ok).half = b.half /\ next(ok).since = b.since
        BY <1>0, <2>8, <4>1 DEF Breakers
      <4>3. Policy!Breaker!FailClosed(c)
        BY <2>1, <2>4, <2>8, <3>2, <4>2 DEF Policy!Breaker!FailClosed, Admitted, T
      <4>4. QED
        BY <2>2, <2>3, <4>3 DEF Policy!Breaker!afterRequest, Admitted, T
    <3>3. QED
      BY <3>1, <3>2
  <2>9. CASE b.state = "half-open" /\ ok
    <3>1. next(ok) = [b EXCEPT !.state = "closed", !.failures = 0, !.half = 0]
      BY <2>9 DEF Policy!After
    <3>2. Policy!Breaker!SucceedHalfOpen(c)
      BY <1>0, <2>1, <2>5, <2>9, <3>1, ZenonT(60) DEF Policy!Breaker!SucceedHalfOpen, Admitted, T, Breakers
    <3>3. QED
      BY <2>2, <2>3, <3>2 DEF Policy!Breaker!afterRequest, Admitted, T
  <2>10. CASE b.state = "half-open" /\ ~ok
    <3>1. next(ok) = [b EXCEPT !.state = "open", !.since = 0, !.failures = BreakerThreshold]
      BY <2>10 DEF Policy!After
    <3>2. Policy!Breaker!FailHalfOpen(c)
      BY <1>0, <2>1, <2>5, <2>10, <3>1 DEF Policy!Breaker!FailHalfOpen, Admitted, T, Breakers
    <3>3. QED
      BY <2>2, <2>3, <3>2 DEF Policy!Breaker!afterRequest, Admitted, T
  <2>11. QED
    BY <1>0, <2>6, <2>7, <2>8, <2>9, <2>10 DEF Breakers
<1>5. QED
  BY <1>3, <1>4

LEMMA PanicImplements ==
  ASSUME PolicyInv, NEW c \in Pair, Policy!OpPanics(c)
  PROVE  Policy!Breaker!Panic(c) \/ UNCHANGED Policy!Breaker!vars
<1>0. /\ cached' = cached /\ ep' = ep /\ breaker' = breaker /\ phase[c] # "idle"
      /\ phase' = [phase EXCEPT ![c] = "idle"]
  BY DEF Policy!OpPanics, PolicyInv
<1>1. CASE ~(cached[c] /\ ep[c] = T)
  <2>1. Admitted' = Admitted
    BY <1>0, <1>1 DEF Admitted, T, Policy!Tracked, PolicyInv
  <2>2. lost'[T] = lost[T]
    BY <1>1, TrackedType DEF Policy!OpPanics, PolicyInv
  <2>3. QED
    BY <1>0, <2>1, <2>2, Unseen
<1>2. CASE cached[c] /\ ep[c] = T
  <2>1. Admitted' = Policy!Breaker!Return(c)
    BY <1>0, <1>2 DEF Policy!Breaker!Return, Admitted, T, Policy!Tracked, PolicyInv
  <2>2. Admitted[c] = phase[c]
    BY <1>2 DEF Admitted
  <2>3. lost'[T] = (lost[T] \/ phase[c] = "probe")
    BY <1>2, TrackedType DEF Policy!OpPanics, PolicyInv
  <2>4. Policy!Breaker!Panic(c)
    BY <1>0, <2>1, <2>2, <2>3 DEF Policy!Breaker!Panic, Admitted, T
  <2>5. QED
    BY <2>4
<1>3. QED
  BY <1>1, <1>2

LEMMA TickImplements ==
  ASSUME PolicyInv, Policy!Tick
  PROVE  Policy!Breaker!Tick \/ UNCHANGED Policy!Breaker!vars
<1>0. /\ Admitted' = Admitted /\ lost' = lost /\ breaker[T] \in Breakers
      /\ breaker'[T] = Policy!Older(breaker[T])
  BY TrackedType DEF Policy!Tick, Admitted, T, Policy!Tracked, PolicyInv
<1>1. CASE breaker[T].state = "open" /\ breaker[T].since < BreakerTimeout
  <2>1. breaker'[T] = [breaker[T] EXCEPT !.since = @ + 1]
    BY <1>0, <1>1 DEF Policy!Older
  <2>2. QED
    BY <1>0, <1>1, <2>1 DEF Policy!Breaker!Tick, Admitted, T, Breakers
<1>2. CASE ~(breaker[T].state = "open" /\ breaker[T].since < BreakerTimeout)
  BY <1>0, <1>2, Unseen DEF Policy!Older
<1>3. QED
  BY <1>1, <1>2

\* One shared breaker per cached endpoint: lookups, retries, timeouts and panics
\* come to the tracked endpoint's breaker as the requests of CircuitBreaker, for
\* any number of callers and endpoints (pkg/resiliency/policy.go, provider.go).
THEOREM RunnersImplementBreaker == AllSpec => ImplementsBreaker
<1>1. AllInit => PolicyInv /\ Policy!Breaker!Init
  <2> SUFFICES ASSUME AllInit PROVE PolicyInv /\ Policy!Breaker!Init
    OBVIOUS
  <2>1. Policy!Breaker!Init
    BY PolicyConstants DEF AllInit, Policy!Init, Policy!Breaker!Init, Policy!newBreaker, Policy!Tracked
  <2>2. PolicyInv
    BY PolicyConstants DEF AllInit, Policy!Init, PolicyInv, Policy!newBreaker, Breakers
  <2>3. QED
    BY <2>1, <2>2
<1>2. PolicyInv /\ [Policy!Next]_policyVars => [Policy!Breaker!Next]_(Policy!Breaker!vars)
  <2> SUFFICES ASSUME PolicyInv, [Policy!Next]_policyVars
               PROVE  Policy!Breaker!Next \/ UNCHANGED Policy!Breaker!vars
    OBVIOUS
  <2>1. CASE UNCHANGED policyVars
    BY <2>1 DEF policyVars, Policy!Breaker!vars
  <2>2. ASSUME NEW c \in Pair, Policy!TimerFires(c) \/ Policy!CtxDone(c)
        PROVE  UNCHANGED Policy!Breaker!vars
    BY <2>2 DEF Policy!TimerFires, Policy!CtxDone, Policy!Breaker!vars
  <2>3. QED
    BY <2>1, <2>2, LookupUnseen, ExecuteImplements, ResultImplements, PanicImplements,
       TickImplements DEF Policy!Next, Policy!Breaker!Next
<1>3. QED
  BY <1>1, <1>2, SafetyOfAll, PolicyMoves, PolicyInvStep, PTL
     DEF ImplementsBreaker, Policy!ImplementsBreaker, Policy!Breaker!Spec

-----------------------------------------------------------------------------
(* The rolling window: RollingWindow implements SlidingWindow.             *)
(* Quotients and remainders (DataLemmas) give the interval an instant      *)
(* falls in and the ring's indices.                                        *)

N == WindowSize
I == WindowInterval

WindowInv ==
    /\ buckets \in [Window!Slots -> Nat]
    /\ offset \in Window!Slots
    /\ elapsed \in Nat /\ elapsed <= (N + 1) * I

LEMMA SpanType ==
  ASSUME WindowInv
  PROVE  /\ Window!span \in 0..N
         /\ elapsed \div I \in Nat /\ elapsed % I \in Nat /\ elapsed % I < I
  BY WindowConstants, DivMod DEF WindowInv, Window!span, N, I

\* The slot that holds what was added k intervals before the last Add.
Slot(k) == IF k <= offset THEN offset - k ELSE offset - k + N

\* What a reader sees: nothing in the intervals begun since the last Add, then
\* the slots from the current one backwards.
SeenBackwards ==
    Window!Seen = [i \in 1..N |-> IF i <= Window!span THEN 0
                                  ELSE buckets[Slot(i - 1 - Window!span)]]

LEMMA SeenIs == WindowInv => SeenBackwards
<1> SUFFICES ASSUME WindowInv PROVE SeenBackwards
  OBVIOUS
<1> DEFINE sp == Window!span
<1>1. sp \in 0..N
  BY SpanType
<1> HIDE DEF sp
<1>2. ASSUME NEW i \in 1..N, i > sp
      PROVE  (offset + sp + (N + 1 - i)) % N = Slot(i - 1 - sp)
  <2> DEFINE x == offset + sp + (N + 1 - i)
  <2>1. x \in Nat /\ x < N + N /\ x = offset - (i - 1 - sp) + N
    BY <1>1, <1>2, WindowConstants DEF WindowInv, Window!Slots, N
  <2>2. CASE i - 1 - sp <= offset
    <3>1. N <= x
      BY <1>1, <1>2, <2>1, <2>2, WindowConstants DEF WindowInv, Window!Slots, N
    <3>2. x % N = x - N
      <4> HIDE DEF x
      <4> QED
        BY <2>1, <3>1, ModTwice, WindowConstants DEF N
    <3>3. QED
      BY <1>1, <2>1, <2>2, <3>2, WindowConstants DEF Slot, WindowInv, Window!Slots, N
  <2>3. CASE ~(i - 1 - sp <= offset)
    <3>1. x < N
      BY <1>1, <1>2, <2>1, <2>3, WindowConstants DEF WindowInv, Window!Slots, N
    <3>2. x % N = x
      <4> HIDE DEF x
      <4> QED
        BY <2>1, <3>1, ModOnce, WindowConstants DEF N
    <3>3. QED
      BY <1>1, <2>1, <2>3, <3>2, WindowConstants DEF Slot, WindowInv, Window!Slots, N
  <2>4. QED
    BY <2>2, <2>3
<1>3. ASSUME NEW i \in 1..N, i > sp
      PROVE  Window!Reduced(FALSE)[N + 1 - i] = buckets[Slot(i - 1 - sp)]
  <2>1. N + 1 - i \in 1..(N - sp)
    BY <1>1, <1>3, WindowConstants DEF N
  <2>2. Window!Reduced(FALSE)[N + 1 - i] = buckets[(offset + sp + (N + 1 - i)) % N]
    BY <2>1 DEF Window!Reduced, sp, N
  <2>3. QED
    BY <1>2, <1>3, <2>2
<1>4. Window!Seen = [i \in 1..N |-> IF i <= sp THEN 0 ELSE Window!Reduced(FALSE)[N + 1 - i]]
  BY DEF Window!Seen, sp, N
<1>5. \A i \in 1..N : ~(i <= sp) => i > sp
  BY <1>1, WindowConstants DEF N
<1>6. Window!Seen = [i \in 1..N |-> IF i <= sp THEN 0 ELSE buckets[Slot(i - 1 - sp)]]
  BY <1>3, <1>4, <1>5, Zenon
<1>7. QED
  BY <1>6 DEF SeenBackwards, sp

LEMMA SeenIsNext == WindowInv' => SeenBackwards'
  BY SeenIs, PTL

LEMMA WindowTickSlides ==
  ASSUME WindowInv, Window!Tick
  PROVE  WindowInv' /\ Window!Sliding!Tick
<1> DEFINE sp == Window!span
           ph == elapsed % I
<1>0. /\ sp \in 0..N /\ ph \in Nat /\ ph < I /\ elapsed \in Nat
      /\ N \in Nat \ {0} /\ I \in Nat \ {0}
      /\ buckets' = buckets /\ offset' = offset
  BY SpanType, WindowConstants DEF WindowInv, Window!Tick, N, I
<1>1. CASE elapsed < (N + 1) * I
  <2>1. elapsed' = elapsed + 1 /\ WindowInv'
    BY <1>0, <1>1 DEF Window!Tick, WindowInv, N, I
  <2>2. CASE ph + 1 < I
    <3>1. elapsed' \div I = elapsed \div I /\ elapsed' % I = ph + 1
      BY <1>0, <2>1, <2>2, DivNext
    <3>2. sp' = sp
      BY <3>1 DEF Window!span, N, I
    <3>3. Window!Seen' = Window!Seen
      BY <1>0, <2>1, <3>2, SeenIs, SeenIsNext DEF SeenBackwards, Slot
    <3>4. (ph + 1) % I = ph + 1
      BY <1>0, <2>2, ModOnce
    <3>5. QED
      BY <1>0, <2>1, <3>1, <3>3, <3>4 DEF Window!Sliding!Tick, I
  <2>3. CASE ph + 1 = I
    <3>1. elapsed' \div I = (elapsed \div I) + 1 /\ elapsed' % I = 0
      BY <1>0, <2>1, <2>3, DivNext
    <3>2. sp' = IF sp < N THEN sp + 1 ELSE N
      BY <1>0, <3>1, SpanType DEF Window!span, N, I
    <3>3. Window!Seen' = Window!Sliding!Slid
      BY <1>0, <2>1, <3>2, SeenIs, SeenIsNext DEF SeenBackwards, Slot, Window!Sliding!Slid, N
    <3>4. (ph + 1) % I = 0
      BY <1>0, <2>3, ModTwice
    <3>5. QED
      BY <1>0, <2>1, <3>1, <3>3, <3>4 DEF Window!Sliding!Tick, I
  <2>4. QED
    BY <1>0, <2>2, <2>3
<1>2. CASE ~(elapsed < (N + 1) * I)
  <2>1. elapsed = (N + 1) * I /\ elapsed' = elapsed - I + 1
    BY <1>0, <1>2 DEF WindowInv, Window!Tick, N, I
  <2> DEFINE x == I * N
  <2>2. x \in Nat /\ elapsed = x + I /\ elapsed' = x + 1
    <3>1. (N + 1) * I = x + I /\ x \in Nat
      BY <1>0, Multiples
    <3> HIDE DEF x
    <3>2. QED
      BY <1>0, <2>1, <3>1
  <2>3. x \div I = N /\ x % I = 0
    <3>1. x <= x /\ x < I * (N + 1)
      BY <1>0, <2>2, Multiples
    <3>2. x - x = 0
      BY <2>2
    <3>3. QED
      BY <1>0, <2>2, <3>1, <3>2, DivIs
  <2>4. elapsed \div I = N + 1 /\ ph = 0
    <3>1. I * (N + 1) = elapsed /\ elapsed < I * (N + 1 + 1) /\ N + 1 \in Nat
      BY <1>0, <2>2, Multiples
    <3> DEFINE q == N + 1
    <3>2. elapsed - elapsed = 0 /\ q \in Nat
      BY <1>0
    <3>3. I * q <= elapsed /\ elapsed < I * (q + 1) /\ elapsed - I * q = 0
      BY <1>0, <3>1, <3>2
    <3> HIDE DEF q, x
    <3>4. elapsed \div I = q /\ elapsed % I = 0
      BY <1>0, <3>2, <3>3, DivIs
    <3>5. QED
      BY <3>4 DEF q
  <2> HIDE DEF x
  <2>5. sp = N
    BY <1>0, <2>4 DEF Window!span, N, I
  <2>6. WindowInv'
    BY <1>0, <2>1, <2>2 DEF WindowInv
  <2>7. /\ 1 < I => elapsed' \div I = N /\ elapsed' % I = 1
        /\ 1 = I => elapsed' \div I = N + 1 /\ elapsed' % I = 0
    <3>1. /\ (x % I) + 1 < I => (x + 1) \div I = x \div I /\ (x + 1) % I = (x % I) + 1
          /\ (x % I) + 1 = I => (x + 1) \div I = (x \div I) + 1 /\ (x + 1) % I = 0
      BY <1>0, <2>2, DivNext
    <3>2. QED
      BY <2>2, <2>3, <3>1
  <2>8. sp' = N
    BY <1>0, <2>7 DEF Window!span, N, I
  <2>9. (ph + 1) % I = elapsed' % I
    BY <1>0, <2>4, <2>7, ModOnce, ModTwice
  <2>10. Window!Seen = [i \in 1..N |-> 0] /\ Window!Seen' = [i \in 1..N |-> 0]
    BY <1>0, <2>5, <2>6, <2>8, SeenIs, SeenIsNext DEF SeenBackwards
  <2>11. Window!Sliding!Slid = [i \in 1..N |-> 0]
    BY <1>0, <2>10 DEF Window!Sliding!Slid, N
  <2>12. QED
    BY <2>6, <2>9, <2>10, <2>11 DEF Window!Sliding!Tick, I
<1>3. QED
  BY <1>1, <1>2

\* An index of the ring, one turn ahead at most.
Ring(k) == IF k < N THEN k ELSE k - N

LEMMA RingIs == ASSUME NEW k \in Nat, k < N + N PROVE k % N = Ring(k)
<1>1. N \in Nat \ {0}
  BY WindowConstants DEF N
<1>2. CASE k < N
  BY <1>1, <1>2, ModOnce DEF Ring
<1>3. CASE N <= k
  <2>1. k % N = k - N
    BY <1>1, <1>3, ModTwice
  <2>2. QED
    BY <1>1, <1>3, <2>1 DEF Ring
<1>4. QED
  BY <1>1, <1>2, <1>3

\* After updateOffset the slots hold what a reader saw before: the reset ones
\* are those of the intervals begun since the last Add.
LEMMA UpdatedIsSeen ==
  ASSUME WindowInv, NEW i \in 1..N,
         NEW current, current = (offset + Window!span) % N
  PROVE  LET s == IF i - 1 <= current THEN current - (i - 1) ELSE current - (i - 1) + N
         IN  s \in Window!Slots /\ Window!updated[s] = Window!Seen[i] /\ (s = current <=> i = 1)
<1> DEFINE sp == Window!span
           s == IF i - 1 <= current THEN current - (i - 1) ELSE current - (i - 1) + N
<1>0. sp \in 0..N /\ offset \in 0..(N - 1) /\ N \in Nat \ {0}
  BY SpanType, WindowConstants DEF WindowInv, Window!Slots, N
<1>1. \A j \in 1..sp : (offset + j) % N = Ring(offset + j)
  BY <1>0, RingIs
<1>2. current = Ring(offset + sp)
  BY <1>0, RingIs
<1>3. s \in Window!Slots /\ (s = current <=> i = 1)
  BY <1>0, <1>2 DEF Ring, Window!Slots, N
<1>4. Window!updated[s] = IF s \in {(offset + j) % N : j \in 1..sp} THEN 0 ELSE buckets[s]
  BY <1>3 DEF Window!updated, N
<1>5. Window!Seen[i] = IF i <= sp THEN 0 ELSE buckets[Slot(i - 1 - sp)]
  BY SeenIs DEF SeenBackwards
<1>6. CASE i <= sp
  <2>1. sp + 1 - i \in 1..sp /\ s = Ring(offset + (sp + 1 - i))
    BY <1>0, <1>2, <1>6 DEF Ring
  <2>2. s \in {(offset + j) % N : j \in 1..sp}
    BY <1>1, <2>1
  <2>3. QED
    BY <1>3, <1>4, <1>5, <1>6, <2>2
<1>7. CASE ~(i <= sp)
  <2>1. s = Slot(i - 1 - sp)
    BY <1>0, <1>2, <1>7 DEF Ring, Slot
  <2>2. \A j \in 1..sp : s # Ring(offset + j)
    BY <1>0, <1>7, <2>1 DEF Ring, Slot
  <2>3. s \notin {(offset + j) % N : j \in 1..sp}
    BY <1>1, <2>2
  <2>4. QED
    BY <1>3, <1>4, <1>5, <1>7, <2>1, <2>3
<1>8. QED
  BY <1>6, <1>7

LEMMA WindowAddCounts ==
  ASSUME WindowInv, Window!Add
  PROVE  WindowInv' /\ Window!Sliding!Add
<1> DEFINE sp == Window!span
           current == (offset + sp) % N
<1>0. /\ sp \in 0..N /\ offset \in 0..(N - 1) /\ N \in Nat \ {0} /\ I \in Nat \ {0}
      /\ elapsed % I \in Nat /\ elapsed % I < I /\ elapsed \in Nat
  BY SpanType, WindowConstants DEF WindowInv, Window!Slots, N, I
<1>1. /\ Window!updated[current] < MaxAdds
      /\ offset' = current
      /\ buckets' = [Window!updated EXCEPT ![current] = @ + 1]
      /\ elapsed' = elapsed % I
  BY DEF Window!Add, N, I
<1>2. current \in 0..(N - 1)
  BY <1>0, RingIs DEF Ring
<1>3. Window!updated \in [Window!Slots -> Nat]
  BY DEF Window!updated, WindowInv
<1>4. WindowInv'
  <2>1. elapsed' <= (N + 1) * I
    <3>1. I <= (N + 1) * I
      BY <1>0, Products
    <3> DEFINE c == (N + 1) * I
    <3>2. c \in Nat
      BY <1>0
    <3> HIDE DEF c
    <3>3. elapsed' <= c
      BY <1>0, <1>1, <3>1, <3>2 DEF c
    <3>4. QED
      BY <3>3 DEF c
  <2>2. QED
    BY <1>0, <1>1, <1>2, <1>3, <2>1 DEF WindowInv, Window!Slots, N
<1>5. elapsed' \div I = 0 /\ elapsed' % I = elapsed % I
  <2>1. I * 0 = 0 /\ I * (0 + 1) = I
    BY <1>0
  <2> DEFINE y == elapsed % I
  <2>2. y \in Nat /\ y < I /\ elapsed' = y
    BY <1>0, <1>1
  <2> HIDE DEF y
  <2>3. y \div I = 0 /\ y % I = y
    BY <1>0, <2>1, <2>2, DivIs, ModOnce
  <2>4. QED
    BY <2>2, <2>3 DEF y
<1>6. sp' = 0
  BY <1>0, <1>5 DEF Window!span, N, I
<1>7. Window!Seen' = [i \in 1..N |-> IF i <= 0 THEN 0 ELSE buckets'[Slot(i - 1 - 0)']]
  BY <1>4, <1>6, SeenIsNext DEF SeenBackwards
<1>8. ASSUME NEW i \in 1..N
      PROVE  Window!Seen'[i] = IF i = 1 THEN Window!Seen[1] + 1 ELSE Window!Seen[i]
  <2> DEFINE s == IF i - 1 <= current THEN current - (i - 1) ELSE current - (i - 1) + N
  <2>1. s \in Window!Slots /\ Window!updated[s] = Window!Seen[i] /\ (s = current <=> i = 1)
    BY UpdatedIsSeen
  <2>2. Window!Seen'[i] = buckets'[s]
    BY <1>0, <1>1, <1>7 DEF Slot
  <2>3. QED
    BY <1>1, <1>3, <2>1, <2>2
<1>9. Window!Seen[1] = Window!updated[current]
  <2>1. 1 \in 1..N
    BY <1>0
  <2>2. QED
    BY <1>2, <2>1, UpdatedIsSeen
<1>10. Window!Seen = [i \in 1..N |-> Window!Seen[i]] /\ Window!Seen' = [i \in 1..N |-> Window!Seen'[i]]
  BY <1>4, SeenIs, SeenIsNext DEF SeenBackwards
<1>11. Window!Seen' = [Window!Seen EXCEPT ![1] = @ + 1]
  BY <1>0, <1>8, <1>10
<1>12. QED
  BY <1>1, <1>4, <1>5, <1>9, <1>11 DEF Window!Sliding!Add, I

\* Reduce visits exactly what was added in the last Size intervals, each in its
\* own and nothing older, for any number of buckets and any interval
\* (pkg/core/collection/rollingwindow.go).
THEOREM WindowSlides == AllSpec => ImplementsSlidingWindow
<1>1. AllInit => WindowInv /\ Window!Sliding!Init
  <2> SUFFICES ASSUME AllInit PROVE WindowInv /\ Window!Sliding!Init
    OBVIOUS
  <2>0. /\ buckets = [i \in Window!Slots |-> 0] /\ offset = 0 /\ elapsed = 0
        /\ N \in Nat \ {0} /\ I \in Nat \ {0}
    BY WindowConstants DEF AllInit, Window!Init, N, I
  <2>1. WindowInv
    <3>1. (N + 1) * I \in Nat
      BY <2>0, Products
    <3>2. QED
      BY <2>0, <3>1 DEF WindowInv, Window!Slots, N
  <2>2. elapsed \div I = 0 /\ elapsed % I = 0
    BY <2>0
  <2>3. Window!span = 0
    BY <2>0, <2>2 DEF Window!span, N, I
  <2>4. Window!Seen = [i \in 1..N |-> 0]
    BY <2>0, <2>1, <2>3, SeenIs DEF SeenBackwards, Slot, Window!Slots, N
  <2>5. QED
    BY <2>1, <2>2, <2>4 DEF Window!Sliding!Init, N, I
<1>2. WindowInv /\ [Window!Next]_windowVars
        => WindowInv' /\ [Window!Sliding!Add \/ Window!Sliding!Tick]_<<Window!Seen, elapsed % I>>
  <2> SUFFICES ASSUME WindowInv, [Window!Next]_windowVars
               PROVE  /\ WindowInv'
                      /\ \/ Window!Sliding!Add \/ Window!Sliding!Tick
                         \/ UNCHANGED <<Window!Seen, elapsed % I>>
    OBVIOUS
  <2>1. CASE UNCHANGED windowVars
    BY <2>1 DEF windowVars, WindowInv, Window!Slots, Window!Seen, Window!Reduced, Window!span
  <2>2. QED
    BY <2>1, WindowAddCounts, WindowTickSlides DEF Window!Next
<1>3. QED
  BY <1>1, <1>2, SafetyOfAll, WindowMoves, PTL
     DEF ImplementsSlidingWindow, Window!ImplementsSlidingWindow, Window!Sliding!Spec, I
=============================================================================
