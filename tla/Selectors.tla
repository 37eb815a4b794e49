------------------------------ MODULE Selectors ------------------------------
(***************************************************************************)
(* Client-side load balancing (pkg/selector): the random, round-robin,     *)
(* weighted and p2c strategies, the wrapper that filters out tripped nodes *)
(* (selector/breaker.go) and the gRPC picker (client/balancer), all of     *)
(* which share one selector between concurrent calls.                      *)
(*                                                                         *)
(* p2c keeps a state object per address with the number of calls under     *)
(* way, looks it up in two lock sections (a read lock, then on a miss the  *)
(* write lock) and prunes what is not among its candidates.  Candidates    *)
(* differ from call to call: addresses come and go, and the wrapper hands  *)
(* down the healthy ones only.  Latency, success rate and forcePick only   *)
(* shift the odds of p2c's choice: every pair may be drawn and either node *)
(* of it may be taken.                                                     *)
(***************************************************************************)
EXTENDS Naturals, Sequences, SequencesExt, FiniteSets

CONSTANTS
    Addrs,          \* addresses
    Calls,          \* concurrent calls of Select
    Strategies,     \* "random", "round_robin", "weighted", "p2c"
    Wrapped,        \* with and/or without WithCircuitBreaker, a set of Booleans
    MaxWeight,      \* bound: static weights
    MaxObjects,     \* bound: p2c state objects ever made
    CounterLimit    \* the round-robin counter wraps here (2^64 in the code)

VARIABLES
    strategy,
    wrapped,        \* is the selector behind WithCircuitBreaker?
    weight,         \* Node.Weight of each address
    members,        \* addresses the discovery gives
    tripped,        \* addresses whose breaker refuses (BreakerRegistry.Healthy)
    counter,        \* roundrobin's counter
    state,          \* p2c: the object of each address, None if there is none
    made,           \* p2c: objects made so far
    inflight,       \* p2c: calls under way, per object
    pc,             \* "idle", "pick", "miss", "count", "prune", "calling"
    nodes,          \* the candidates of a call
    want,           \* p2c: addresses whose object the call looks up next
    chosen,         \* the address a call was given
    obj,            \* p2c: the object the call counts in
    kept            \* history: no prune since has had other candidates

None == 0
config == <<strategy, wrapped, weight>>
p2cVars == <<state, made, inflight>>
callVars == <<pc, nodes, want, chosen, obj, kept>>
vars == <<config, members, tripped, counter, p2cVars, callVars>>

Init ==
    /\ strategy \in Strategies /\ wrapped \in Wrapped
    /\ weight \in IF strategy = "weighted" THEN [Addrs -> 0..MaxWeight] ELSE [Addrs -> {1}]
    /\ members = Addrs /\ tripped = {}
    /\ counter = 0
    /\ state = [a \in Addrs |-> None] /\ made = 0
    /\ inflight = [o \in 1..MaxObjects |-> 0]
    /\ pc = [c \in Calls |-> "idle"]
    /\ nodes = [c \in Calls |-> {}]
    /\ want = [c \in Calls |-> << >>]
    /\ chosen = [c \in Calls |-> None]
    /\ obj = [c \in Calls |-> None]
    /\ kept = [c \in Calls |-> TRUE]

------------------------------------------------------------------------------
(* The stateless strategies.                                               *)

effectiveWeight(a) == IF weight[a] > 0 THEN weight[a] ELSE 1
total(list) == FoldSeq(LAMBDA a, sum : effectiveWeight(a) + sum, 0, list)

\* Faulty: r <= w.
weightedPickOffByOne(list, r) ==
    FoldLeft(LAMBDA acc, a : IF acc.at # None THEN acc
                             ELSE IF acc.r <= effectiveWeight(a) THEN [acc EXCEPT !.at = a]
                             ELSE [acc EXCEPT !.r = @ - effectiveWeight(a)],
             [r |-> r, at |-> None], list).at

\* The loop over the nodes: the first whose weight exceeds what is left of r.
weightedPick(list, r) ==
    FoldLeft(LAMBDA acc, a : IF acc.at # None THEN acc
                             ELSE IF acc.r < effectiveWeight(a) THEN [acc EXCEPT !.at = a]
                             ELSE [acc EXCEPT !.r = @ - effectiveWeight(a)],
             [r |-> r, at |-> None], list).at

roundRobinPick(list, n) == list[(n % Len(list)) + 1]

------------------------------------------------------------------------------
(* Select.                                                                 *)

\* breakerSelector.Select: the healthy candidates, or all when none is left.
Candidates ==
    IF wrapped /\ members \ tripped # {} THEN members \ tripped ELSE members

\* The candidates of a picker or of an HTTP request are a snapshot.  Their
\* order, that of the Go map the picker is built from, may be any.
Snapshot(c) ==
    /\ pc[c] = "idle" /\ members # {}
    /\ nodes' = [nodes EXCEPT ![c] = Candidates]
    /\ pc' = [pc EXCEPT ![c] = "pick"]
    /\ UNCHANGED <<config, members, tripped, counter, p2cVars, want, chosen, obj, kept>>

\* random, weighted and round_robin choose in one step; their DoneFunc is NoopDone.
PickStateless(c) ==
    /\ pc[c] = "pick" /\ strategy # "p2c"
    /\ \/ /\ strategy = "random"
          /\ chosen' \in {[chosen EXCEPT ![c] = a] : a \in nodes[c]}
          /\ UNCHANGED counter
       \/ /\ strategy = "weighted"
          /\ \E list \in SetToSeqs(nodes[c]) : \E r \in 0..(total(list) - 1) :
                chosen' = [chosen EXCEPT ![c] = weightedPick(list, r)]
          /\ UNCHANGED counter
       \/ /\ strategy = "round_robin"
          /\ counter' = (counter + 1) % CounterLimit
          /\ \E list \in SetToSeqs(nodes[c]) : chosen' = [chosen EXCEPT ![c] = roundRobinPick(list, counter)]
    /\ pc' = [pc EXCEPT ![c] = "calling"]
    /\ UNCHANGED <<config, members, tripped, p2cVars, nodes, want, obj, kept>>

\* p2c.pick: a lone node is taken as it is, else two are drawn and, by load and
\* force-pick, one of the two is taken.  The objects of both are looked up for
\* that, and the one of the node taken once more in Select.  Only the last of up
\* to pickTimes pairs is drawn here: of the pairs discarded before (p2c.go:83-92)
\* the code may leave objects without calls, which no call reads.
Draw(c) ==
    /\ pc[c] = "pick" /\ strategy = "p2c" /\ want[c] = << >>
    /\ \E a, b \in nodes[c] : \E t \in {a, b} :
          /\ chosen' = [chosen EXCEPT ![c] = t]
          /\ want' = [want EXCEPT ![c] = IF Cardinality(nodes[c]) = 1 THEN <<t>> ELSE <<a, b, t>>]
    /\ UNCHANGED <<config, members, tripped, counter, p2cVars, pc, nodes, obj, kept>>

\* The object of the first address wanted is at hand; the last is the call's own.
Found(c, o) ==
    /\ want' = [want EXCEPT ![c] = Tail(@)]
    /\ IF Len(want[c]) = 1
         THEN /\ obj' = [obj EXCEPT ![c] = o]
              /\ kept' = [kept EXCEPT ![c] = TRUE]
              /\ pc' = [pc EXCEPT ![c] = "count"]
         ELSE /\ pc' = [pc EXCEPT ![c] = "pick"]
              /\ UNCHANGED <<obj, kept>>

\* node: under the read lock.
LookUp(c) ==
    /\ pc[c] = "pick" /\ want[c] # << >>
    /\ LET o == state[Head(want[c])] IN
       IF o # None THEN Found(c, o)
                   ELSE pc' = [pc EXCEPT ![c] = "miss"] /\ UNCHANGED <<want, obj, kept>>
    /\ UNCHANGED <<config, members, tripped, counter, p2cVars, nodes, chosen>>

Make(c) ==
    /\ made < MaxObjects /\ made' = made + 1
    /\ state' = [state EXCEPT ![Head(want[c])] = made + 1]
    /\ Found(c, made + 1)

\* Faulty: the write-lock section does not look again.
CreateAgain(c) ==
    /\ pc[c] = "miss"
    /\ Make(c)
    /\ UNCHANGED <<config, members, tripped, counter, inflight, nodes, chosen>>

\* node: under the write lock, which looks again before it makes one.
Create(c) ==
    /\ pc[c] = "miss"
    /\ LET o == state[Head(want[c])] IN
       IF o # None THEN Found(c, o) /\ UNCHANGED <<state, made>> ELSE Make(c)
    /\ UNCHANGED <<config, members, tripped, counter, inflight, nodes, chosen>>

\* st.inflight.Add(1)
Count(c) ==
    /\ pc[c] = "count"
    /\ inflight' = [inflight EXCEPT ![obj[c]] = @ + 1]
    /\ pc' = [pc EXCEPT ![c] = "prune"]
    /\ UNCHANGED <<config, members, tripped, counter, state, made, nodes, want, chosen, obj, kept>>

\* prune: only when there are more objects than candidates.
Prune(c) ==
    /\ pc[c] = "prune"
    /\ LET known == {a \in Addrs : state[a] # None}
           drop == IF Cardinality(known) <= Cardinality(nodes[c]) THEN {} ELSE known \ nodes[c]
       IN /\ state' = [a \in Addrs |-> IF a \in drop THEN None ELSE state[a]]
          /\ kept' = [d \in Calls |-> kept[d] /\ chosen[d] \notin drop]
    /\ pc' = [pc EXCEPT ![c] = "calling"]
    /\ UNCHANGED <<config, members, tripped, counter, made, inflight, nodes, want, chosen, obj>>

\* The call is over: DoneFunc.  The wrapper's breaker may trip or recover.
Done(c) ==
    /\ pc[c] = "calling"
    /\ inflight' = IF obj[c] = None THEN inflight ELSE [inflight EXCEPT ![obj[c]] = @ - 1]
    /\ \/ UNCHANGED tripped
       \/ wrapped /\ tripped' = tripped \cup {chosen[c]}
       \/ wrapped /\ tripped' = tripped \ {chosen[c]}
    /\ pc' = [pc EXCEPT ![c] = "idle"]
    /\ chosen' = [chosen EXCEPT ![c] = None]
    /\ obj' = [obj EXCEPT ![c] = None]
    /\ nodes' = [nodes EXCEPT ![c] = {}]
    /\ kept' = [kept EXCEPT ![c] = TRUE]
    /\ UNCHANGED <<config, members, counter, state, made, want>>

------------------------------------------------------------------------------
(* The environment.                                                        *)

\* An address update; the picker is built anew, the selector stays.
Build ==
    /\ \E M \in SUBSET Addrs : M # members /\ members' = M
    /\ UNCHANGED <<config, tripped, counter, p2cVars, callVars>>

Next ==
    \/ \E c \in Calls :
          \/ Snapshot(c) \/ PickStateless(c) \/ Draw(c) \/ LookUp(c) \/ Create(c)
          \/ Count(c) \/ Prune(c) \/ Done(c)
    \/ Build

Spec == Init /\ [][Next]_vars

------------------------------------------------------------------------------

(***************************************************************************)
(* p2c compares loads by the calls under way (p2c.go:117).  Concurrent     *)
(* Selects look objects up, make and prune them in separate lock sections, *)
(* yet a call is counted in the object everyone reads for its address for  *)
(* as long as no Select pruned that address, and an object counts exactly  *)
(* the calls that hold it, pruned or not.                                  *)
(***************************************************************************)
CallsCounted ==
    LET Counted == {c \in Calls : obj[c] # None /\ pc[c] \in {"prune", "calling"}} IN
    /\ \A c \in Counted : kept[c] => state[chosen[c]] = obj[c]
    /\ \A o \in 1..MaxObjects : inflight[o] = Cardinality({c \in Counted : obj[c] = o})

(***************************************************************************)
(* weighted.go:31: whatever the weights (0 counts as 1), the random draw   *)
(* gives each candidate as many of the numbers as its weight, and so the   *)
(* share of calls the weight asks for.  Every strategy gives a node that   *)
(* was among the candidates of the call.                                   *)
(***************************************************************************)
SharesByWeight ==
    \A c \in Calls : nodes[c] # {} =>
       /\ chosen[c] \in nodes[c] \cup {None}
       /\ \A list \in SetToSeqs(nodes[c]) : \A a \in nodes[c] :
             Cardinality({r \in 0..(total(list) - 1) : weightedPick(list, r) = a}) = effectiveWeight(a)
==============================================================================
