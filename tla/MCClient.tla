------------------------------ MODULE MCClient ------------------------------
(* How a client finds the nodes of a service and picks one: the watch of    *)
(* each discovery backend, the selectors, and the breakers they keep per    *)
(* address.  Each sees only results of the others, which may be any, so     *)
(* they are explored one at a time: `part` picks the one a behaviour is     *)
(* about.  Two nodes, one that speaks both protocols and one that speaks    *)
(* gRPC only.                                                               *)
EXTENDS Discovery, FiniteSets

CONSTANTS
    both, grpcOnly,
    Calls, Addrs, MaxWeight, MaxObjects, CounterLimit,  \* Selectors
    MaxBreakers, MaxResults                             \* BreakerRegistry

ASSUME CallsCountable == IsFiniteSet(Calls) /\ MaxObjects \in Nat /\ MaxBreakers \in Nat

\* An address is not None (0).  Static weights are not negative here: for a
\* negative one effectiveWeight is 1, as for 0.
ASSUME AddressesNamed ==
    IsFiniteSet(Addrs) /\ 0 \notin Addrs /\ MaxWeight \in Nat /\ CounterLimit \in Nat \ {0}

MCSchemes == [n \in {both, grpcOnly} |-> IF n = both THEN {"grpc", "http"} ELSE {"grpc"}]

VARIABLES
    part,
    strategy, wrapped, weight, members, tripped, counter, state, made, inflight,
    call, nodes, want, chosen, obj, kept,
    breaker, breakers, user, forReq, got, recorded, owned, ended

Select == INSTANCE Selectors WITH
    Strategies <- {"random", "round_robin", "weighted", "p2c"}, Wrapped <- {TRUE}, pc <- call
Named == INSTANCE BreakerRegistry WITH
    Callers <- Calls, current <- breaker, made <- breakers, pc <- user

selectVars == <<strategy, wrapped, weight, members, tripped, counter, state, made, inflight,
                call, nodes, want, chosen, obj, kept>>
namedVars == <<breaker, breakers, user, forReq, got, recorded, owned, ended>>
allVars == <<part, vars, selectVars, namedVars>>

AllInit ==
    /\ part \in {"watch", "select", "named"}
    /\ Init /\ Select!Init /\ Named!Init
    /\ part # "watch" => backend = "etcd" /\ client = "rest" /\ Registered(status) = {}
    /\ part # "select" => strategy = "random"

AllNext ==
    \/ part = "watch" /\ Next /\ UNCHANGED <<part, selectVars, namedVars>>
    \/ part = "select" /\ Select!Next /\ UNCHANGED <<part, vars, namedVars>>
    \/ part = "named" /\ Named!Next /\ UNCHANGED <<part, vars, selectVars>>

\* The client's goroutine and its callers keep running; the registry and Close
\* owe nothing.
AllSpec ==
    /\ AllInit /\ [][AllNext]_allVars
    /\ WF_vars(part = "watch" /\ (ResolverSeed \/ HttpSeed \/ Watch))
    /\ WF_vars(part = "watch" /\ ResolverGivesUp)
    /\ WF_vars(part = "watch" /\ ReadNext) /\ WF_vars(part = "watch" /\ NextEnds)
    /\ WF_vars(part = "watch" /\ (Do \/ RoundTrip)) /\ WF_vars(part = "watch" /\ Answered)

\* The client's list settles on what the registry holds, and the watch of a
\* closed client ends (Discovery).
WatchSettles == Converges /\ CloseEndsWatch
\* What calls are judged by is complete: p2c's loads are the calls under way
\* (Selectors), and the results of a name are in one breaker (BreakerRegistry).
CallsCounted == Select!CallsCounted /\ Named!SignalInOneWindow
\* The weighted draw, and every pick is a candidate (Selectors).
SharesByWeight == Select!SharesByWeight
=============================================================================
