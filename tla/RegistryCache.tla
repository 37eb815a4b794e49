---------------------------- MODULE RegistryCache ----------------------------
(***************************************************************************)
(* The read-through discovery cache of pkg/registry/cache/cache.go, for    *)
(* one service name (every map of the cache is keyed by the name, and the  *)
(* flight group too).                                                      *)
(*                                                                         *)
(* The clock only enters through differences that are compared with the    *)
(* TTLs, so the expiry times are ages that saturate once nothing changes   *)
(* any more: all of a snapshot's expiry times are set in one critical      *)
(* section, so one age serves the service TTL and the node TTLs.           *)
(***************************************************************************)
EXTENDS Naturals, FiniteSets

CONSTANTS
    Callers,           \* goroutines that call GetService
    Nodes,             \* instance IDs of the service
    TTL, NodeTTL, MinRetryInterval   \* Options, in ticks

ASSUME CacheAssumption == {TTL, NodeTTL, MinRetryInterval} \subseteq Nat

MaxAge == IF TTL > NodeTTL THEN TTL + 1 ELSE NodeTTL + 1

VARIABLES
    known,     \* is there an entry c.cache[name]?
    insts,     \* c.cache[name]
    nttls,     \* the node IDs in c.nttls[name]
    age,       \* ticks since the snapshot was stored
    sinceTry,  \* ticks since c.lastRefresh[name]; saturated when there is none
    pc,        \* where each caller is, see Phase
    answer,    \* what the registry told each caller that asked it
    result,    \* ghost: what the last GetService to finish returned
    registry,  \* the nodes the registry holds
    up         \* does the registry answer?

cacheVars == <<known, insts, nttls, age, sinceTry>>
vars == <<cacheVars, pc, answer, result, registry, up>>

\* "idle"; the leader of the flight is before fetch's first critical section
\* ("check"), inside Discovery.GetService ("remote") or back from it
\* ("answered"); everybody else waits for the leader.
Phase == {"idle", "check", "remote", "answered", "wait"}

Failed == [ok |-> FALSE, insts |-> {}]
Answer == [ok : BOOLEAN, insts : SUBSET Nodes]

\* How a result came about: from the cache, from the registry, from the cache
\* because the registry failed, or not at all.
Result == [how : {"none", "cached", "fresh", "degraded", "error"}, insts : SUBSET Nodes]

TypeOK ==
    /\ known \in BOOLEAN
    /\ insts \in SUBSET Nodes /\ nttls \in SUBSET insts
    /\ age \in 0..MaxAge /\ sinceTry \in 0..MinRetryInterval
    /\ pc \in [Callers -> Phase]
    /\ answer \in [Callers -> Answer]
    /\ result \in Result
    /\ registry \in SUBSET Nodes /\ up \in BOOLEAN

Init ==
    /\ known = FALSE /\ insts = {} /\ nttls = {}
    /\ age = MaxAge /\ sinceTry = MinRetryInterval
    /\ pc = [c \in Callers |-> "idle"]
    /\ answer = [c \in Callers |-> Failed]
    /\ result = [how |-> "none", insts |-> {}]
    /\ registry \in SUBSET Nodes /\ up \in BOOLEAN

-----------------------------------------------------------------------------
Leaders == {c \in Callers : pc[c] \in {"check", "remote", "answered"}}

\* Faulty variant: every caller does its own fetch (no singleflight).
DoAlone(c) == pc' = [pc EXCEPT ![c] = "check"]

\* sg.Do: the first caller leads a flight, the others join it.
Do(c) == pc' = [pc EXCEPT ![c] = IF Leaders = {} THEN "check" ELSE "wait"]

GetService(c) ==
    /\ pc[c] = "idle"
    /\ Do(c)
    /\ UNCHANGED <<cacheVars, answer, result, registry, up>>

\* The flight ends: its leader and all who joined return the same value.
Deliver(how, S) ==
    /\ pc' = [c \in Callers |-> "idle"]
    /\ answer' = [c \in Callers |-> Failed]
    /\ result' = [how |-> how, insts |-> S]

\* Faulty variant: a snapshot stays valid for ever.
isValidForever == known

isValid == known /\ age <= TTL
isThrottled == insts # {} /\ sinceTry < MinRetryInterval

\* The nodes whose own TTL is over, as far as the node-TTL map still knows.
Expired == IF age > NodeTTL THEN insts \cap nttls ELSE {}

\* Faulty variant: a node already expires in its last tick.
PruneTooMuch == /\ Deliver("cached", IF age >= NodeTTL THEN insts \ nttls ELSE insts)
                /\ nttls' = IF age >= NodeTTL THEN nttls \ insts ELSE nttls

\* pruneExpiredNodes drops the expired nodes from the result and from the
\* node-TTL map, but leaves them in the snapshot.
PruneExpiredNodes == Deliver("cached", insts \ Expired) /\ nttls' = nttls \ Expired

\* fetch up to the registry call: answer from the cache, or go and ask.
Check(c) ==
    /\ pc[c] = "check"
    /\ \/ /\ isValid \/ isThrottled
          /\ PruneExpiredNodes
          /\ UNCHANGED <<known, insts, age, sinceTry>>
       \/ /\ ~(isValid \/ isThrottled)
          /\ pc' = [pc EXCEPT ![c] = "remote"]
          /\ UNCHANGED <<cacheVars, answer, result>>
    /\ UNCHANGED <<registry, up>>

\* Discovery.GetService returns the registry's nodes, or an error.
Remote(c) ==
    /\ pc[c] = "remote"
    /\ pc' = [pc EXCEPT ![c] = "answered"]
    /\ answer' = [answer EXCEPT ![c] = IF up THEN [ok |-> TRUE, insts |-> registry] ELSE Failed]
    /\ UNCHANGED <<cacheVars, result, registry, up>>

\* Faulty variant: a failed refresh drops the snapshot it could not replace.
StoreFailureForget(c) ==
    /\ ~answer[c].ok
    /\ Deliver("error", {})
    /\ known' = FALSE /\ insts' = {} /\ nttls' = {}
    /\ UNCHANGED age

\* fetch after a failed call: the last snapshot if it has nodes, else the error.
StoreFailure(c) ==
    /\ ~answer[c].ok
    /\ IF insts # {} THEN Deliver("degraded", insts) ELSE Deliver("error", {})
    /\ UNCHANGED <<known, insts, nttls, age>>

\* fetch after a successful call: a new snapshot with new expiry times.
StoreSuccess(c) ==
    /\ answer[c].ok
    /\ Deliver("fresh", answer[c].insts)
    /\ known' = TRUE /\ insts' = answer[c].insts /\ nttls' = answer[c].insts
    /\ age' = 0

Store(c) ==
    /\ pc[c] = "answered"
    /\ sinceTry' = 0
    /\ StoreFailure(c) \/ StoreSuccess(c)
    /\ UNCHANGED <<registry, up>>

-----------------------------------------------------------------------------
Tick ==
    /\ age < MaxAge \/ sinceTry < MinRetryInterval
    /\ age' = IF age < MaxAge THEN age + 1 ELSE age
    /\ sinceTry' = IF sinceTry < MinRetryInterval THEN sinceTry + 1 ELSE sinceTry
    /\ UNCHANGED <<known, insts, nttls, pc, answer, result, registry, up>>

\* Instances come and go, the registry fails and comes back.
RegistryChange ==
    /\ \/ registry' \in SUBSET Nodes \ {registry} /\ up' = up
       \/ up' = ~up /\ UNCHANGED registry
    /\ UNCHANGED <<cacheVars, pc, answer, result>>

FetchStep(c) == Check(c) \/ Remote(c) \/ Store(c)

Next ==
    \/ \E c \in Callers : GetService(c) \/ FetchStep(c)
    \/ Tick
    \/ RegistryChange

Spec == Init /\ [][Next]_vars

\* Clients keep asking, a flight makes progress (Discovery.GetService returns
\* or fails), time passes.
FairSpec ==
    /\ Spec
    /\ \A c \in Callers : WF_vars(GetService(c)) /\ WF_vars(FetchStep(c))
    /\ WF_vars(Tick)

-----------------------------------------------------------------------------
(* Properties.                                                             *)

\* A flight ends in this step.
Returning == \E c \in Leaders : pc'[c] = "idle"

\* However many callers arrive at once, at most one of them is asking the
\* registry, and nobody waits unless somebody leads.
OneFlight ==
    /\ Cardinality(Leaders) <= 1
    /\ Leaders = {} => \A c \in Callers : pc[c] = "idle"

\* A caller only ever sees the registry's error when the cache holds no node
\* to fall back on: no sequence of failures, expiries and prunings loses the
\* last snapshot.
ErrorOnlyWithoutSnapshot ==
    [][Returning /\ result'.how = "error" => insts = {} /\ insts' = {}]_vars

\* As long as their own TTL runs, the nodes of the snapshot are all served:
\* an answer from the cache is the whole snapshot, not a part of it.
FreshNodesServed ==
    [][Returning /\ result'.how = "cached" /\ age <= NodeTTL => result'.insts = insts]_vars

\* Once the registry stays up and its nodes stay what they are, the snapshot
\* becomes that set and stays it: staleness is bounded by the TTLs and the
\* throttle, whatever failed or was pruned before.
ConvergesToRegistry ==
    (<>[]up /\ <>[][UNCHANGED registry]_vars) => <>[](known /\ insts = registry)
=============================================================================
