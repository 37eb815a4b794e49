---------------------------- MODULE MCConcurrency ----------------------------
(* The discovery cache and the concurrency toolkit of pkg/core: the flight  *)
(* group as the cache and Cache.Take use it, the batching executor, the     *)
(* other syncx primitives, the rate executors and MapReduce.  They share    *)
(* nothing: `part` picks the one a behaviour is about and the others stay   *)
(* as they begin.  The node TTL ends before the service TTL, as in the      *)
(* cache's defaults.  Three tasks are a full batch and a rest, and a second *)
(* flusher starts while the first one leaves; three items are more than the *)
(* two workers.                                                             *)
EXTENDS RegistryCache

CONSTANTS
    Tasks, Waiters, Flushers, Large, MaxTasks,   \* PeriodicalExecutor
    Four, Trio, Pair, NoOne,                     \* callers, and none of them
    MaxLoads,                                    \* CacheTake
    PoolLimit, SlotLimit,                        \* Pool, TimeoutLimit
    Threshold, MaxTime, MaxRuns,                 \* RateExecutors
    Items, Workers,                              \* MapReduce
    MaxValue                                     \* Atomics

ASSUME CallersFinite == IsFiniteSet(Four) /\ IsFiniteSet(Trio) /\ IsFiniteSet(Pair)
ASSUME NoOneIsNobody == NoOne \notin Trio
ASSUME LimitsAreNumbers ==
    PoolLimit \in Nat /\ SlotLimit \in Nat /\ Threshold \in Nat /\ Items \in Nat /\ Workers \in Nat

VARIABLES
    part,
    container, add, batch, commander, inflight, guarded, flusher, vals, commanded, wg, running,
    done,
    data, flight, joined, ended, out, loads, removals, taker,
    holder, awaited, over, ownRan, locker,
    created, idle, held, waiting, woken, lost,
    borrowed, left, borrower,
    triggered, delayed, starting, owed, clock, lastTime, now, seen, ran, discarder,
    forEach, ctxDone, generator, sent, executor, mapper, failed, collector, collectorClosed,
    got, reducer, caller, once, cancelled, finished, wrote, userPanic,
    value, sum, lock, proc, delta, old

Batching == INSTANCE PeriodicalExecutor WITH pc <- flusher
Taking == INSTANCE CacheTake WITH Callers <- Trio, at <- taker
Locked == INSTANCE LockedCalls WITH Callers <- Trio, ran <- ownRan, at <- locker
Resources == INSTANCE Pool WITH Callers <- Four, Limit <- PoolLimit
Slots == INSTANCE TimeoutLimit WITH Callers <- Trio, Limit <- SlotLimit, pool <- borrowed, at <- borrower
Rate == INSTANCE RateExecutors WITH Callers <- Pair, at <- discarder
Reduce == INSTANCE MapReduce
Atomic == INSTANCE Atomics WITH Procs <- Pair, at <- proc

batchVars == <<container, add, batch, commander, inflight, guarded, flusher, vals, commanded, wg,
               running, done>>
takeVars == <<data, flight, joined, ended, out, loads, removals, taker>>
lockedVars == <<holder, awaited, over, ownRan, locker>>
resourceVars == <<created, idle, held, waiting, woken, lost>>
slotVars == <<borrowed, left, borrower>>
rateVars == <<triggered, delayed, starting, owed, clock, lastTime, now, seen, ran, discarder>>
reduceVars == <<forEach, ctxDone, generator, sent, executor, mapper, failed, collector,
                collectorClosed, got, reducer, caller, once, cancelled, finished, wrote, userPanic>>
atomicVars == <<value, sum, lock, proc, delta, old>>
allVars == <<part, vars, batchVars, takeVars, lockedVars, resourceVars, slotVars, rateVars, reduceVars,
             atomicVars>>

AllInit ==
    /\ part \in {"cache", "executor", "take", "locked", "resources", "slots", "rate", "reduce", "atomic"}
    /\ Init /\ Batching!Init /\ Taking!Init /\ Locked!Init /\ Resources!Init /\ Slots!Init /\ Rate!Init
    /\ Reduce!Init /\ Atomic!Init
    /\ part # "cache" => registry = {} /\ ~up
    /\ part # "reduce" => ~forEach

AllNext ==
    \/ /\ part = "cache" /\ Next
       /\ UNCHANGED <<part, batchVars, takeVars, lockedVars, resourceVars, slotVars, rateVars, reduceVars, atomicVars>>
    \/ /\ part = "executor" /\ Batching!Next
       /\ UNCHANGED <<part, vars, takeVars, lockedVars, resourceVars, slotVars, rateVars, reduceVars, atomicVars>>
    \/ /\ part = "take" /\ Taking!Next
       /\ UNCHANGED <<part, vars, batchVars, lockedVars, resourceVars, slotVars, rateVars, reduceVars, atomicVars>>
    \/ /\ part = "locked" /\ Locked!Next
       /\ UNCHANGED <<part, vars, batchVars, takeVars, resourceVars, slotVars, rateVars, reduceVars, atomicVars>>
    \/ /\ part = "resources" /\ Resources!Next
       /\ UNCHANGED <<part, vars, batchVars, takeVars, lockedVars, slotVars, rateVars, reduceVars, atomicVars>>
    \/ /\ part = "slots" /\ Slots!Next
       /\ UNCHANGED <<part, vars, batchVars, takeVars, lockedVars, resourceVars, rateVars, reduceVars, atomicVars>>
    \/ /\ part = "rate" /\ Rate!Next
       /\ UNCHANGED <<part, vars, batchVars, takeVars, lockedVars, resourceVars, slotVars, reduceVars, atomicVars>>
    \/ /\ part = "reduce" /\ Reduce!Next
       /\ UNCHANGED <<part, vars, batchVars, takeVars, lockedVars, resourceVars, slotVars, rateVars, atomicVars>>
    \/ /\ part = "atomic" /\ Atomic!Next
       /\ UNCHANGED <<part, vars, batchVars, takeVars, lockedVars, resourceVars, slotVars, rateVars, reduceVars>>

\* The fairness of FairSpec of RegistryCache and PeriodicalExecutor and of the
\* Specs of CacheTake, LockedCalls and MapReduce: clients of the discovery cache
\* keep asking and time passes, goroutines run and the user's functions return.
AllSpec ==
    /\ AllInit /\ [][AllNext]_allVars
    /\ \A c \in Callers : WF_vars(part = "cache" /\ GetService(c)) /\ WF_vars(part = "cache" /\ FetchStep(c))
    /\ WF_vars(part = "cache" /\ Tick)
    /\ WF_batchVars(part = "executor" /\ \E t \in Tasks : Batching!Send(t) \/ Batching!Execute(t))
    /\ WF_batchVars(part = "executor" /\ \E t \in Tasks, f \in Flushers : Batching!Confirm(t, f))
    /\ WF_batchVars(part = "executor" /\ \E f \in Flushers : Batching!TickerCase(f) \/ Batching!ShallQuit(f))
    /\ SF_batchVars(part = "executor" /\ \E f \in Flushers : Batching!Take(f))
    /\ \A w \in Waiters : WF_batchVars(part = "executor" /\ (Batching!TakeBarrier(w) \/ Batching!WaitReturns(w)))
    /\ \A p \in Flushers \cup Waiters : WF_batchVars(part = "executor" /\ Batching!Step(p))
    /\ \A c \in Trio :
         /\ WF_takeVars(part = "take" /\ Taking!Step(c))
         /\ WF_lockedVars(part = "locked" /\ Locked!Step(c))
    /\ WF_reduceVars(part = "reduce" /\ Reduce!GeneratorReturns)
    /\ WF_reduceVars(part = "reduce" /\ Reduce!DrainSource)
    /\ WF_reduceVars(part = "reduce" /\ Reduce!ExecutorStep)
    /\ WF_reduceVars(part = "reduce" /\ Reduce!ReducerStep)
    /\ WF_reduceVars(part = "reduce" /\ Reduce!CallerStep)
    /\ \A i \in 1..Items : WF_reduceVars(part = "reduce" /\ Reduce!MapperStep(i))

\* Every task is in one place (PeriodicalExecutor).
ExactlyOnePlace == Batching!ExactlyOnePlace

\* What each primitive of syncx and each rate executor promises: one fetch
\* between two removals (cache.go:108), one function of a key at a time
\* (lockedcalls.go), a waiter of the resource pool never left beside a free
\* resource (pool.go), borrowed slots that are the held ones
\* (timeoutlimit.go), additions that are all there (atomic.go), and calls of a LessExecutor further apart than its
\* threshold while a triggered DelayExecutor still has its run to come.
PrimitivesHold ==
    /\ Taking!LoadsOnce /\ Locked!RunsAlone /\ Resources!NoLostWakeup
    /\ Slots!SlotsMatchHolders /\ Rate!AtMostOncePerThreshold /\ Atomic!AddsCounted

\* A reducer that reads to the end has every output (MapReduce).
PipeComplete == Reduce!PipeComplete

\* Whoever calls comes back: every Add with its task executed
\* (PeriodicalExecutor), every Take, panicking fetches included (CacheTake),
\* somebody of those who contend for a key (LockedCalls), and a MapReduce
\* call with all the goroutines it started (MapReduce).
CallersReturn ==
    /\ Batching!AllExecuted /\ Taking!TakeReturns /\ Locked!SomeoneRuns
    /\ <>[](part = "reduce" => userPanic \/ Reduce!Over)
=============================================================================
