---------------------------- MODULE ExpiringCache ----------------------------
(***************************************************************************)
(* The expiring cache of pkg/core/collection/cache.go with its LRU list    *)
(* and the goroutine of its timing wheel (timingwheel.go).                 *)
(*                                                                         *)
(* The wheel's channels are unbuffered: an operation on it is a rendezvous *)
(* with the wheel's goroutine, possible only while that goroutine is in    *)
(* its select.  An expired key is deleted by that very goroutine, because  *)
(* the wheel's safeGo calls the task instead of starting a goroutine.      *)
(***************************************************************************)
EXTENDS Naturals, Sequences, FiniteSets, SequencesExt

CONSTANTS
    Clients, Wheel,   \* the callers of the cache and the wheel's goroutine
    Keys,
    Limit             \* WithLimit, positive

Actors == Clients \cup {Wheel}
Free == {}

VARIABLES
    data,     \* keys of c.data
    evicts,   \* klru.evicts, most recent first
    lock,     \* the holder of c.lock while it blocks inside the critical section
    timers,   \* keys with a live timer
    pc, op,   \* where each actor is and what it does
    closed    \* the wheel's stopChannel is closed

vars == <<data, evicts, lock, timers, pc, op, closed>>

\* An actor waits for c.lock ("lock"), for the wheel to take the removal of an
\* evicted key while it holds c.lock ("evict"), or for the wheel to take the
\* timer operation that ends Set and Del ("timer").  An idle wheel is in its
\* select; it is "gone" once that select has seen the stop.
Phase == {"idle", "lock", "evict", "timer", "gone"}
NoOp == [kind |-> "none"]
Op == {NoOp} \cup [kind : {"set", "move", "del"}, key : Keys, victim : Keys]

TypeOK ==
    /\ data \in SUBSET Keys /\ timers \in SUBSET Keys
    /\ evicts \in Seq(Keys)
    /\ lock \in SUBSET Actors /\ \A a \in Actors : pc[a] = "evict" => lock = {a}
    /\ pc \in [Actors -> Phase] /\ op \in [Actors -> Op]
    /\ closed \in BOOLEAN

Init ==
    /\ data = {} /\ evicts = <<>> /\ lock = Free /\ timers = {}
    /\ pc = [a \in Actors |-> "idle"]
    /\ op = [a \in Actors |-> NoOp]
    /\ closed = FALSE

-----------------------------------------------------------------------------
(* The LRU list.                                                           *)

Touched(k) == <<k>> \o RemoveFirst(evicts, k)

Begin(a, kind, k) ==
    /\ pc[a] = "idle"
    /\ pc' = [pc EXCEPT ![a] = "lock"]
    /\ op' = [op EXCEPT ![a] = [kind |-> kind, key |-> k, victim |-> k]]

Call(a) ==
    /\ \E k \in Keys, kind \in {"set", "del"} : Begin(a, kind, k)
    /\ UNCHANGED <<data, evicts, lock, timers, closed>>

\* Get on a cached key moves it to the front.
Get(k) ==
    /\ lock = Free /\ k \in data
    /\ evicts' = Touched(k)
    /\ UNCHANGED <<data, lock, timers, pc, op, closed>>

\* An eviction keeps c.lock until the wheel has taken the removal.
Evict(a) ==
    /\ lock' = {a}
    /\ pc' = [pc EXCEPT ![a] = "evict"]

NoEvict(a) ==
    /\ UNCHANGED lock
    /\ pc' = [pc EXCEPT ![a] = "timer"]

\* Faulty variant: a full list is not shortened.
SetNeverEvicts(a) ==
    LET k == op[a].key
    IN  /\ op[a].kind = "set"
        /\ evicts' = Touched(k)
        /\ data' = data \cup {k}
        /\ op' = [op EXCEPT ![a].kind = IF k \in data THEN "move" ELSE "set"]
        /\ NoEvict(a)

\* The critical section of SetWithExpire: store, list first, evict the last
\* if the list is too long; a key that was cached has its timer moved later.
SetLocked(a) ==
    LET k == op[a].key
        list == Touched(k)
        full == Len(list) > Limit
        victim == Last(list)
    IN  /\ op[a].kind = "set"
        /\ evicts' = IF full THEN Front(list) ELSE list
        /\ data' = IF full THEN (data \cup {k}) \ {victim} ELSE data \cup {k}
        /\ op' = [op EXCEPT ![a].kind = IF k \in data THEN "move" ELSE "set",
                            ![a].victim = IF full THEN victim ELSE k]
        /\ IF full THEN Evict(a) ELSE NoEvict(a)

\* The critical section of Del: klru.remove evicts the key if it is listed.
DelLocked(a) ==
    LET k == op[a].key
    IN  /\ op[a].kind = "del"
        /\ data' = data \ {k}
        /\ evicts' = RemoveFirst(evicts, k)
        /\ UNCHANGED op
        /\ IF Contains(evicts, k) THEN Evict(a) ELSE NoEvict(a)

Locked(a) ==
    /\ pc[a] = "lock" /\ lock = Free
    /\ SetLocked(a) \/ DelLocked(a)
    /\ UNCHANGED <<timers, closed>>

-----------------------------------------------------------------------------
(* The wheel.                                                              *)

\* A send on one of the wheel's channels: taken by the wheel's select, or
\* given up because the wheel is stopped (ErrClosed, which is ignored).  Once
\* stopChannel is closed both selects may still choose the command.
Send(T) == \/ pc[Wheel] = "idle" /\ timers' = T
           \/ closed /\ UNCHANGED timers

\* Faulty variant: the lock is not released after the removal.
EvictedKeepLock(a) ==
    /\ pc[a] = "evict" /\ Send(timers \ {op[a].victim})
    /\ pc' = [pc EXCEPT ![a] = "timer"]
    /\ UNCHANGED <<data, evicts, lock, op, closed>>

\* onEvict's RemoveTimer is taken; c.lock is released.
Evicted(a) ==
    /\ pc[a] = "evict" /\ Send(timers \ {op[a].victim})
    /\ pc' = [pc EXCEPT ![a] = "timer"]
    /\ lock' = Free
    /\ UNCHANGED <<data, evicts, op, closed>>

\* SetTimer, MoveTimer or RemoveTimer is taken, and the call is over.  The
\* expiry is at least the wheel's interval, so a move never executes at once.
Timer(a) ==
    /\ pc[a] = "timer"
    /\ Send(CASE op[a].kind = "set" -> timers \cup {op[a].key}
              [] op[a].kind = "move" -> timers
              [] op[a].kind = "del" -> timers \ {op[a].key})
    /\ pc' = [pc EXCEPT ![a] = "idle"]
    /\ op' = [op EXCEPT ![a] = NoOp]
    /\ UNCHANGED <<data, evicts, lock, closed>>

\* A tick fires a timer: the wheel's goroutine calls Del on the key.
Fire ==
    /\ \E k \in timers : Begin(Wheel, "del", k) /\ timers' = timers \ {k}
    /\ UNCHANGED <<data, evicts, lock, closed>>

Close ==
    /\ ~closed /\ closed' = TRUE
    /\ UNCHANGED <<data, evicts, lock, timers, pc, op>>

RunReturns ==
    /\ closed /\ pc[Wheel] = "idle"
    /\ pc' = [pc EXCEPT ![Wheel] = "gone"]
    /\ UNCHANGED <<data, evicts, lock, timers, op, closed>>

Step(a) == Locked(a) \/ Evicted(a) \/ Timer(a)

Next ==
    \/ \E a \in Clients : Call(a)
    \/ \E k \in Keys : Get(k)
    \/ \E a \in Actors : Step(a)
    \/ Fire \/ Close \/ RunReturns

Spec == Init /\ [][Next]_vars

\* Goroutines run; a goroutine waiting for the mutex or for the wheel gets it
\* if it is free again and again (both queue their waiters).
FairSpec == Spec /\ \A a \in Actors : SF_vars(Step(a))

-----------------------------------------------------------------------------
(* Properties.                                                             *)

\* The LRU list and the map hold the same keys, each once, and never more
\* than the limit, whatever Set, Del, Get, eviction and expiry do between
\* each other's critical sections.
ListMatchesData ==
    /\ ToSet(evicts) = data /\ IsInjective(evicts)
    /\ Len(evicts) <= Limit

\* Every Set and Del returns: an eviction may block on the wheel while it holds
\* the cache's lock, and still gets through.  Only a timer that fires can hold
\* a call up for good, when the wheel waits for the lock or for its own channel.
ClientsReturn ==
    \A a \in Clients : []<>(pc[a] = "idle" \/ pc[Wheel] \notin {"idle", "gone"})

\* The documented task execution: a fired task runs in a goroutine of its
\* own, so the goroutine that serves the wheel's channels never blocks on
\* them itself.
WheelServesItsChannels == pc[Wheel] \in {"evict", "timer"} => closed
=============================================================================
