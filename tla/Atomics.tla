------------------------------- MODULE Atomics -------------------------------
(***************************************************************************)
(* The lock-free primitives of pkg/core/syncx that are more than one       *)
(* machine instruction: AtomicFloat64.Add, a loop of Load and              *)
(* CompareAndSwap over the bits of the value (atomic.go), and SpinLock     *)
(* (spinlock.go).  Whole numbers stand for the floats, of which only the   *)
(* equality of bits is used.                                               *)
(***************************************************************************)
EXTENDS Naturals, FiniteSets

CONSTANTS
    Procs,
    MaxValue        \* bound: the value, and what is added to it

VARIABLES
    value,          \* AtomicFloat64
    sum,            \* reference: the last Set and what was added since
    lock,           \* SpinLock.lock
    at,             \* "idle", "load", "swap"; "spin", "locked"
    delta, old      \* Add's argument and what it has loaded

vars == <<value, sum, lock, at, delta, old>>

Init ==
    /\ value = 0 /\ sum = 0 /\ lock = 0
    /\ at = [p \in Procs |-> "idle"]
    /\ delta = [p \in Procs |-> 0] /\ old = [p \in Procs |-> 0]

Goto(p, l) == at' = [at EXCEPT ![p] = l]

Add(p) ==
    /\ at[p] = "idle" /\ Goto(p, "load")
    /\ \E d \in 1..2 : delta' = [delta EXCEPT ![p] = d]
    /\ UNCHANGED <<value, sum, lock, old>>

Load(p) ==
    /\ at[p] = "load" /\ Goto(p, "swap")
    /\ old' = [old EXCEPT ![p] = value]
    /\ UNCHANGED <<value, sum, lock, delta>>

\* Add's variables end with it.
Return(p) ==
    /\ Goto(p, "idle")
    /\ delta' = [delta EXCEPT ![p] = 0] /\ old' = [old EXCEPT ![p] = 0]

\* Faulty variant: a plain store of the new value.
SwapBlind(p) ==
    /\ at[p] = "swap" /\ old[p] + delta[p] <= MaxValue
    /\ value' = old[p] + delta[p] /\ sum' = sum + delta[p] /\ Return(p)
    /\ UNCHANGED lock

\* CompareAndSwap of old and old + val: done, or round the loop once more.
Swap(p) ==
    /\ at[p] = "swap"
    /\ \/ /\ value = old[p] /\ value + delta[p] <= MaxValue
          /\ value' = value + delta[p] /\ sum' = sum + delta[p] /\ Return(p)
       \/ value # old[p] /\ Goto(p, "load") /\ UNCHANGED <<value, sum, delta, old>>
    /\ UNCHANGED lock

\* AtomicFloat64.Set, back to a value that has been there before.
Set(p) ==
    /\ at[p] = "idle" /\ value # 0
    /\ value' = 0 /\ sum' = 0
    /\ UNCHANGED <<lock, at, delta, old>>

\* Lock begins to spin; TryLock is one round of it that does not go on.
Lock(p) ==
    /\ at[p] = "idle" /\ Goto(p, "spin")
    /\ UNCHANGED <<value, sum, lock, delta, old>>

TryLock(p) ==
    /\ at[p] = "spin"
    /\ lock = 0 /\ lock' = 1 /\ Goto(p, "locked")
    /\ UNCHANGED <<value, sum, delta, old>>

Unlock(p) ==
    /\ at[p] = "locked"
    /\ lock' = 0 /\ Goto(p, "idle")
    /\ UNCHANGED <<value, sum, delta, old>>

Step(p) == Load(p) \/ Swap(p) \/ TryLock(p) \/ Unlock(p)

Next == \E p \in Procs : Add(p) \/ Set(p) \/ Lock(p) \/ Step(p)

Spec == Init /\ [][Next]_vars

------------------------------------------------------------------------------
\* No addition is lost or made twice, although a value may come back between a
\* Load and its CompareAndSwap (Set), and the spin lock has one holder exactly
\* while its word is set.
AddsCounted ==
    /\ value = sum
    /\ Cardinality({p \in Procs : at[p] = "locked"}) = lock
==============================================================================
