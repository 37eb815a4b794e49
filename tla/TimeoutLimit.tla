----------------------------- MODULE TimeoutLimit -----------------------------
(***************************************************************************)
(* syncx.TimeoutLimit: limit.Limit's slots, and a Cond whose unbuffered    *)
(* channel wakes a borrower only if one is already receiving.              *)
(***************************************************************************)
EXTENDS Naturals, FiniteSets

CONSTANTS
    Callers,
    Limit           \* NewTimeoutLimit(n)

VARIABLES
    pool,           \* elements in limit.Limit's channel
    left,           \* whether a caller has any of its timeout left
    at

vars == <<pool, left, at>>

TypeOK ==
    /\ pool \in 0..Limit /\ left \in [Callers -> BOOLEAN]
    /\ at \in [Callers -> {"idle", "loop", "wait", "signalled", "timedOut", "held", "signal"}]

Init ==
    /\ pool = 0 /\ left = [c \in Callers |-> TRUE] /\ at = [c \in Callers |-> "idle"]

Goto(c, l) == at' = [at EXCEPT ![c] = l]

\* TryBorrow: to "held" with a slot, elsewhere without.
TryBorrow(c, otherwise) ==
    \/ pool < Limit /\ pool' = pool + 1 /\ Goto(c, "held")
    \/ pool = Limit /\ Goto(c, otherwise) /\ UNCHANGED pool

Borrow(c) ==
    /\ at[c] = "idle"
    /\ TryBorrow(c, "loop") /\ left' = [left EXCEPT ![c] = TRUE]

\* WaitWithTimeout starts receiving.
Wait(c) == at[c] = "loop" /\ Goto(c, "wait") /\ UNCHANGED <<pool, left>>

\* The timer fires, or no time is left: ErrTimeout.
TimesOut(c) ==
    /\ \/ at[c] = "wait"
       \/ at[c] = "loop" /\ ~left[c]
    /\ Goto(c, "idle") /\ left' = [left EXCEPT ![c] = TRUE]
    /\ UNCHANGED pool

\* Faulty variant: the signal is taken for the slot.
SignalledHolds(c) == at[c] = "signalled" /\ Goto(c, "held") /\ UNCHANGED <<pool, left>>

\* A signal is no slot: another borrower may be faster.
Signalled(c) ==
    /\ at[c] = "signalled"
    /\ TryBorrow(c, IF left[c] THEN "loop" ELSE "idle")
    /\ UNCHANGED left

\* Return gives the slot back first and signals in a second step.
Return(c) ==
    /\ at[c] = "held" /\ pool > 0
    /\ pool' = pool - 1 /\ Goto(c, "signal") /\ UNCHANGED left

\* Some receiver gets the signal, at the last moment perhaps; with no
\* receiver it is gone.
Signal(c) ==
    /\ at[c] = "signal"
    /\ \/ \E w \in Callers :
            /\ at[w] = "wait"
            /\ at' = [at EXCEPT ![c] = "idle", ![w] = "signalled"]
            /\ left' \in {left, [left EXCEPT ![w] = FALSE]}
       \/ /\ \A w \in Callers : at[w] # "wait"
          /\ Goto(c, "idle") /\ UNCHANGED left
    /\ UNCHANGED pool

Step(c) == Wait(c) \/ TimesOut(c) \/ Signalled(c) \/ Signal(c)
Next == \E c \in Callers : Borrow(c) \/ Return(c) \/ Step(c)
Spec == Init /\ [][Next]_vars

\* Exactly the borrowers that returned nil hold slots, never more than n,
\* although the signal and the slot travel apart (Borrow, Return).
SlotsMatchHolders == pool = Cardinality({c \in Callers : at[c] = "held"})
=============================================================================
