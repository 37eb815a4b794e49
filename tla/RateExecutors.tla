----------------------------- MODULE RateExecutors -----------------------------
(***************************************************************************)
(* executors.DelayExecutor and executors.LessExecutor: the first runs its  *)
(* function once for the triggers of a delay, the second at most once per  *)
(* threshold, decided by a compare-and-swap.                               *)
(***************************************************************************)
EXTENDS Naturals, FiniteSets

CONSTANTS
    Callers,        \* goroutines in DoOrDiscard
    Threshold,      \* LessExecutor.threshold
    MaxTime,        \* bound: the clock
    MaxRuns         \* bound: goroutines of the DelayExecutor at a time

VARIABLES
    triggered,      \* DelayExecutor.triggered
    delayed,        \* goroutines behind their timer
    starting,       \* goroutines past the timer that have still to call fn
    owed,           \* ghost: a Trigger has seen no call of fn after it
    clock,          \* 1 is the first instant, 0 the zero lastTime
    lastTime,       \* LessExecutor.lastTime
    now, seen,      \* a caller's now, and the lastTime it loaded
    ran,            \* ghost: the times at which fn was let through
    at

delayVars == <<triggered, delayed, starting, owed>>
lessVars == <<clock, lastTime, now, seen, ran, at>>
vars == <<delayVars, lessVars>>

TypeOK ==
    /\ triggered \in BOOLEAN /\ owed \in BOOLEAN
    /\ delayed \in 0..1 /\ starting \in 0..MaxRuns
    /\ clock \in 1..MaxTime /\ lastTime \in 0..MaxTime /\ ran \subseteq 1..MaxTime
    /\ now \in [Callers -> 0..MaxTime] /\ seen \in [Callers -> 0..MaxTime]
    /\ at \in [Callers -> {"idle", "load", "swap"}]

Init ==
    /\ triggered = FALSE /\ owed = FALSE /\ delayed = 0 /\ starting = 0
    /\ clock = 1 /\ lastTime = 0 /\ ran = {}
    /\ now = [c \in Callers |-> 0] /\ seen = [c \in Callers |-> 0]
    /\ at = [c \in Callers |-> "idle"]

Trigger ==
    /\ triggered' = TRUE /\ owed' = TRUE
    /\ delayed' = IF triggered THEN delayed ELSE delayed + 1
    /\ UNCHANGED <<starting, lessVars>>

\* The timer fires and triggered is cleared, before fn is called.
TimerFires ==
    /\ delayed > 0 /\ starting < MaxRuns
    /\ triggered' = FALSE /\ delayed' = delayed - 1 /\ starting' = starting + 1
    /\ UNCHANGED <<owed, lessVars>>

CallFn ==
    /\ starting > 0
    /\ starting' = starting - 1 /\ owed' = FALSE
    /\ UNCHANGED <<triggered, delayed, lessVars>>

Goto(c, l) == at' = [at EXCEPT ![c] = l]

\* now is read once, before the loop.
DoOrDiscard(c) ==
    /\ at[c] = "idle"
    /\ now' = [now EXCEPT ![c] = clock] /\ Goto(c, "load")
    /\ UNCHANGED <<delayVars, clock, lastTime, seen, ran>>

Load(c) ==
    /\ at[c] = "load"
    /\ IF lastTime # 0 /\ lastTime + Threshold >= now[c]
       THEN Goto(c, "idle") /\ now' = [now EXCEPT ![c] = 0] /\ UNCHANGED seen
       ELSE Goto(c, "swap") /\ seen' = [seen EXCEPT ![c] = lastTime] /\ UNCHANGED now
    /\ UNCHANGED <<delayVars, clock, lastTime, ran>>

\* Faulty variant: the new time is stored, not swapped in.
StoreAnyway(c) ==
    /\ at[c] = "swap"
    /\ lastTime' = now[c] /\ ran' = ran \cup {now[c]} /\ Goto(c, "idle")
    /\ now' = [now EXCEPT ![c] = 0] /\ seen' = [seen EXCEPT ![c] = 0]
    /\ UNCHANGED <<delayVars, clock>>

CompareAndSwap(c) ==
    /\ at[c] = "swap" /\ seen' = [seen EXCEPT ![c] = 0]
    /\ IF lastTime = seen[c]
       THEN /\ lastTime' = now[c] /\ ran' = ran \cup {now[c]} /\ Goto(c, "idle")
            /\ now' = [now EXCEPT ![c] = 0]
       ELSE Goto(c, "load") /\ UNCHANGED <<lastTime, ran, now>>
    /\ UNCHANGED <<delayVars, clock>>

Tick == clock < MaxTime /\ clock' = clock + 1 /\ UNCHANGED <<delayVars, lastTime, now, seen, ran, at>>

Next ==
    \/ Trigger \/ TimerFires \/ CallFn \/ Tick
    \/ \E c \in Callers : DoOrDiscard(c) \/ Load(c) \/ CompareAndSwap(c)

Spec == Init /\ [][Next]_vars

\* Two runs let through are more than a threshold apart, however late a
\* caller with an old clock reading gets to its swap (LessExecutor); and no
\* trigger goes without a later call of fn: one is always on its way
\* (DelayExecutor clears triggered before it calls fn).
AtMostOncePerThreshold ==
    /\ \A t, u \in ran : t < u => t + Threshold < u
    /\ owed => delayed + starting > 0
=============================================================================
