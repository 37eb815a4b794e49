------------------------------- MODULE Shedder -------------------------------
(***************************************************************************)
(* The adaptive load shedder of pkg/resilience/shedder.go.  The CPU load   *)
(* is above or below the threshold; avgFlying, the derived maximum in      *)
(* flight and the overload factor are floating-point estimates of which    *)
(* only this is used: their product is positive, so that a request is shed *)
(* only while at least one other is in flight.                             *)
(***************************************************************************)
EXTENDS Naturals, FiniteSets

CONSTANTS
    Callers,
    CoolOff     \* coolOffDuration, in ticks

VARIABLES
    cpuHigh,         \* stat.CpuUsage() >= cpuThreshold
    inFlight,        \* as.flying
    overloadTime,    \* has overloadTime been stored?
    sinceOverload,   \* time since then, saturating at CoolOff
    droppedRecently,
    step             \* where each request is

vars == <<cpuHigh, inFlight, overloadTime, sinceOverload, droppedRecently, step>>

TypeOK ==
    /\ cpuHigh \in BOOLEAN /\ overloadTime \in BOOLEAN /\ droppedRecently \in BOOLEAN
    /\ inFlight \in 0..Cardinality(Callers)
    /\ sinceOverload \in 0..CoolOff
    /\ step \in [Callers -> {"idle", "hot", "highThru", "drop", "admit", "in"}]

Init ==
    /\ cpuHigh \in BOOLEAN
    /\ inFlight = 0
    /\ overloadTime = FALSE /\ sinceOverload = 0 /\ droppedRecently = FALSE
    /\ step = [c \in Callers |-> "idle"]

Goto(c, l) == step' = [step EXCEPT ![c] = l]

systemOverloaded(c) ==
    /\ step[c] = "idle"
    /\ IF cpuHigh
         THEN Goto(c, "highThru") /\ overloadTime' = TRUE /\ sinceOverload' = 0
         ELSE Goto(c, "hot") /\ UNCHANGED <<overloadTime, sinceOverload>>
    /\ UNCHANGED <<cpuHigh, inFlight, droppedRecently>>

Hot == droppedRecently /\ overloadTime /\ sinceOverload < CoolOff

\* Faulty variant: a hot shedder counts as overloaded again.
stillHotRenews(c) ==
    /\ step[c] = "hot"
    /\ Goto(c, IF Hot THEN "highThru" ELSE "admit")
    /\ sinceOverload' = IF Hot THEN 0 ELSE sinceOverload
    /\ droppedRecently' = (droppedRecently /\ (Hot \/ ~overloadTime))
    /\ UNCHANGED <<cpuHigh, inFlight, overloadTime>>

\* The memory of a drop fades after the cool-off period.
stillHot(c) ==
    /\ step[c] = "hot"
    /\ Goto(c, IF Hot THEN "highThru" ELSE "admit")
    /\ droppedRecently' = (droppedRecently /\ (Hot \/ ~overloadTime))
    /\ UNCHANGED <<cpuHigh, inFlight, overloadTime, sinceOverload>>

highThru(c) ==
    /\ step[c] = "highThru"
    /\ Goto(c, "admit") \/ (inFlight > 0 /\ Goto(c, "drop"))
    /\ UNCHANGED <<cpuHigh, inFlight, overloadTime, sinceOverload, droppedRecently>>

Drop(c) ==
    /\ step[c] = "drop"
    /\ droppedRecently' = TRUE
    /\ Goto(c, "idle")
    /\ UNCHANGED <<cpuHigh, inFlight, overloadTime, sinceOverload>>

Allow(c) ==
    /\ step[c] = "admit"
    /\ inFlight' = inFlight + 1
    /\ Goto(c, "in")
    /\ UNCHANGED <<cpuHigh, overloadTime, sinceOverload, droppedRecently>>

\* Pass or Fail, deferred, so after a panic as well.
Finish(c) ==
    /\ step[c] = "in"
    /\ inFlight' = inFlight - 1
    /\ Goto(c, "idle")
    /\ UNCHANGED <<cpuHigh, overloadTime, sinceOverload, droppedRecently>>

Step(c) ==
    stillHot(c) \/ highThru(c) \/ Drop(c) \/ Allow(c) \/ Finish(c)

Tick ==
    /\ sinceOverload < CoolOff
    /\ sinceOverload' = sinceOverload + 1
    /\ UNCHANGED <<cpuHigh, inFlight, overloadTime, droppedRecently, step>>

CpuChange ==
    /\ cpuHigh' = ~cpuHigh
    /\ UNCHANGED <<inFlight, overloadTime, sinceOverload, droppedRecently, step>>

Next ==
    \/ \E c \in Callers : systemOverloaded(c) \/ Step(c)
    \/ Tick
    \/ CpuChange

Spec == Init /\ [][Next]_vars

-----------------------------------------------------------------------------
\* Once the load stays low shedding ends for good, however many requests were
\* deciding, being shed or in flight when it fell, and the counter it decides by
\* is at any time the number of requests inside.
SheddingEnds ==
    /\ <>[]~cpuHigh => <>[](\A c \in Callers : step[c] # "drop")
    /\ [](inFlight = Cardinality({c \in Callers : step[c] = "in"}))
=============================================================================
