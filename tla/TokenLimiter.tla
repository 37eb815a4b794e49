---------------------------- MODULE TokenLimiter ----------------------------
(***************************************************************************)
(* The distributed token limiter of pkg/ratelimit/tokenlimit.go: callers   *)
(* take tokens from a shared store, fall back to a local limiter when the  *)
(* store fails, and a monitor goroutine brings the store back.             *)
(*                                                                         *)
(* alive is an atomic, monitorStarted is protected by l.mu: every access   *)
(* to one of them is a step of its own.  The local limiter's verdict does  *)
(* not touch this state and ends the call.                                 *)
(***************************************************************************)
EXTENDS Naturals, FiniteSets

CONSTANTS
    Callers,     \* goroutines that call AllowContext
    MaxMonitors  \* bound on the monitor goroutines counted per phase

ASSUME LimiterAssumption == MaxMonitors \in Nat \ {0}

VARIABLES
    alive,           \* l.alive
    monitorStarted,  \* l.monitorStarted
    monitors,        \* number of monitor goroutines in each MonitorPhase
    pc,              \* where each caller is, see Phase
    closed,          \* is l.stop closed?
    up               \* does the store answer?

vars == <<alive, monitorStarted, monitors, pc, closed, up>>

\* A caller is inside store.TakeTokens ("take"), has got its error ("failed"),
\* or has won the compare-and-swap and wants l.mu ("lock").
Phase == {"idle", "take", "failed", "lock"}

\* A monitor waits for its timer and pings ("probe"), has had an answer
\* ("recovered"), or has cleared monitorStarted ("cleared").
MonitorPhase == {"probe", "recovered", "cleared"}

TypeOK ==
    /\ alive \in BOOLEAN /\ monitorStarted \in BOOLEAN
    /\ monitors \in [MonitorPhase -> 0..MaxMonitors]
    /\ ~monitorStarted => monitors["probe"] = 0 /\ monitors["recovered"] = 0
    /\ pc \in [Callers -> Phase]
    /\ closed \in BOOLEAN /\ up \in BOOLEAN

Init ==
    /\ alive = TRUE /\ monitorStarted = FALSE
    /\ monitors = [m \in MonitorPhase |-> 0]
    /\ pc = [c \in Callers |-> "idle"]
    /\ closed = FALSE /\ up \in BOOLEAN

-----------------------------------------------------------------------------
(* AllowContext.                                                           *)

Goto(c, phase) == pc' = [pc EXCEPT ![c] = phase]

\* The store is asked only while it is taken for alive; otherwise the local
\* limiter decides and nothing changes.
AllowContext(c) ==
    /\ pc[c] = "idle" /\ alive
    /\ Goto(c, "take")
    /\ UNCHANGED <<alive, monitorStarted, monitors, closed, up>>

\* TakeTokens answers if the store is up.  It fails if the store is down, and
\* also when the caller's own ctx is canceled.
TakeTokens(c) ==
    /\ pc[c] = "take"
    /\ (up /\ Goto(c, "idle")) \/ Goto(c, "failed")
    /\ UNCHANGED <<alive, monitorStarted, monitors, closed, up>>

\* markDown up to the mutex: one caller wins the compare-and-swap.
MarkDown(c) ==
    /\ pc[c] = "failed"
    /\ Goto(c, IF alive THEN "lock" ELSE "idle")
    /\ alive' = FALSE
    /\ UNCHANGED <<monitorStarted, monitors, closed, up>>

\* The critical section of markDown.
StartMonitor(c) ==
    /\ pc[c] = "lock"
    /\ Goto(c, "idle")
    /\ monitorStarted' = TRUE
    /\ IF monitorStarted THEN UNCHANGED monitors
       ELSE monitors["probe"] < MaxMonitors /\ monitors' = [monitors EXCEPT !["probe"] = @ + 1]
    /\ UNCHANGED <<alive, closed, up>>

-----------------------------------------------------------------------------
(* monitor and Close.                                                      *)

Advance(m, n) ==
    /\ monitors[m] > 0 /\ monitors[n] < MaxMonitors
    /\ monitors' = [monitors EXCEPT ![m] = @ - 1, ![n] = @ + 1]

Exit(m) == monitors[m] > 0 /\ monitors' = [monitors EXCEPT ![m] = @ - 1]

\* A ping is answered (one that is not leaves the monitor where it is).
PingOK ==
    /\ up /\ Advance("probe", "recovered")
    /\ UNCHANGED <<alive, monitorStarted, pc, closed, up>>

\* Faulty variant: monitorStarted is left set.
ClearStartedNot ==
    /\ Advance("recovered", "cleared")
    /\ UNCHANGED <<alive, monitorStarted, pc, closed, up>>

ClearStarted ==
    /\ Advance("recovered", "cleared")
    /\ monitorStarted' = FALSE
    /\ UNCHANGED <<alive, pc, closed, up>>

MarkAlive ==
    /\ Exit("cleared")
    /\ alive' = TRUE
    /\ UNCHANGED <<monitorStarted, pc, closed, up>>

\* Faulty variant: the stop channel is looked at only while the store answers.
MonitorStopsIfUp ==
    /\ closed /\ up /\ Exit("probe")
    /\ UNCHANGED <<alive, monitorStarted, pc, closed, up>>

\* The select finds l.stop closed; monitorStarted stays set.
MonitorStops ==
    /\ closed /\ Exit("probe")
    /\ UNCHANGED <<alive, monitorStarted, pc, closed, up>>

Close ==
    /\ ~closed /\ closed' = TRUE
    /\ UNCHANGED <<alive, monitorStarted, monitors, pc, up>>

\* The store fails and comes back.
StoreChange ==
    /\ up' = ~up
    /\ UNCHANGED <<alive, monitorStarted, monitors, pc, closed>>

CallStep(c) == TakeTokens(c) \/ MarkDown(c) \/ StartMonitor(c)
MonitorStep == PingOK \/ ClearStarted \/ MarkAlive \/ MonitorStops

Next ==
    \/ \E c \in Callers : AllowContext(c) \/ CallStep(c)
    \/ MonitorStep
    \/ Close \/ StoreChange

Spec == Init /\ [][Next]_vars

\* A call runs to its end and a monitor keeps probing; its select takes the
\* closed channel in the end (the timer is not ready right after Reset).
FairSpec ==
    /\ Spec
    /\ \A c \in Callers : WF_vars(CallStep(c))
    /\ WF_vars(PingOK) /\ WF_vars(ClearStarted) /\ WF_vars(MarkAlive) /\ WF_vars(MonitorStops)

-----------------------------------------------------------------------------
(* Properties.                                                             *)

Starting == {c \in Callers : pc[c] = "lock"}
Running == monitors["probe"] + monitors["recovered"] + monitors["cleared"]

\* One outage has one monitor: however failures, late failures of an earlier
\* outage and recoveries interleave, at most one goroutine probes the store,
\* and nobody starts a second one beside it.
OneMonitor == Running + Cardinality(Starting) <= 1

\* A degraded limiter always has someone to bring it back: a monitor, or the
\* caller about to start one.  Only Close may leave it degraded for good.
NeverStranded == ~alive => closed \/ Running > 0 \/ Starting # {}

\* Once the store stays up the limiter keeps coming back to it, whatever
\* canceled calls still throw it off, unless it is closed.
ComesBack == <>[]up => []<>(alive \/ closed)

\* After Close no monitor survives, even if the store never recovers.
CloseEndsMonitors == []<>(~closed \/ Running = 0)
=============================================================================
