----------------------------- MODULE TimingWheel -----------------------------
(***************************************************************************)
(* The timing wheel of pkg/core/collection/timingwheel.go.                 *)
(*                                                                         *)
(* One goroutine owns the wheel: a tick or an operation taken from one of  *)
(* the unbuffered channels is one step.  A key has at most one entry that  *)
(* is not marked removed, the one its positionEntry points to, and a       *)
(* removed entry is only ever dropped: the model keeps the live ones.  A   *)
(* delay is the number of whole intervals in it; 0 is a delay shorter than *)
(* one interval.                                                           *)
(***************************************************************************)
EXTENDS Integers, FiniteSets

CONSTANTS
    Keys, Values,
    NumSlots,   \* positive, as NewTimingWheel demands
    MaxDelay    \* bound on the delays callers ask for, in intervals

VARIABLES
    tickedPos,  \* the slot of the last tick
    timers,     \* keys in tw.timers
    item,       \* the entry of each key: slot, circle, diff and value
    running,    \* is the wheel's goroutine in its loop?
    stopping,   \* is stopChannel closed?
    fired,      \* ghost: keys whose task the last step executed
    owed,       \* ghost: keys that still have to fire
    due,        \* ghost: ticks until an owed key should fire, Overdue at least
    latest      \* ghost: the value last given for the key

ghosts == <<fired, owed, due, latest>>
vars == <<tickedPos, timers, item, running, stopping, ghosts>>

Slots == 0..NumSlots - 1
MaxCircle == MaxDelay \div NumSlots
Overdue == -NumSlots - 1   \* bound on due: more than a turn late

Item == [pos : Slots, circle : 0..MaxCircle, diff : Slots, value : Values]

TypeOK ==
    /\ tickedPos \in Slots
    /\ timers \in SUBSET Keys
    /\ item \in [Keys -> Item]
    /\ running \in BOOLEAN /\ stopping \in BOOLEAN
    /\ fired \in SUBSET Keys /\ owed \in SUBSET Keys
    /\ due \in [Keys -> Overdue..MaxDelay]
    /\ latest \in [Keys -> Values]

Init ==
    /\ tickedPos = NumSlots - 1
    /\ timers = {} /\ running = TRUE /\ stopping = FALSE
    /\ \E v \in Values :
         /\ item = [k \in Keys |-> [pos |-> 0, circle |-> 0, diff |-> 0, value |-> v]]
         /\ latest = [k \in Keys |-> v]
    /\ fired = {} /\ owed = {}
    /\ due = [k \in Keys |-> 0]

-----------------------------------------------------------------------------
(* getPositionAndCircle.                                                   *)

Position(d) == (tickedPos + d) % NumSlots
Circle(d) == (d - 1) \div NumSlots

\* moveTask, for a delay of at least one interval: an entry that moves forward
\* stays in its slot with a difference to make up; one that moves backward
\* does so too if it has a turn to give, else it is replaced by a new entry.
Moved(it, d) ==
    LET q == Position(d) c == Circle(d)
    IN  IF q >= it.pos
          THEN [it EXCEPT !.circle = c, !.diff = q - it.pos]
        ELSE IF c > 0
          THEN [it EXCEPT !.circle = c - 1, !.diff = NumSlots + q - it.pos]
        ELSE [it EXCEPT !.pos = q, !.circle = 0, !.diff = 0]

Schedule(k, d) ==
    /\ owed' = owed \cup {k}
    /\ due' = [due EXCEPT ![k] = d]
    /\ fired' = {}

\* Faulty variant: the entry of a known key keeps its old value.
SetTaskKeepValue(k, v, d) ==
    /\ running
    /\ timers' = timers \cup {k}
    /\ item' = [item EXCEPT ![k] =
                  IF k \in timers THEN Moved(@, d)
                  ELSE [pos |-> Position(d), circle |-> Circle(d), diff |-> 0, value |-> v]]
    /\ latest' = [latest EXCEPT ![k] = v]
    /\ Schedule(k, d)
    /\ UNCHANGED <<tickedPos, running, stopping>>

\* setTask: a known key gets the new value and is moved, an unknown one gets
\* an entry.  A delay below one interval is rounded up to it.
SetTask(k, v, d) ==
    /\ running
    /\ timers' = timers \cup {k}
    /\ item' = [item EXCEPT ![k] =
                  IF k \in timers THEN Moved([@ EXCEPT !.value = v], d)
                  ELSE [pos |-> Position(d), circle |-> Circle(d), diff |-> 0, value |-> v]]
    /\ latest' = [latest EXCEPT ![k] = v]
    /\ Schedule(k, d)
    /\ UNCHANGED <<tickedPos, running, stopping>>

SetTimer(k, v, d) == SetTask(k, v, IF d = 0 THEN 1 ELSE d)

MoveTask(k, d) ==
    /\ item' = [item EXCEPT ![k] = Moved(@, d)]
    /\ Schedule(k, d)

\* moveTask with a delay below one interval executes the task at once, and
\* leaves its entry on the wheel.
ExecuteNow(k) ==
    /\ fired' = {k} /\ owed' = owed \ {k} /\ due' = [due EXCEPT ![k] = 0]
    /\ UNCHANGED item

MoveTimer(k, d) ==
    /\ running /\ k \in timers
    /\ IF d = 0 THEN ExecuteNow(k) ELSE MoveTask(k, d)
    /\ UNCHANGED <<tickedPos, timers, running, stopping, latest>>

RemoveTimer(k) ==
    /\ running /\ k \in timers
    /\ timers' = timers \ {k} /\ owed' = owed \ {k}
    /\ due' = [due EXCEPT ![k] = 0] /\ fired' = {}
    /\ UNCHANGED <<tickedPos, item, running, stopping, latest>>

\* drainAll hands every entry to the callback.
Drain ==
    /\ running
    /\ timers' = {} /\ owed' = {} /\ fired' = {}
    /\ due' = [k \in Keys |-> 0]
    /\ UNCHANGED <<tickedPos, item, running, stopping, latest>>

-----------------------------------------------------------------------------
(* scanAndRunTasks on slot p.                                              *)

Arrives(k, p) == k \in timers /\ item[k].pos = p /\ item[k].circle = 0

Fires(k, p) == Arrives(k, p) /\ item[k].diff = 0

\* Faulty variant: the difference is not reset when the entry has moved on.
ScannedKeepDiff(k, p) ==
    IF k \in timers /\ item[k].pos = p /\ item[k].circle > 0
      THEN [item[k] EXCEPT !.circle = @ - 1]
    ELSE IF Arrives(k, p)
      THEN [item[k] EXCEPT !.pos = (p + item[k].diff) % NumSlots]
    ELSE item[k]

\* Faulty variant: an entry with turns to go is passed over as it is.
ScannedKeepTurns(k, p) ==
    IF Arrives(k, p)
      THEN [item[k] EXCEPT !.pos = (p + item[k].diff) % NumSlots, !.diff = 0]
    ELSE item[k]

\* What the scan makes of the entry of k: one turn less to go, or moved on by
\* the difference, or as it was.
Scanned(k, p) ==
    IF k \in timers /\ item[k].pos = p /\ item[k].circle > 0
      THEN [item[k] EXCEPT !.circle = @ - 1]
    ELSE IF Arrives(k, p)
      THEN [item[k] EXCEPT !.pos = (p + item[k].diff) % NumSlots, !.diff = 0]
    ELSE item[k]

\* onTick.
Tick ==
    /\ running
    /\ LET p == (tickedPos + 1) % NumSlots
           fires == {k \in Keys : Fires(k, p)}
       IN  /\ tickedPos' = p
           /\ item' = [k \in Keys |-> Scanned(k, p)]
           /\ timers' = timers \ fires
           /\ fired' = fires
           /\ owed' = owed \ fires
           /\ due' = [k \in Keys |-> IF k \notin owed THEN 0
                                     ELSE IF due[k] > Overdue THEN due[k] - 1 ELSE Overdue]
    /\ UNCHANGED <<running, stopping, latest>>

\* Stop closes the channel; the loop leaves when its select picks it.
Stop ==
    /\ ~stopping /\ stopping' = TRUE
    /\ UNCHANGED <<tickedPos, timers, item, running, ghosts>>

RunReturns ==
    /\ stopping /\ running /\ running' = FALSE
    /\ UNCHANGED <<tickedPos, timers, item, stopping, ghosts>>

Next ==
    \/ Tick \/ Drain \/ Stop \/ RunReturns
    \/ \E k \in Keys :
         \/ RemoveTimer(k)
         \/ \E d \in 0..MaxDelay : MoveTimer(k, d) \/ \E v \in Values : SetTimer(k, v, d)

Spec == Init /\ [][Next]_vars

FairSpec == Spec /\ WF_vars(Tick)

-----------------------------------------------------------------------------
(* Properties.                                                             *)

\* Ticks until the wheel fires the entry of k: the way to its slot, its turns
\* and the difference it is then moved on by.
ToSlot(p) == IF p > tickedPos THEN p - tickedPos ELSE p - tickedPos + NumSlots
Remaining(k) == ToSlot(item[k].pos) + NumSlots * item[k].circle + item[k].diff

\* Every key that still has to fire is on the wheel, and the wheel will fire
\* it in the tick it is due, or one whole turn to either side: however sets,
\* moves and ticks follow each other no task is lost or drifts further.  (That
\* the documented delay is missed by that turn is TimersOnTime.)
WithinOneTurn ==
    /\ \A k \in owed : k \in timers /\ Remaining(k) - due[k] \in {-NumSlots, 0, NumSlots}
    /\ \A k \in fired : due[k] \in {-NumSlots, 0, NumSlots}

\* The documented delay: a task fires after the delay it was last set or moved
\* to.  One that moveTask leaves in its slot may fire a turn early or late.
TimersOnTime == \A k \in fired : due[k] = 0

\* Whatever moved it, the entry on the wheel carries the value last set.
CarriesLatestValue == \A k \in timers : item[k].value = latest[k]

Reschedule(k) == \E d \in 0..MaxDelay : MoveTimer(k, d) \/ \E v \in Values : SetTimer(k, v, d)

\* A key that has to fire does so (or is removed or drained), unless it is set
\* or moved again and again, or the wheel stops.
OwedFires ==
    \A k \in Keys : []<>(k \notin owed \/ ~running) \/ []<><<Reschedule(k)>>_vars
=============================================================================
