-------------------------------- MODULE Rings --------------------------------
(***************************************************************************)
(* The circular buffers of pkg/core/collection: Queue (fifo.go), which     *)
(* moves to a larger array when it is full, and Ring (ring.go), which      *)
(* overwrites its oldest element.  Every operation runs under the lock.    *)
(* Go's indexes count from 0, a cell of TLA+'s sequences is one more.      *)
(***************************************************************************)
EXTENDS Naturals, Sequences

CONSTANTS
    MaxSize,            \* bound: initial sizes
    GrowThreshold,      \* queueGrowThreshold (256)
    MaxPuts             \* bound: elements ever put

VARIABLES
    kind,               \* "queue", "ring"
    elements,           \* the array, Nothing where there is no element
    head, tail, count,  \* of the queue
    index,              \* of the ring
    puts,               \* elements put so far; they are 1, 2, ...
    held                \* history: the elements held, oldest first

vars == <<kind, elements, head, tail, count, index, puts, held>>

Nothing == 0

Init ==
    /\ kind \in {"queue", "ring"}
    /\ \E size \in 1..MaxSize : elements = [k \in 1..size |-> Nothing]
    /\ head = 0 /\ tail = 0 /\ count = 0 /\ index = 0
    /\ puts = 0 /\ held = << >>

\* Doubles, then grows by about a quarter.
nextQueueCapacity(capacity) ==
    IF capacity < GrowThreshold THEN 2 * capacity
    ELSE capacity + (capacity + 3 * GrowThreshold) \div 4

\* Faulty: the array as it is.
RegrownInPlace == elements \o [k \in 1..(nextQueueCapacity(Len(elements)) - Len(elements)) |-> Nothing]

\* The elements from the head on, then those before it, in a larger array.
Regrown ==
    SubSeq(elements, head + 1, Len(elements)) \o SubSeq(elements, 1, head)
    \o [k \in 1..(nextQueueCapacity(Len(elements)) - Len(elements)) |-> Nothing]

Put ==
    /\ kind = "queue" /\ puts < MaxPuts
    /\ LET full == count = Len(elements)
           cells == IF full THEN Regrown ELSE elements
           at == IF full THEN count ELSE tail
       IN /\ elements' = [cells EXCEPT ![at + 1] = puts + 1]
          /\ tail' = (at + 1) % Len(cells)
          /\ head' = IF full THEN 0 ELSE head
    /\ count' = count + 1
    /\ puts' = puts + 1 /\ held' = Append(held, puts + 1)
    /\ UNCHANGED <<kind, index>>

Take ==
    /\ kind = "queue" /\ count > 0
    /\ elements' = [elements EXCEPT ![head + 1] = Nothing]
    /\ head' = (head + 1) % Len(elements)
    /\ count' = count - 1
    /\ held' = Tail(held)
    /\ UNCHANGED <<kind, tail, index, puts>>

\* Faulty: back to the start.
WrappedToZero(i) == IF i >= 2 * Len(elements) THEN 0 ELSE i

\* The index stays in the second round once the ring is full.
Wrapped(i) == IF i >= 2 * Len(elements) THEN i - Len(elements) ELSE i

Add ==
    /\ kind = "ring" /\ puts < MaxPuts
    /\ elements' = [elements EXCEPT ![(index % Len(elements)) + 1] = puts + 1]
    /\ index' = Wrapped(index + 1)
    /\ puts' = puts + 1
    /\ held' = LET all == Append(held, puts + 1)
               IN IF Len(all) > Len(elements) THEN Tail(all) ELSE all
    /\ UNCHANGED <<kind, head, tail, count>>

\* Ring.Take.
RingTake ==
    LET rlen == Len(elements)
        size == IF index > rlen THEN rlen ELSE index
        start == IF index > rlen THEN index % rlen ELSE 0
    IN [k \in 1..size |-> elements[((start + k - 1) % rlen) + 1]]

Next == Put \/ Take \/ Add

Spec == Init /\ [][Next]_vars

------------------------------------------------------------------------------

Cell(k) == elements[((head + k - 1) % Len(elements)) + 1]

(***************************************************************************)
(* fifo.go:44 and ring.go:27: through growth and wrap-around at any        *)
(* position, the queue holds exactly what was put and not taken, in order, *)
(* and nothing in its other cells, and the ring the last elements added.   *)
(***************************************************************************)
InOrder ==
    /\ kind = "queue" =>
         /\ held = [k \in 1..count |-> Cell(k)]
         /\ tail = (head + count) % Len(elements)
         /\ \A k \in (count + 1)..Len(elements) : Cell(k) = Nothing
    /\ kind = "ring" => RingTake = held
==============================================================================
