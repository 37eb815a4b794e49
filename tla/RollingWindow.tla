---------------------------- MODULE RollingWindow ----------------------------
(***************************************************************************)
(* The rolling window of pkg/core/collection/rollingwindow.go: a ring of   *)
(* Size buckets that Add advances and Reduce reads in between.  A bucket's *)
(* sum is abstracted to its number of additions.                           *)
(***************************************************************************)
EXTENDS Integers

CONSTANTS
    Size,      \* number of buckets
    Interval,  \* length of a bucket's interval, in ticks
    MaxAdds    \* bound: additions in one interval

VARIABLES
    buckets,   \* win.buckets
    offset,    \* rw.offset
    elapsed    \* time.Since(rw.lastTime); past the whole window modulo Interval

vars == <<buckets, offset, elapsed>>

Slots == 0..(Size - 1)

TypeOK ==
    /\ buckets \in [Slots -> 0..MaxAdds]
    /\ offset \in Slots
    /\ elapsed \in 0..((Size + 1) * Interval)

Init ==
    /\ buckets = [i \in Slots |-> 0]
    /\ offset = 0
    /\ elapsed = 0

span == IF elapsed \div Interval < Size THEN elapsed \div Interval ELSE Size

\* Faulty variant: the bucket that becomes current keeps what it held.
updatedKeepNewest ==
    [i \in Slots |-> IF i \in {(offset + j) % Size : j \in 1..(span - 1)} THEN 0 ELSE buckets[i]]

\* updateOffset resets the buckets of the intervals that have begun since.
updated ==
    [i \in Slots |-> IF i \in {(offset + j) % Size : j \in 1..span} THEN 0 ELSE buckets[i]]

Add ==
    LET current == (offset + span) % Size
    IN  /\ updated[current] < MaxAdds
        /\ offset' = current
        /\ buckets' = [updated EXCEPT ![current] = @ + 1]
        /\ elapsed' = elapsed % Interval

Tick ==
    /\ elapsed' = IF elapsed < (Size + 1) * Interval THEN elapsed + 1 ELSE elapsed - Interval + 1
    /\ UNCHANGED <<buckets, offset>>

Next == Add \/ Tick

Spec == Init /\ [][Next]_vars

-----------------------------------------------------------------------------
(* Reduce: the buckets it visits, oldest first.                            *)

Reduced(ignoreCurrent) ==
    LET n == IF span = 0 /\ ignoreCurrent THEN Size - 1 ELSE Size - span
    IN  [i \in 1..n |-> buckets[(offset + span + i) % Size]]

\* The intervals a reader sees, newest first: those that have begun since the
\* last Add are empty.
Seen ==
    LET r == Reduced(FALSE)
    IN  [i \in 1..Size |-> IF i <= span THEN 0 ELSE r[Size + 1 - i]]

Sliding == INSTANCE SlidingWindow WITH counts <- Seen, phase <- elapsed % Interval

\* What Reduce visits is what was added in the last Size intervals, each in its
\* own and nothing older, however additions and pauses follow each other.
ImplementsSlidingWindow == Sliding!Spec
=============================================================================
