------------------------------ MODULE BufferPool ------------------------------
(***************************************************************************)
(* The self-calibrating pool of byte buffers (pkg/core/bytebufferpool).    *)
(* Put counts the size class of a buffer; the one that passes a threshold  *)
(* computes new sizes, with atomic operations on single words and no lock, *)
(* while others go on counting and reading.  A size is its class, 1 the    *)
(* smallest; sync.Pool is left out: it hands back any buffer or none.      *)
(***************************************************************************)
EXTENDS Naturals, Sequences, FiniteSetsExt, SequencesExt

CONSTANTS
    Procs,          \* goroutines that put buffers
    Steps,          \* size classes (20)
    Threshold,      \* calibrateCallsThreshold
    MaxPuts         \* bound: calls of Put

Classes == 1..Steps

VARIABLES
    calls, calibrating, defaultSize, maxSize,
    pc,             \* "idle", "calibrate", "swap", "default", "max", "end", "load"
    a,              \* callSizes of a calibration: the calls of each class, so far
    size,           \* the sizes a calibration computed
    puts,
    last            \* history: the counts and sizes of the last calibration

vars == <<calls, calibrating, defaultSize, maxSize, pc, a, size, puts, last>>

None == [default |-> 0, max |-> 0]

Init ==
    /\ calls = [k \in Classes |-> 0] /\ calibrating = FALSE
    /\ defaultSize = 0 /\ maxSize = 0
    /\ pc = [p \in Procs |-> "idle"] /\ a = [p \in Procs |-> << >>]
    /\ size = [p \in Procs |-> None]
    /\ puts = 0 /\ last = [a |-> << >>, size |-> None]

Goto(p, l) == pc' = [pc EXCEPT ![p] = l]

\* atomic.AddUint64(&p.calls[idx], 1)
Put(p, k) ==
    /\ pc[p] = "idle" /\ puts < MaxPuts /\ puts' = puts + 1
    /\ calls' = [calls EXCEPT ![k] = @ + 1]
    /\ Goto(p, IF calls[k] + 1 > Threshold THEN "calibrate" ELSE "load")
    /\ UNCHANGED <<calibrating, defaultSize, maxSize, a, size, last>>

\* Faulty: whoever comes calibrates.
CompareAndSwapNot(p) ==
    /\ calibrating' = TRUE /\ Goto(p, "swap") /\ a' = [a EXCEPT ![p] = << >>]

\* One calibration at a time; the others go on without.
CompareAndSwap(p) ==
    IF calibrating THEN Goto(p, "load") /\ UNCHANGED <<calibrating, a>>
    ELSE calibrating' = TRUE /\ Goto(p, "swap") /\ a' = [a EXCEPT ![p] = << >>]

Calibrate(p) ==
    /\ pc[p] = "calibrate" /\ CompareAndSwap(p)
    /\ UNCHANGED <<calls, defaultSize, maxSize, size, puts, last>>

\* atomic.SwapUint64(&p.calls[i], 0), class by class.
Swap(p) ==
    /\ pc[p] = "swap"
    /\ LET k == Len(a[p]) + 1 IN
       /\ a' = [a EXCEPT ![p] = Append(@, calls[k])]
       /\ calls' = [calls EXCEPT ![k] = 0]
       /\ IF k = Steps THEN Goto(p, "default") ELSE UNCHANGED pc
    /\ UNCHANGED <<calibrating, defaultSize, maxSize, size, puts, last>>

\* sort.Sort by calls; equal ones come in any order.
Sorted(n) == {o \in SetToSeqs(Classes) : \A k \in 1..(Steps - 1) : n[o[k]] >= n[o[k + 1]]}

Calls(n, S) == FoldSet(LAMBDA k, sum : n[k] + sum, 0, S)

\* Faulty: stops a class early.
CoveredEarly(n, o, k) == Calls(n, {o[l] : l \in 1..k}) >= (Calls(n, Classes) * 95) \div 100

\* The classes o[1..k] make up for more than maxPercentile of the calls.
Covered(n, o, k) == Calls(n, {o[l] : l \in 1..k}) > (Calls(n, Classes) * 95) \div 100

\* The default is the most frequent size, the maximum the largest of those that
\* cover the calls.
Sizes(n, o) ==
    LET enough == {k \in Classes : Covered(n, o, k)} \cup {Steps}
    IN [default |-> o[1], max |-> Max({o[l] : l \in 1..Min(enough)})]

StoreDefault(p) ==
    /\ pc[p] = "default" /\ Goto(p, "max")
    /\ \E o \in Sorted(a[p]) : size' = [size EXCEPT ![p] = Sizes(a[p], o)]
    /\ defaultSize' = size'[p].default
    /\ UNCHANGED <<calls, calibrating, maxSize, a, puts, last>>

StoreMax(p) ==
    /\ pc[p] = "max" /\ Goto(p, "end")
    /\ maxSize' = size[p].max
    /\ UNCHANGED <<calls, calibrating, defaultSize, a, size, puts, last>>

EndCalibration(p) ==
    /\ pc[p] = "end" /\ Goto(p, "load")
    /\ calibrating' = FALSE
    /\ last' = [a |-> a[p], size |-> size[p]]
    /\ a' = [a EXCEPT ![p] = << >>] /\ size' = [size EXCEPT ![p] = None]
    /\ UNCHANGED <<calls, defaultSize, maxSize, puts>>

\* The maximum decides whether the buffer is pooled.
LoadMax(p) ==
    /\ pc[p] = "load" /\ Goto(p, "idle")
    /\ UNCHANGED <<calls, calibrating, defaultSize, maxSize, a, size, puts, last>>

Next ==
    \E p \in Procs :
       \/ \E k \in Classes : Put(p, k)
       \/ Calibrate(p) \/ Swap(p) \/ StoreDefault(p) \/ StoreMax(p) \/ EndCalibration(p) \/ LoadMax(p)

Spec == Init /\ [][Next]_vars

------------------------------------------------------------------------------

(***************************************************************************)
(* pool.go:72: the two sizes are stored one after the other, and buffers   *)
(* are counted and put meanwhile, but whenever no calibration is under way *)
(* they are the pair one calibration computed, and buffers up to maxSize   *)
(* made up for at least 95% of the calls it counted.                       *)
(***************************************************************************)
SizesOfOneCalibration ==
    ~calibrating /\ last.size # None =>
       /\ last.size = [default |-> defaultSize, max |-> maxSize]
       /\ 100 * Calls(last.a, 1..maxSize) >= 95 * Calls(last.a, Classes)
===============================================================================
