-------------------------------- MODULE Pool --------------------------------
(***************************************************************************)
(* syncx.Pool: a bounded pool of resources with a mutex and a condition    *)
(* variable.  Each step below is one critical section.  Idle resources     *)
(* age, and a Get destroys the aged ones it meets before it goes on.       *)
(***************************************************************************)
EXTENDS Naturals, Sequences, FiniteSets

CONSTANTS
    Callers,
    Limit       \* Pool.limit, positive

VARIABLES
    created,    \* Pool.created
    idle,       \* the idle list from its head: is the resource past maxAge?
    held,       \* who holds a resource
    waiting,    \* who is in cond.Wait
    woken,      \* signalled, but not yet back under the mutex
    lost        \* ghost: creations that panicked after created++

vars == <<created, idle, held, waiting, woken, lost>>

TypeOK ==
    /\ created \in 0..Limit /\ lost \in 0..Limit /\ idle \in Seq(BOOLEAN) /\ Len(idle) <= Limit
    /\ held \subseteq Callers /\ waiting \subseteq Callers /\ woken \subseteq Callers

Init ==
    /\ created = 0 /\ lost = 0 /\ idle = <<>>
    /\ held = {} /\ waiting = {} /\ woken = {}

\* Aged resources at the head, which the loop of Get pops and destroys.
Aged == CHOOSE n \in 0..Len(idle) :
    (\A i \in 1..n : idle[i]) /\ (n < Len(idle) => ~idle[n + 1])

\* created once the aged resources are destroyed.
Remaining == created - Aged

\* The body of Get's loop up to a return or cond.Wait.
Loop(c) ==
    \/ /\ Aged < Len(idle)
       /\ idle' = SubSeq(idle, Aged + 2, Len(idle))
       /\ created' = Remaining
       /\ held' = held \cup {c}
       /\ UNCHANGED <<waiting, lost>>
    \/ /\ Aged = Len(idle) /\ Remaining < Limit
       /\ idle' = <<>>
       /\ created' = Remaining + 1
       /\ \/ held' = held \cup {c} /\ UNCHANGED lost
          \/ lost' = lost + 1 /\ UNCHANGED held   \* create panics
       /\ UNCHANGED waiting
    \/ /\ Aged = Len(idle) /\ Remaining >= Limit
       /\ idle' = <<>> /\ created' = Remaining
       /\ waiting' = waiting \cup {c}
       /\ UNCHANGED <<held, lost>>

Get(c) ==
    /\ c \notin held \cup waiting \cup woken
    /\ Loop(c) /\ UNCHANGED woken

GetResumes(c) ==
    /\ c \in woken
    /\ Loop(c) /\ woken' = woken \ {c}

\* Faulty variant: the resource goes back and nobody is told.
PutSilently(c) ==
    /\ c \in held
    /\ held' = held \ {c} /\ idle' = <<FALSE>> \o idle
    /\ UNCHANGED <<created, lost, waiting, woken>>

Put(c) ==
    /\ c \in held
    /\ held' = held \ {c} /\ idle' = <<FALSE>> \o idle
    /\ \/ waiting = {} /\ UNCHANGED <<waiting, woken>>
       \/ \E w \in waiting : waiting' = waiting \ {w} /\ woken' = woken \cup {w}
    /\ UNCHANGED <<created, lost>>

\* maxAge passes for the resources that have been idle longest.
Age ==
    /\ \E i \in 1..Len(idle) :
         /\ ~idle[i] /\ \A j \in (i + 1)..Len(idle) : idle[j]
         /\ idle' = [idle EXCEPT ![i] = TRUE]
    /\ UNCHANGED <<created, held, waiting, woken, lost>>

Next == Age \/ \E c \in Callers : Get(c) \/ GetResumes(c) \/ Put(c)
Spec == Init /\ [][Next]_vars

\* The pool counts what exists: idle, held, or lost to a panic of create.
\* While anyone sleeps in cond.Wait, every free resource and every free place
\* has a woken caller on its way to it: no signal is lost, whichever mix of
\* newcomers and aged resources comes in between (Get, Put).
NoLostWakeup ==
    /\ created = Len(idle) + Cardinality(held) + lost
    /\ waiting # {} => Len(idle) + (Limit - created) <= Cardinality(woken)
=============================================================================
