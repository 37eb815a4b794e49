--------------------------- MODULE BreakerRegistry ---------------------------
(***************************************************************************)
(* The named breakers of pkg/resilience/breaker_registry.go, for one name: *)
(* Get looks a breaker up under the read lock and, on a miss, again under  *)
(* the write lock before it makes one.  Do runs a request under the        *)
(* breaker it got, without a lock; Healthy gets one too, and makes it.     *)
(***************************************************************************)
EXTENDS Naturals, FiniteSets

CONSTANTS
    Callers,
    MaxBreakers,    \* bound: breakers ever made
    MaxResults      \* bound: results in one window

VARIABLES
    current,        \* r.breakers[name], None if there is none
    made,           \* breakers made so far: 1, 2, ...
    pc,             \* "idle", "missed" (between the two lookups), "req"
    forReq,         \* the caller is in Do, not in Healthy
    got,            \* the breaker a caller's request runs under
    recorded,       \* results each breaker's window has
    owned,          \* history: no NoBreakerFor since the caller's Get
    ended           \* history: requests since the last NoBreakerFor, by results

None == 0
callVars == <<pc, forReq, got, owned>>
vars == <<current, made, callVars, recorded, ended>>

Init ==
    /\ current = None /\ made = 0
    /\ pc = [c \in Callers |-> "idle"] /\ forReq = [c \in Callers |-> FALSE]
    /\ got = [c \in Callers |-> None] /\ owned = [c \in Callers |-> FALSE]
    /\ recorded = [b \in 1..MaxBreakers |-> 0] /\ ended = 0

\* Get has returned b: Do starts its request, Healthy only reads b's window.
Use(c, b, isDo) ==
    /\ pc' = [pc EXCEPT ![c] = IF isDo THEN "req" ELSE "idle"]
    /\ got' = [got EXCEPT ![c] = IF isDo THEN b ELSE None]
    /\ owned' = [owned EXCEPT ![c] = isDo]

\* Do or Healthy, up to the lookup under the read lock.
Get(c) ==
    /\ pc[c] = "idle"
    /\ \E isDo \in BOOLEAN :
         /\ forReq' = [forReq EXCEPT ![c] = isDo]
         /\ \/ current # None /\ Use(c, current, isDo)
            \/ /\ current = None /\ pc' = [pc EXCEPT ![c] = "missed"]
               /\ UNCHANGED <<got, owned>>
    /\ UNCHANGED <<current, made, recorded, ended>>

\* newSREBreaker, stored under the name.
Create(c) ==
    /\ made < MaxBreakers
    /\ made' = made + 1 /\ current' = made'
    /\ Use(c, made', forReq[c])

\* Faulty variant: the second lookup is left out.
GetLockedBlind(c) ==
    /\ pc[c] = "missed"
    /\ Create(c)
    /\ UNCHANGED <<forReq, recorded, ended>>

\* The write lock: somebody else may have made the breaker meanwhile.
GetLocked(c) ==
    /\ pc[c] = "missed"
    /\ \/ current # None /\ Use(c, current, forReq[c]) /\ UNCHANGED <<current, made>>
       \/ current = None /\ Create(c)
    /\ UNCHANGED <<forReq, recorded, ended>>

\* doReq marks a drop, a failure or a success in the window of its breaker.
Mark(c) ==
    /\ pc[c] = "req"
    /\ pc' = [pc EXCEPT ![c] = "idle"] /\ got' = [got EXCEPT ![c] = None]
    /\ recorded[got[c]] < MaxResults
    /\ recorded' = [recorded EXCEPT ![got[c]] = @ + 1]
    /\ ended' = IF owned[c] THEN ended + 1 ELSE ended
    /\ owned' = [owned EXCEPT ![c] = FALSE]
    /\ UNCHANGED <<current, made, forReq>>

\* The state under the name is reset; requests under way keep the old breaker.
NoBreakerFor ==
    /\ current # None
    /\ current' = None /\ ended' = 0
    /\ owned' = [c \in Callers |-> FALSE]
    /\ UNCHANGED <<made, pc, forReq, got, recorded>>

Next ==
    \/ \E c \in Callers : Get(c) \/ GetLocked(c) \/ Mark(c)
    \/ NoBreakerFor

Spec == Init /\ [][Next]_vars

------------------------------------------------------------------------------
\* "All calls to the same downstream service share a single breaker instance"
\* (breaker_registry.go:9): however first uses, health checks and resets cross,
\* the breaker under the name has the result of every request that began since
\* the last reset and of no other, so that the failure signal is in one window.
SignalInOneWindow ==
    /\ \A c \in Callers : owned[c] => got[c] = current
    /\ ended = IF current = None THEN 0 ELSE recorded[current]
==============================================================================
