------------------------------ MODULE CacheTake ------------------------------
(***************************************************************************)
(* Cache.Take for one key: the lookup, the flight of syncx.SingleFlight    *)
(* that shares one fetch among its callers, and the second lookup inside   *)
(* the flight.  Other clients remove the key at any time.                  *)
(***************************************************************************)
EXTENDS Naturals

CONSTANTS
    Callers,        \* each calls Take again and again
    MaxLoads,       \* bound: values fetched
    NoOne           \* no flight for the key

VARIABLES
    data,           \* the key is cached
    flight,         \* flightGroup.calls[key]: its call, named by its leader
    joined,         \* the call whose WaitGroup a caller waits for
    ended,          \* the leader's call has had its wg.Done
    out,            \* call.val and call.err of the leader's call
    loads, removals,\* ghosts: values fetched, keys removed
    at

vars == <<data, flight, joined, ended, out, loads, removals, at>>

\* A panicked call leaves val and err nil.
Outcome == {"value", "error", "nil"}

TypeOK ==
    /\ data \in BOOLEAN /\ loads \in 0..MaxLoads /\ removals \in 0..MaxLoads
    /\ flight \in Callers \cup {NoOne}
    /\ joined \in [Callers -> Callers] /\ ended \in [Callers -> BOOLEAN]
    /\ out \in [Callers -> Outcome]
    /\ at \in [Callers -> {"idle", "do", "wait", "check", "fetch", "set", "delete", "done"}]

Init ==
    /\ data = FALSE /\ flight = NoOne
    /\ joined = [c \in Callers |-> c] /\ ended = [c \in Callers |-> TRUE]
    /\ out = [c \in Callers |-> "nil"]
    /\ loads = 0 /\ removals = 0
    /\ at = [c \in Callers |-> "idle"]

Goto(c, l) == at' = [at EXCEPT ![c] = l]

\* Calls go by their leaders' names: a name is free again when nobody reads the call.
Take(c) ==
    /\ at[c] = "idle" /\ \A d \in Callers : at[d] = "wait" => joined[d] # c
    /\ IF data THEN UNCHANGED at ELSE Goto(c, "do")
    /\ UNCHANGED <<data, flight, joined, ended, out, loads, removals>>

createCall(c) ==
    /\ at[c] = "do"
    /\ IF flight = NoOne
       THEN /\ flight' = c
            /\ ended' = [ended EXCEPT ![c] = FALSE] /\ out' = [out EXCEPT ![c] = "nil"]
            /\ Goto(c, "check") /\ UNCHANGED joined
       ELSE /\ joined' = [joined EXCEPT ![c] = flight]
            /\ Goto(c, "wait") /\ UNCHANGED <<flight, ended, out>>
    /\ UNCHANGED <<data, loads, removals>>

\* Faulty variant: no second look once the flight is this caller's.
CheckNot(c) ==
    /\ at[c] = "check" /\ Goto(c, "fetch")
    /\ UNCHANGED <<data, flight, joined, ended, out, loads, removals>>

Check(c) ==
    /\ at[c] = "check"
    /\ IF data
       THEN out' = [out EXCEPT ![c] = "value"] /\ Goto(c, "delete")
       ELSE Goto(c, "fetch") /\ UNCHANGED out
    /\ UNCHANGED <<data, flight, joined, ended, loads, removals>>

\* fetch returns a value, an error, or panics.
Fetch(c) ==
    /\ at[c] = "fetch"
    /\ \/ /\ loads < MaxLoads
          /\ loads' = loads + 1 /\ out' = [out EXCEPT ![c] = "value"] /\ Goto(c, "set")
       \/ out' = [out EXCEPT ![c] = "error"] /\ Goto(c, "delete") /\ UNCHANGED loads
       \/ Goto(c, "delete") /\ UNCHANGED <<loads, out>>
    /\ UNCHANGED <<data, flight, joined, ended, removals>>

Set(c) ==
    /\ at[c] = "set"
    /\ data' = TRUE /\ Goto(c, "delete")
    /\ UNCHANGED <<flight, joined, ended, out, loads, removals>>

\* makeCall's deferred function: the key first, whatever fn did.
DeleteCall(c) ==
    /\ at[c] = "delete"
    /\ flight' = NoOne /\ Goto(c, "done")
    /\ UNCHANGED <<data, joined, ended, out, loads, removals>>

\* Faulty variant: wg.Done is skipped when fn has panicked.
DoneUnlessPanic(c) ==
    /\ at[c] = "done"
    /\ ended' = [ended EXCEPT ![c] = out[c] # "nil"] /\ Goto(c, "idle")
    /\ UNCHANGED <<data, flight, joined, out, loads, removals>>

Done(c) ==
    /\ at[c] = "done"
    /\ ended' = [ended EXCEPT ![c] = TRUE] /\ Goto(c, "idle")
    /\ UNCHANGED <<data, flight, joined, out, loads, removals>>

Wake(c) ==
    /\ at[c] = "wait" /\ ended[joined[c]]
    /\ Goto(c, "idle") /\ joined' = [joined EXCEPT ![c] = c]
    /\ UNCHANGED <<data, flight, ended, out, loads, removals>>

\* Del, eviction or expiry.
Remove ==
    /\ data /\ removals < MaxLoads
    /\ data' = FALSE /\ removals' = removals + 1
    /\ UNCHANGED <<flight, joined, ended, out, loads, at>>

Step(c) == createCall(c) \/ Check(c) \/ Fetch(c) \/ Set(c) \/ DeleteCall(c) \/ Done(c) \/ Wake(c)
Next == Remove \/ \E c \in Callers : Take(c) \/ Step(c)
Spec == Init /\ [][Next]_vars /\ \A c \in Callers : WF_vars(Step(c))

\* A value is fetched once and again only after the key has been removed,
\* however callers that missed, joined or came late interleave (Take's
\* double-check inside the flight).
LoadsOnce == loads <= removals + 1

\* Everyone who entered the flight group comes back, the waiters of a call
\* whose fetch panicked too (makeCall's deferred function).
TakeReturns == \A c \in Callers : []<>(at[c] = "idle")
=============================================================================
