----------------------------- MODULE LockedCalls -----------------------------
(***************************************************************************)
(* syncx.LockedCalls for one key: callers run their own functions one      *)
(* after the other.  A caller that finds the key taken waits for that      *)
(* call's WaitGroup and starts over.                                       *)
(***************************************************************************)
CONSTANTS
    Callers,
    NoOne

VARIABLES
    holder,     \* lockedGroup.m[key]: the call, named by its caller
    awaited,    \* the call a caller waits for
    over,       \* the call's WaitGroup is done
    ran,        \* ghost: the caller's own function has run in this call of Do
    at

vars == <<holder, awaited, over, ran, at>>

TypeOK ==
    /\ holder \in Callers \cup {NoOne} /\ awaited \in [Callers -> Callers]
    /\ over \in [Callers -> BOOLEAN] /\ ran \in [Callers -> BOOLEAN]
    /\ at \in [Callers -> {"idle", "begin", "wait", "fn", "delete", "done"}]

Init ==
    /\ holder = NoOne /\ awaited = [c \in Callers |-> c]
    /\ over = [c \in Callers |-> TRUE] /\ ran = [c \in Callers |-> TRUE]
    /\ at = [c \in Callers |-> "idle"]

Goto(c, l) == at' = [at EXCEPT ![c] = l]

\* Calls go by their callers' names: a name is free again when nobody waits for it.
Do(c) ==
    /\ at[c] = "idle" /\ \A d \in Callers : at[d] = "wait" => awaited[d] # c
    /\ ran' = [ran EXCEPT ![c] = FALSE] /\ Goto(c, "begin")
    /\ UNCHANGED <<holder, awaited, over>>

\* Both ways on are decided under the mutex, which makeCall releases.
Begin(c) ==
    /\ at[c] = "begin"
    /\ IF holder = NoOne
       THEN /\ holder' = c /\ over' = [over EXCEPT ![c] = FALSE]
            /\ Goto(c, "fn") /\ UNCHANGED awaited
       ELSE /\ awaited' = [awaited EXCEPT ![c] = holder]
            /\ Goto(c, "wait") /\ UNCHANGED <<holder, over>>
    /\ UNCHANGED ran

\* fn returns or panics: the deferred function runs either way.
RunFn(c) ==
    /\ at[c] = "fn"
    /\ ran' = [ran EXCEPT ![c] = TRUE] /\ Goto(c, "delete")
    /\ UNCHANGED <<holder, awaited, over>>

DeleteKey(c) ==
    /\ at[c] = "delete"
    /\ holder' = NoOne /\ Goto(c, "done")
    /\ UNCHANGED <<awaited, over, ran>>

Done(c) ==
    /\ at[c] = "done"
    /\ over' = [over EXCEPT ![c] = TRUE] /\ Goto(c, "idle")
    /\ UNCHANGED <<holder, awaited, ran>>

\* Faulty variant: a woken caller takes its turn for granted.
WakeIntoFn(c) ==
    /\ at[c] = "wait" /\ over[awaited[c]]
    /\ awaited' = [awaited EXCEPT ![c] = c] /\ Goto(c, "fn")
    /\ UNCHANGED <<holder, over, ran>>

Wake(c) ==
    /\ at[c] = "wait" /\ over[awaited[c]]
    /\ awaited' = [awaited EXCEPT ![c] = c] /\ Goto(c, "begin")
    /\ UNCHANGED <<holder, over, ran>>

Step(c) == Begin(c) \/ RunFn(c) \/ DeleteKey(c) \/ Done(c) \/ Wake(c)
Next == \E c \in Callers : Do(c) \/ Step(c)
Spec == Init /\ [][Next]_vars /\ \A c \in Callers : WF_vars(Step(c))

\* Functions of one key never overlap, and whoever gets past a call has run
\* its own function rather than shared another's (LockedCalls' promise).
RunsAlone ==
    /\ \A c, d \in Callers : at[c] = "fn" /\ at[d] = "fn" => c = d
    /\ \A c \in Callers : at[c] \in {"delete", "done", "idle"} => ran[c]

\* Some caller that began always gets through: a stale WaitGroup holds nobody.
\* (Who begins or waits stops doing so only by running its function.)
SomeoneRuns == []<>(\/ \A c \in Callers : at[c] \notin {"begin", "wait"}
                    \/ \E c \in Callers : at[c] = "fn")
=============================================================================
