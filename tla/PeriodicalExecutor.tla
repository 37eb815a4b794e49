------------------------- MODULE PeriodicalExecutor -------------------------
(***************************************************************************)
(* The batching executor of pkg/core/executors/periodicalexecutor.go with  *)
(* the containers of bulkexecutor.go and chunkexecutor.go: a batch is full *)
(* by the number of its tasks or by the sum of their sizes.                *)
(*                                                                         *)
(* Every task is added once, by a goroutine of its own.  The container,    *)
(* guarded and the inflight test are protected by pe.lock; the commander   *)
(* channel holds one batch, the confirm channel none; every batch that has *)
(* tasks is executed by a new goroutine (executors.safeGo).                *)
(***************************************************************************)
EXTENDS Naturals, FiniteSets

CONSTANTS
    Tasks,
    Waiters,    \* goroutines that call Wait
    Flushers,   \* bound on the backgroundFlush goroutines alive at a time
    Large,      \* tasks of size two; the others, and all of a bulk, have size one
    MaxTasks    \* bulkContainer.maxTasks, chunkContainer.maxChunkSize

VARIABLES
    container,  \* tasks collected and not yet taken out
    add,        \* where Add of each task is, see AddPhase
    batch,      \* the batch an adder has to hand over
    commander,  \* the batch in the commander channel; {} when it is empty
    inflight,   \* pe.inflight
    guarded,    \* pe.guarded
    pc,         \* where each flusher and waiter is, see Phase
    vals,       \* the batch a flusher or waiter holds
    commanded,  \* the flusher's local variable
    wg,         \* the counter of pe.waitGroup
    running,    \* tasks inside a container.Execute goroutine
    done        \* tasks whose execution is over

addVars == <<container, add, batch, inflight, guarded>>
vars == <<addVars, commander, pc, vals, commanded, wg, running, done>>

AddPhase == {"new", "send", "confirm", "added"}

\* A process runs Flush in three steps ("enter", "remove", "execute"), called
\* from the ticker case ("tick"), as the flusher's deferred call ("exit") or
\* from Wait ("wait").  The commander case is "enter", "confirm", "execute" of
\* a "batch".  A waiter that holds the barrier is "waiting".
At == {"none", "loop", "enter", "remove", "confirm", "execute", "quit", "barrier", "waiting"}
Phase == [at : At, why : {"none", "batch", "tick", "exit", "wait"}]

Procs == Flushers \cup Waiters

TypeOK ==
    /\ container \in SUBSET Tasks /\ commander \in SUBSET Tasks
    /\ add \in [Tasks -> AddPhase] /\ batch \in [Tasks -> SUBSET Tasks]
    /\ inflight \in 0..Cardinality(Tasks) /\ guarded \in BOOLEAN
    /\ pc \in [Procs -> Phase] /\ vals \in [Procs -> SUBSET Tasks]
    /\ commanded \in [Flushers -> BOOLEAN]
    /\ wg \in 0..Cardinality(Procs)
    /\ running \in SUBSET Tasks /\ done \in SUBSET Tasks

Ph(at, why) == [at |-> at, why |-> why]

Init ==
    /\ container = {} /\ commander = {} /\ inflight = 0 /\ guarded = FALSE
    /\ add = [t \in Tasks |-> "new"] /\ batch = [t \in Tasks |-> {}]
    /\ pc = [p \in Procs |-> Ph("none", "none")] /\ vals = [p \in Procs |-> {}]
    /\ commanded = [f \in Flushers |-> FALSE]
    /\ wg = 0 /\ running = {} /\ done = {}

-----------------------------------------------------------------------------
(* Add.                                                                    *)

\* AddTask's answer: bulkContainer counts the tasks, chunkContainer their sizes.
Full(tasks) == Cardinality(tasks) + Cardinality(tasks \cap Large) >= MaxTasks

\* addAndCheck: collect the task; a full container is taken out and counted
\* in flight; without a flusher one is started.
AddAndCheck(t) ==
    LET tasks == container \cup {t}
        full == Full(tasks)
    IN  /\ add[t] = "new"
        /\ add' = [add EXCEPT ![t] = IF full THEN "send" ELSE "added"]
        /\ container' = IF full THEN {} ELSE tasks
        /\ batch' = [batch EXCEPT ![t] = IF full THEN tasks ELSE {}]
        /\ inflight' = IF full THEN inflight + 1 ELSE inflight
        /\ guarded' = TRUE
        /\ IF guarded THEN UNCHANGED <<pc, commanded>>
           ELSE \E f \in Flushers :
                  /\ pc[f].at = "none"
                  /\ pc' = [pc EXCEPT ![f] = Ph("loop", "none")]
                  /\ commanded' = [commanded EXCEPT ![f] = FALSE]
        /\ UNCHANGED <<commander, vals, wg, running, done>>

Send(t) ==
    /\ add[t] = "send" /\ commander = {}
    /\ commander' = batch[t]
    /\ batch' = [batch EXCEPT ![t] = {}]
    /\ add' = [add EXCEPT ![t] = "confirm"]
    /\ UNCHANGED <<container, inflight, guarded, pc, vals, commanded, wg, running, done>>

\* The flusher's confirmation goes to any adder that waits for one.
Confirm(t, f) ==
    /\ add[t] = "confirm" /\ pc[f].at = "confirm"
    /\ add' = [add EXCEPT ![t] = "added"]
    /\ pc' = [pc EXCEPT ![f] = Ph("execute", "batch")]
    /\ UNCHANGED <<container, batch, inflight, guarded, commander, vals, commanded, wg, running, done>>

-----------------------------------------------------------------------------
(* Flush and executeTasks, for whoever runs them.                          *)

\* enterExecution: wgBarrier is held by a Wait that waits.
BarrierFree == \A w \in Waiters : pc[w].at # "waiting"

Enter(p) ==
    /\ pc[p].at = "enter" /\ BarrierFree
    /\ wg' = wg + 1
    /\ pc' = [pc EXCEPT ![p].at = IF pc[p].why = "batch" THEN "confirm" ELSE "remove"]
    /\ UNCHANGED <<addVars, commander, vals, commanded, running, done>>

RemoveAll(p) ==
    /\ pc[p].at = "remove"
    /\ vals' = [vals EXCEPT ![p] = container]
    /\ container' = {}
    /\ pc' = [pc EXCEPT ![p].at = "execute"]
    /\ UNCHANGED <<add, batch, inflight, guarded, commander, commanded, wg, running, done>>

\* Faulty variant: a flusher that leaves drops what its last Flush took out.
ExecuteUnlessExit(p) ==
    /\ pc[p].at = "execute"
    /\ running' = IF pc[p].why = "exit" THEN running ELSE running \cup vals[p]
    /\ vals' = [vals EXCEPT ![p] = {}]
    /\ wg' = wg - 1
    /\ pc' = [pc EXCEPT ![p] =
                CASE pc[p].why = "batch" -> Ph("loop", "none")
                  [] pc[p].why = "tick" -> IF vals[p] # {} THEN Ph("loop", "none") ELSE Ph("quit", "tick")
                  [] pc[p].why = "exit" -> Ph("none", "none")
                  [] pc[p].why = "wait" -> Ph("barrier", "wait")]
    /\ UNCHANGED <<addVars, commander, commanded, done>>

\* executeTasks: a goroutine executes the batch; the waitGroup is done at once.
ExecuteTasks(p) ==
    /\ pc[p].at = "execute"
    /\ running' = running \cup vals[p]
    /\ vals' = [vals EXCEPT ![p] = {}]
    /\ wg' = wg - 1
    /\ pc' = [pc EXCEPT ![p] =
                CASE pc[p].why = "batch" -> Ph("loop", "none")
                  [] pc[p].why = "tick" -> IF vals[p] # {} THEN Ph("loop", "none") ELSE Ph("quit", "tick")
                  [] pc[p].why = "exit" -> Ph("none", "none")
                  [] pc[p].why = "wait" -> Ph("barrier", "wait")]
    /\ UNCHANGED <<addVars, commander, commanded, done>>

\* container.Execute handles the task.
Execute(t) ==
    /\ t \in running
    /\ running' = running \ {t} /\ done' = done \cup {t}
    /\ UNCHANGED <<addVars, commander, pc, vals, commanded, wg>>

-----------------------------------------------------------------------------
(* backgroundFlush.                                                        *)

\* The commander case, up to enterExecution.
Take(f) ==
    /\ pc[f].at = "loop" /\ commander # {}
    /\ vals' = [vals EXCEPT ![f] = commander]
    /\ commander' = {}
    /\ commanded' = [commanded EXCEPT ![f] = TRUE]
    /\ inflight' = inflight - 1
    /\ pc' = [pc EXCEPT ![f] = Ph("enter", "batch")]
    /\ UNCHANGED <<container, add, batch, guarded, wg, running, done>>

\* The ticker case: nothing to do if a batch was executed since the last tick.
TickerCase(f) ==
    /\ pc[f].at = "loop"
    /\ commanded' = [commanded EXCEPT ![f] = FALSE]
    /\ pc' = IF commanded[f] THEN pc ELSE [pc EXCEPT ![f] = Ph("enter", "tick")]
    /\ UNCHANGED <<addVars, commander, vals, wg, running, done>>

\* Faulty variant: batches in flight do not keep the flusher.
QuitAnyway(f) ==
    /\ pc[f].at = "quit"
    /\ \/ pc' = [pc EXCEPT ![f] = Ph("loop", "none")] /\ UNCHANGED guarded
       \/ pc' = [pc EXCEPT ![f] = Ph("enter", "exit")] /\ guarded' = FALSE
    /\ UNCHANGED <<container, add, batch, inflight, commander, vals, commanded, wg, running, done>>

\* shallQuit after an empty Flush: a flusher idle for long enough (the choice
\* stands for the clock) leaves unless a batch is in flight, with a last Flush.
ShallQuit(f) ==
    /\ pc[f].at = "quit"
    /\ \/ pc' = [pc EXCEPT ![f] = Ph("loop", "none")] /\ UNCHANGED guarded
       \/ /\ inflight = 0
          /\ pc' = [pc EXCEPT ![f] = Ph("enter", "exit")] /\ guarded' = FALSE
    /\ UNCHANGED <<container, add, batch, inflight, commander, vals, commanded, wg, running, done>>

-----------------------------------------------------------------------------
(* Wait.                                                                   *)

Wait(w) ==
    /\ pc[w].at = "none"
    /\ pc' = [pc EXCEPT ![w] = Ph("enter", "wait")]
    /\ UNCHANGED <<addVars, commander, vals, commanded, wg, running, done>>

TakeBarrier(w) ==
    /\ pc[w].at = "barrier" /\ BarrierFree
    /\ pc' = [pc EXCEPT ![w].at = "waiting"]
    /\ UNCHANGED <<addVars, commander, vals, commanded, wg, running, done>>

\* waitGroup.Wait returns; w is then out of the picture.
WaitReturns(w) ==
    /\ pc[w].at = "waiting" /\ wg = 0
    /\ pc' = [pc EXCEPT ![w] = Ph("quit", "wait")]
    /\ UNCHANGED <<addVars, commander, vals, commanded, wg, running, done>>

Step(p) == Enter(p) \/ RemoveAll(p) \/ ExecuteTasks(p)

Next ==
    \/ \E t \in Tasks : AddAndCheck(t) \/ Send(t) \/ Execute(t)
    \/ \E t \in Tasks, f \in Flushers : Confirm(t, f)
    \/ \E f \in Flushers : Take(f) \/ TickerCase(f) \/ ShallQuit(f)
    \/ \E w \in Waiters : Wait(w) \/ TakeBarrier(w) \/ WaitReturns(w)
    \/ \E p \in Procs : Step(p)

Spec == Init /\ [][Next]_vars

\* Goroutines run, the ticker ticks, and the random choice of select does not
\* starve the commander case.
FairSpec ==
    /\ Spec
    /\ WF_vars(\E t \in Tasks : Send(t) \/ Execute(t))
    /\ WF_vars(\E t \in Tasks, f \in Flushers : Confirm(t, f))
    /\ WF_vars(\E f \in Flushers : TickerCase(f) \/ ShallQuit(f))
    /\ SF_vars(\E f \in Flushers : Take(f))
    /\ \A w \in Waiters : WF_vars(TakeBarrier(w) \/ WaitReturns(w))
    /\ \A p \in Procs : WF_vars(Step(p))

-----------------------------------------------------------------------------
(* Properties.                                                             *)

InBatches(t) == {a \in Tasks : t \in batch[a]}
InHands(t) == {p \in Procs : t \in vals[p]}

\* Every task that was added is in exactly one place: the container, the hands
\* of an adder, the commander channel, the hands of a flusher or waiter, a
\* running execution, or done.  None is lost or executed twice.
ExactlyOnePlace ==
    \A t \in Tasks :
      LET places == (IF t \in container THEN 1 ELSE 0) + (IF t \in commander THEN 1 ELSE 0)
                    + (IF t \in running THEN 1 ELSE 0) + (IF t \in done THEN 1 ELSE 0)
                    + Cardinality(InBatches(t)) + Cardinality(InHands(t))
      IN  places = IF add[t] = "new" THEN 0 ELSE 1

\* Every Add returns, with its confirmation if it handed over a batch, and its
\* task is executed without anybody calling Flush.
AllExecuted == <>[](\A t \in Tasks : add[t] # "new" => add[t] = "added" /\ t \in done)
=============================================================================
