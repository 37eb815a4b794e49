------------------------------ MODULE MapReduce ------------------------------
(***************************************************************************)
(* mr.MapReduce and mr.ForEach: the generator, the executor that starts a  *)
(* mapper per item, the reducer and the caller, with the channels between  *)
(* them.  The user's functions may return, cancel or (one of them, once)   *)
(* panic; each writes at most once.  Finish is MapReduce with a reducer    *)
(* that returns at once; MapReduceChan differs in who fills the source.    *)
(***************************************************************************)
EXTENDS Naturals, FiniteSets

CONSTANTS
    Items,          \* how many items generate sends
    Workers         \* mapReduceOptions.workers

VARIABLES
    forEach,        \* the call is ForEach: no reducer, no writes, no cancel
    ctxDone,        \* options.ctx is done
    generator,      \* "send", "panic" (blocked in panicChan.write), "closed"
    sent,           \* items received from source, by whomever
    executor,       \* "loop", "receive", "wait", "drain", "end"
    mapper,         \* where the mapper of each started item is
    failed,
    collector, collectorClosed,
    got,            \* ghost: outputs the reducer received
    reducer,
    caller,
    once,           \* who runs cancel's function: NoOne, a process, or "ran"
    cancelled,      \* retErr is set
    finished,       \* done and output are closed
    wrote,          \* onceChan.wrote
    userPanic       \* ghost: a user's function has panicked

vars == <<forEach, ctxDone, generator, sent, executor, mapper, failed, collector, collectorClosed, got,
          reducer, caller, once, cancelled, finished, wrote, userPanic>>
callerVars == <<forEach, ctxDone, reducer, caller, got>>

Started == DOMAIN mapper
Running == {i \in Started : mapper[i] # "over"}
Processes == {<<"mapper", i>> : i \in 1..Items} \cup {<<"reducer", 0>>, <<"caller", 0>>}

TypeOK ==
    /\ forEach \in BOOLEAN /\ ctxDone \in BOOLEAN /\ failed \in BOOLEAN /\ collectorClosed \in BOOLEAN
    /\ cancelled \in BOOLEAN /\ finished \in BOOLEAN /\ wrote \in BOOLEAN /\ userPanic \in BOOLEAN
    /\ generator \in {"send", "panic", "closed"} /\ sent \in 0..Items
    /\ executor \in {"loop", "receive", "wait", "drain", "end"}
    /\ Started \subseteq 1..Items
    /\ \A i \in Started : mapper[i] \in {"run", "send", "after", "cancel", "panic", "over"}
    /\ collector \in 0..Workers /\ got \in 0..Items
    /\ reducer \in {"reduce", "atEnd", "send", "after", "cancel", "drain", "drainPanic", "panic", "end"}
    /\ caller \in {"select", "cancel", "drainOutput", "range", "returned", "panicked"}
    /\ once \in Processes \cup {<<"nobody", 0>>, <<"ran", 0>>}

Free == <<"nobody", 0>>
Ran == <<"ran", 0>>

\* MapReduce, or ForEach without a reducer.
Init ==
    /\ ctxDone = FALSE /\ failed = FALSE /\ collectorClosed = FALSE /\ cancelled = FALSE
    /\ finished = FALSE /\ wrote = FALSE /\ userPanic = FALSE
    /\ generator = "send" /\ sent = 0 /\ executor = "loop" /\ mapper = <<>>
    /\ collector = 0 /\ got = 0 /\ once = Free
    /\ \/ forEach = FALSE /\ reducer = "reduce"
       \/ forEach = TRUE /\ reducer = "end"
    /\ caller = "select"

CtxDone ==
    /\ ~ctxDone /\ caller = "select"
    /\ ctxDone' = TRUE
    /\ UNCHANGED <<forEach, generator, sent, executor, mapper, failed, collector, collectorClosed, got,
                   reducer, caller, once, cancelled, finished, wrote, userPanic>>

-----------------------------------------------------------------------------
(* buildSource.  The items go to whoever receives; an item that a drain    *)
(* takes is dropped.                                                       *)

GeneratorReturns ==
    /\ generator = "send" /\ sent = Items
    /\ generator' = "closed"
    /\ UNCHANGED <<callerVars, sent, executor, mapper, failed, collector, collectorClosed, once,
                   cancelled, finished, wrote, userPanic>>

\* The panic is written before source is closed.
GeneratorPanics ==
    /\ generator = "send" /\ ~userPanic
    /\ userPanic' = TRUE /\ wrote' = TRUE
    /\ generator' = IF wrote THEN "closed" ELSE "panic"
    /\ UNCHANGED <<callerVars, sent, executor, mapper, failed, collector, collectorClosed, once,
                   cancelled, finished>>

\* drain(source) by the holder of cancel's Once or by the finished executor.
Draining == once \in Processes \/ executor = "drain"

DrainSource ==
    /\ Draining /\ generator = "send" /\ sent < Items
    /\ sent' = sent + 1
    /\ UNCHANGED <<callerVars, generator, executor, mapper, failed, collector, collectorClosed, once,
                   cancelled, finished, wrote, userPanic>>

-----------------------------------------------------------------------------
(* executeMappers                                                          *)

\* The select: a worker's place, or the end of it.
ExecutorLoop ==
    /\ executor = "loop"
    /\ \/ ~failed /\ Cardinality(Running) < Workers /\ executor' = "receive"
       \/ (failed \/ ctxDone \/ finished) /\ executor' = "wait"
    /\ UNCHANGED <<callerVars, generator, sent, mapper, failed, collector, collectorClosed, once,
                   cancelled, finished, wrote, userPanic>>

ExecutorReceives ==
    /\ executor = "receive"
    /\ \/ /\ generator = "send" /\ sent < Items
          /\ sent' = sent + 1
          /\ mapper' = [i \in Started \cup {sent'} |-> IF i = sent' THEN "run" ELSE mapper[i]]
          /\ executor' = "loop"
       \/ /\ generator = "closed"
          /\ executor' = "wait" /\ UNCHANGED <<sent, mapper>>
    /\ UNCHANGED <<callerVars, generator, failed, collector, collectorClosed, once,
                   cancelled, finished, wrote, userPanic>>

\* Faulty variant: the collector is closed without waiting for the mappers.
ExecutorClosesEarly ==
    /\ executor = "wait"
    /\ collectorClosed' = TRUE /\ executor' = "drain"
    /\ UNCHANGED <<callerVars, generator, sent, mapper, failed, collector, once,
                   cancelled, finished, wrote, userPanic>>

ExecutorCloses ==
    /\ executor = "wait" /\ Running = {}
    /\ collectorClosed' = TRUE /\ executor' = "drain"
    /\ UNCHANGED <<callerVars, generator, sent, mapper, failed, collector, once,
                   cancelled, finished, wrote, userPanic>>

ExecutorEnds ==
    /\ executor = "drain" /\ generator = "closed"
    /\ executor' = "end"
    /\ UNCHANGED <<callerVars, generator, sent, mapper, failed, collector, collectorClosed, once,
                   cancelled, finished, wrote, userPanic>>

-----------------------------------------------------------------------------
(* cancel: the first caller sets retErr, drains the source and finishes;   *)
(* the others wait for it in the Once.                                     *)

Enter(p) ==
    /\ once = Free
    /\ once' = p /\ cancelled' = TRUE /\ UNCHANGED finished

\* Faulty variant: the error is reported, the channels stay open.
LeaveOpen(p) ==
    \/ once = p /\ generator = "closed" /\ once' = Ran /\ UNCHANGED <<finished, cancelled>>
    \/ once = Ran /\ UNCHANGED <<once, finished, cancelled>>

Leave(p) ==
    \/ once = p /\ generator = "closed" /\ once' = Ran /\ finished' = TRUE /\ UNCHANGED cancelled
    \/ once = Ran /\ UNCHANGED <<once, finished, cancelled>>

\* A mapper runs: the user's function with its Write and its cancel.
MapperGoto(i, l) == mapper' = [mapper EXCEPT ![i] = l]

MapperRuns(i) ==
    /\ mapper[i] = "run"
    /\ \/ MapperGoto(i, "over")
       \/ /\ ~forEach
          /\ MapperGoto(i, IF ctxDone \/ finished THEN "after" ELSE "send")
    /\ UNCHANGED <<callerVars, generator, sent, executor, failed, collector, collectorClosed, once,
                   cancelled, finished, wrote, userPanic>>

\* guardedWriter.Write past its select.
MapperSends(i) ==
    /\ mapper[i] = "send" /\ collector < Workers
    /\ collector' = collector + 1 /\ MapperGoto(i, "after")
    /\ UNCHANGED <<callerVars, generator, sent, executor, failed, collectorClosed, once,
                   cancelled, finished, wrote, userPanic>>

MapperAfter(i) ==
    /\ mapper[i] = "after"
    /\ MapperGoto(i, "over")
    /\ UNCHANGED <<callerVars, generator, sent, executor, failed, collector, collectorClosed, once,
                   cancelled, finished, wrote, userPanic>>

MapperCancels(i) ==
    /\ mapper[i] = "run" /\ ~forEach
    /\ MapperGoto(i, "cancel")
    /\ Enter(<<"mapper", i>>) \/ (once # Free /\ UNCHANGED <<once, cancelled, finished>>)
    /\ UNCHANGED <<callerVars, generator, sent, executor, failed, collector, collectorClosed,
                   wrote, userPanic>>

MapperCanceled(i) ==
    /\ mapper[i] = "cancel" /\ Leave(<<"mapper", i>>)
    /\ MapperGoto(i, "over")
    /\ UNCHANGED <<callerVars, generator, sent, executor, failed, collector, collectorClosed,
                   wrote, userPanic>>

\* Recovered: failed stops the executor, and the first panic is written.
MapperPanics(i) ==
    /\ mapper[i] \in {"run", "after"} /\ ~userPanic
    /\ userPanic' = TRUE /\ failed' = TRUE /\ wrote' = TRUE
    /\ MapperGoto(i, IF wrote THEN "over" ELSE "panic")
    /\ UNCHANGED <<callerVars, generator, sent, executor, collector, collectorClosed, once,
                   cancelled, finished>>

-----------------------------------------------------------------------------
(* The reducer's goroutine                                                 *)

ReducerReceives ==
    /\ reducer \in {"reduce", "drain", "drainPanic"}
    /\ collector > 0
    /\ collector' = collector - 1 /\ got' = got + 1
    /\ UNCHANGED <<forEach, ctxDone, caller, reducer, generator, sent, executor, mapper, failed, collectorClosed,
                   once, cancelled, finished, wrote, userPanic>>

ReducerSeesEnd ==
    /\ reducer = "reduce" /\ collector = 0 /\ collectorClosed
    /\ reducer' = "atEnd"
    /\ UNCHANGED <<forEach, ctxDone, caller, got, generator, sent, executor, mapper, failed, collector,
                   collectorClosed, once, cancelled, finished, wrote, userPanic>>

ReducerRuns ==
    /\ reducer \in {"reduce", "atEnd"}
    /\ reducer' \in {"drain", IF ctxDone \/ finished THEN "after" ELSE "send"}
    /\ UNCHANGED <<forEach, ctxDone, caller, got, generator, sent, executor, mapper, failed, collector,
                   collectorClosed, once, cancelled, finished, wrote, userPanic>>

ReducerCancels ==
    /\ reducer \in {"reduce", "atEnd", "after"}
    /\ reducer' = "cancel"
    /\ Enter(<<"reducer", 0>>) \/ (once # Free /\ UNCHANGED <<once, cancelled, finished>>)
    /\ UNCHANGED <<forEach, ctxDone, caller, got, generator, sent, executor, mapper, failed, collector,
                   collectorClosed, wrote, userPanic>>

ReducerCanceled ==
    /\ reducer = "cancel" /\ Leave(<<"reducer", 0>>)
    /\ reducer' = "drain"
    /\ UNCHANGED <<forEach, ctxDone, caller, got, generator, sent, executor, mapper, failed, collector,
                   collectorClosed, wrote, userPanic>>

ReducerReturns ==
    /\ reducer = "after"
    /\ reducer' = "drain"
    /\ UNCHANGED <<forEach, ctxDone, caller, got, generator, sent, executor, mapper, failed, collector,
                   collectorClosed, once, cancelled, finished, wrote, userPanic>>

\* The user's panic, or the send on an output that finish has closed.
ReducerPanics ==
    /\ \/ reducer \in {"reduce", "atEnd", "after"} /\ ~userPanic /\ userPanic' = TRUE
       \/ reducer = "send" /\ finished /\ UNCHANGED userPanic
    /\ reducer' = "drainPanic"
    /\ UNCHANGED <<forEach, ctxDone, caller, got, generator, sent, executor, mapper, failed, collector,
                   collectorClosed, once, cancelled, finished, wrote>>

\* The deferred function: the collector to its end, the panic, finish.
ReducerDrained ==
    /\ collector = 0 /\ collectorClosed
    /\ \/ reducer = "drain" /\ reducer' = "end" /\ finished' = TRUE /\ UNCHANGED wrote
       \/ /\ reducer = "drainPanic" /\ wrote' = TRUE
          /\ IF wrote
             THEN reducer' = "end" /\ finished' = TRUE
             ELSE reducer' = "panic" /\ UNCHANGED finished
    /\ UNCHANGED <<forEach, ctxDone, caller, got, generator, sent, executor, mapper, failed, collector,
                   collectorClosed, once, cancelled, userPanic>>

-----------------------------------------------------------------------------
(* The caller of MapReduce or ForEach                                      *)

CallerCtxDone ==
    /\ caller = "select" /\ ~forEach /\ ctxDone
    /\ caller' = "cancel"
    /\ Enter(<<"caller", 0>>) \/ (once # Free /\ UNCHANGED <<once, cancelled, finished>>)
    /\ UNCHANGED <<forEach, ctxDone, reducer, got, generator, sent, executor, mapper, failed, collector,
                   collectorClosed, wrote, userPanic>>

CallerCanceled ==
    /\ caller = "cancel" /\ Leave(<<"caller", 0>>)
    /\ caller' = "range"
    /\ UNCHANGED <<forEach, ctxDone, reducer, got, generator, sent, executor, mapper, failed, collector,
                   collectorClosed, wrote, userPanic>>

\* Whoever wrote to panicChan goes on, and the caller is about to panic.
CallerGetsPanic ==
    /\ caller = "select"
    /\ caller' = IF forEach THEN "panicked" ELSE "drainOutput"
    /\ \/ generator = "panic" /\ generator' = "closed" /\ UNCHANGED <<mapper, reducer, finished>>
       \/ \E i \in Started :
            /\ mapper[i] = "panic" /\ MapperGoto(i, "over")
            /\ UNCHANGED <<generator, reducer, finished>>
       \/ reducer = "panic" /\ reducer' = "end" /\ finished' = TRUE /\ UNCHANGED <<generator, mapper>>
    /\ UNCHANGED <<forEach, ctxDone, got, sent, executor, failed, collector, collectorClosed, once,
                   cancelled, wrote, userPanic>>

\* The reducer's value, which its sender leaves behind.
CallerReceives ==
    /\ caller \in {"select", "drainOutput"} /\ reducer = "send" /\ ~finished
    /\ reducer' = "after"
    /\ caller' = IF caller = "select" THEN "range" ELSE caller
    /\ UNCHANGED <<forEach, ctxDone, got, generator, sent, executor, mapper, failed, collector,
                   collectorClosed, once, cancelled, finished, wrote, userPanic>>

\* A closed output ends the select, the drain and the deferred range; ForEach
\* ends with its collector.
CallerEnds ==
    /\ \/ caller = "select" /\ ~forEach /\ finished /\ caller' = "range"
       \/ caller = "range" /\ finished /\ caller' = "returned"
       \/ caller = "drainOutput" /\ finished /\ caller' = "panicked"
       \/ caller = "select" /\ forEach /\ collectorClosed /\ caller' = "returned"
    /\ UNCHANGED <<forEach, ctxDone, reducer, got, generator, sent, executor, mapper, failed, collector,
                   collectorClosed, once, cancelled, finished, wrote, userPanic>>

MapperStep(i) ==
    /\ i \in Started
    /\ MapperRuns(i) \/ MapperSends(i) \/ MapperAfter(i) \/ MapperCancels(i) \/ MapperCanceled(i) \/ MapperPanics(i)

ExecutorStep == ExecutorLoop \/ ExecutorReceives \/ ExecutorCloses \/ ExecutorEnds
ReducerStep ==
    ReducerReceives \/ ReducerSeesEnd \/ ReducerRuns \/ ReducerCancels \/ ReducerCanceled
    \/ ReducerReturns \/ ReducerPanics \/ ReducerDrained
CallerStep == CallerCtxDone \/ CallerCanceled \/ CallerGetsPanic \/ CallerReceives \/ CallerEnds

Next ==
    \/ CtxDone \/ GeneratorReturns \/ GeneratorPanics \/ DrainSource
    \/ ExecutorStep \/ ReducerStep \/ CallerStep
    \/ \E i \in 1..Items : MapperStep(i)

\* Every goroutine gets to run, and the user's functions return.
Spec ==
    /\ Init /\ [][Next]_vars
    /\ WF_vars(GeneratorReturns) /\ WF_vars(DrainSource) /\ WF_vars(ExecutorStep)
    /\ WF_vars(ReducerStep) /\ WF_vars(CallerStep)
    /\ \A i \in 1..Items : WF_vars(MapperStep(i))

\* A reducer that reads its pipe to the end has received every output of
\* every item, unless the run was canceled or something panicked.
PipeComplete ==
    reducer = "atEnd" /\ ~cancelled /\ ~ctxDone /\ ~failed /\ generator = "closed" /\ ~userPanic
        => /\ Started = 1..Items /\ Running = {} /\ collector = 0

\* Unless a user's function panics, the call ends, and once it has, so do
\* the goroutines it started; only a reducer caught sending on the closed
\* output stays behind in panicChan.write.
Over ==
    /\ caller \in {"returned", "panicked"} /\ executor = "end" /\ Running = {}
    /\ generator = "closed" /\ reducer \in {"end", "panic"}
CallEnds == <>[](userPanic \/ Over)
=============================================================================
