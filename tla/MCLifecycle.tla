----------------------------- MODULE MCLifecycle -----------------------------
(* The life of a service instance: its server and the requests it answers,  *)
(* the telemetry it keeps, and its entry in the registry.  The parts are    *)
(* tied by calls whose outcome each leaves open (Register and Deregister of *)
(* a registrar succeed or fail for the server), so they are explored one at *)
(* a time: `part` picks the one a behaviour is about.                       *)
EXTENDS EtcdRegistrar

CONSTANTS
    N, Stoppers, MaxRuns,                              \* MeshServer
    Backends, MaxRegisters, Lifetime, MaxTime,         \* Registrars
    Requests, Kinds, Layouts,                          \* RequestPipeline
    Modes, Outputs, MaxApplies,                        \* Telemetry
    Loggers, MaxHandlers, MaxRecords                   \* LogHandler

ASSUME ServersCounted == N \in Nat /\ MaxRuns \in Nat
ASSUME RegistersCounted == MaxRegisters \in Nat /\ Lifetime \in Nat
ASSUME HandlersCounted == MaxHandlers \in Nat
ASSUME RequestsCounted == IsFiniteSet(Requests) /\ Layouts \subseteq {"flat", "matched"}

VARIABLES
    part,
    run, runs, runtime, hooked, parent, ctx, stopped, next, server, serving, reg, regErr,
    deregErr, gs,
    backend, register, stop, stops, beat, deregister, destroyed, entry, age, misses, dropped,
    removed, now,
    layout, kind, at, i, frames, err, written, pool, tr, refused, handled, span, metric, active,
    mode, output, step, failed, gen, providers, files, closer, started, open, slogOpen, default,
    superseded,
    handlers, cells, recs, records, given

Mesh == INSTANCE MeshServer WITH pc <- server
Others == INSTANCE Registrars WITH
    Kinds <- Backends, kind <- backend, reg <- register, closed <- stops, dereg <- deregister
Pipeline == INSTANCE RequestPipeline WITH RouteChain <- <<"ratelimit">>
Otel == INSTANCE Telemetry WITH live <- started
Log == INSTANCE LogHandler WITH Procs <- Loggers

meshVars == <<run, runs, runtime, hooked, parent, ctx, stopped, next, server, serving, reg,
              regErr, deregErr, gs>>
otherVars == <<backend, register, stop, stops, beat, deregister, destroyed, entry, age, misses,
               dropped, removed, now>>
pipelineVars == <<layout, kind, at, i, frames, err, written, pool, tr, refused, handled, span,
                  metric, active>>
otelVars == <<mode, output, step, failed, gen, providers, files, closer, started, open, slogOpen,
              default, superseded>>
logVars == <<handlers, cells, recs, records, given>>
allVars == <<part, vars, meshVars, otherVars, pipelineVars, otelVars, logVars>>

AllInit ==
    /\ part \in {"etcd", "mesh", "others", "pipeline", "otel", "log"}
    /\ Init /\ Mesh!Init /\ Others!Init /\ Pipeline!Init /\ Otel!Init /\ Log!Init
    /\ part # "others" => backend = "consul"
    /\ part # "pipeline" =>
         layout = (CHOOSE l \in Layouts : TRUE) /\ \A r \in Requests : kind[r] = "grpc"
    /\ part # "otel" => mode = "classic" /\ output = "stdout"

AllNext ==
    \/ /\ part = "etcd" /\ Next
       /\ UNCHANGED <<part, meshVars, otherVars, pipelineVars, otelVars, logVars>>
    \/ /\ part = "mesh" /\ Mesh!Next
       /\ UNCHANGED <<part, vars, otherVars, pipelineVars, otelVars, logVars>>
    \/ /\ part = "others" /\ Others!Next
       /\ UNCHANGED <<part, vars, meshVars, pipelineVars, otelVars, logVars>>
    \/ /\ part = "pipeline" /\ Pipeline!Next
       /\ UNCHANGED <<part, vars, meshVars, otherVars, otelVars, logVars>>
    \/ /\ part = "otel" /\ Otel!Next
       /\ UNCHANGED <<part, vars, meshVars, otherVars, pipelineVars, logVars>>
    \/ /\ part = "log" /\ Log!Next
       /\ UNCHANGED <<part, vars, meshVars, otherVars, pipelineVars, otelVars>>

\* etcd does not fail every call, a lease nobody renews expires and its channel
\* closes; the server's goroutines run and its calls return.
AllSpec ==
    /\ AllInit /\ [][AllNext]_allVars
    /\ SF_vars(part = "etcd" /\ \E a \in Actor : GrantOK(a))
    /\ SF_vars(part = "etcd" /\ \E a \in Actor : PutOK(a))
    /\ SF_vars(part = "etcd" /\ \E a \in Actor : KeepAliveOK(a))
    /\ \A a \in Actor : WF_vars(part = "etcd" /\ RegisterStep(a))
    /\ \A l \in Lease :
         /\ WF_vars(part = "etcd" /\ Drained(l)) /\ WF_vars(part = "etcd" /\ Loop(l))
         /\ WF_vars(part = "etcd" /\ Expire(l) /\ ~Renewed(l))
         /\ WF_vars(part = "etcd" /\ KeepaliveLost(l) /\ l \notin live)
    /\ WF_meshVars(part = "mesh" /\ Mesh!RunStep)
    /\ \A s \in 1..N : WF_meshVars(part = "mesh" /\ Mesh!ServerStep(s))
    /\ \A g \in Stoppers : WF_meshVars(part = "mesh" /\ Mesh!GracefulStopReturns(g))

\* What a finished run, or a GracefulStop that returned nil, leaves behind, and
\* that no server accepts without the runtime (MeshServer).
QuietWhenStopped ==
    Mesh!QuietWhenReturned /\ Mesh!StopMeansStopped /\ Mesh!RuntimeOutlivesServers
\* Cancellation and failures end a run (MeshServer).
RunEnds == Mesh!RunEnds
\* One heartbeat, and it keeps the entry (Registrars).
HeartbeatKeepsEntry == Others!HeartbeatKeepsEntry
\* What operators see is true: span, metric and answer of a request agree, the
\* in-flight count too (RequestPipeline), a log record shows the attributes its
\* logger was given wherever others were derived from it (LogHandler), and what
\* exports all this is shut down with the runtime, whatever failed on the way
\* up (Telemetry).
TelemetryHolds == Pipeline!RecordsAgree /\ Log!AttrsKept /\ Otel!ResourcesOwned
\* Every request is recorded as it was answered (RequestPipeline).
EveryRequestAccounted == Pipeline!EveryRequestAccounted
\* A record lies within the groups of its logger (LogHandler).
RecordInItsGroups == Log!RecordInItsGroups
==============================================================================
