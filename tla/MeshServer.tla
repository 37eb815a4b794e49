----------------------------- MODULE MeshServer -----------------------------
(***************************************************************************)
(* The life cycle of a mesh server: MeshServer.Run and GracefulStop        *)
(* (pkg/server/mesh.go), the errgroup that runs its servers                *)
(* (service_group.go), and the serve loop the gRPC and the HTTP server     *)
(* share (runner.go, grpc_server.go, http_server.go).                      *)
(*                                                                         *)
(* Servers are numbered in the order they were added to the group.         *)
(***************************************************************************)
EXTENDS Naturals

CONSTANTS
    N,         \* number of servers in the group
    Stoppers,  \* goroutines that call GracefulStop
    MaxRuns    \* how often Run is called on the MeshServer

Servers == 1..N

VARIABLES
    run,       \* where Run is, see RunPhase
    runs,      \* number of Run calls so far
    runtime,   \* are the runtime capabilities applied (logging, telemetry)?
    hooked,    \* s.cancel and s.done are published
    parent,    \* is the ctx given to Run canceled?
    ctx,       \* is the errgroup's context canceled?
    stopped,   \* has the sync.Once s.stop fired?
    next,      \* the next server ServiceGroup.Stop handles, counting down
    pc,        \* where Start of each server is, see ServerPhase
    serving,   \* the goroutine inside Serve: "none", "starting", "accepting", "ended"
    reg,       \* is the server's instance in the registry?
    regErr,    \* servers in the registry by a Register that failed: no registrar knows them
    deregErr,  \* servers in the registry that a failed Deregister left (it is only logged)
    gs         \* each GracefulStop call: "idle", the run it waits for, or how it returned

regVars == <<reg, regErr, deregErr>>
runVars == <<run, runs, runtime, hooked, stopped, next>>
srvVars == <<pc, serving, reg, regErr, deregErr>>
vars == <<runVars, parent, ctx, srvVars, gs>>

RunPhase == {"idle", "building", "started", "stopping", "clearing", "returning"}
ServerPhase == {"none", "listen", "register", "serve", "draining", "exited", "failed"}
StopCall == [at : {"idle", "waiting", "noop", "stopped", "timedout"}, run : 0..MaxRuns]

TypeOK ==
    /\ run \in RunPhase /\ runs \in 0..MaxRuns
    /\ {runtime, hooked, parent, ctx, stopped} \subseteq BOOLEAN
    /\ next \in 0..N
    /\ pc \in [Servers -> ServerPhase]
    /\ serving \in [Servers -> {"none", "starting", "accepting", "ended"}]
    /\ reg \in [Servers -> BOOLEAN] /\ {regErr, deregErr} \subseteq SUBSET Servers
    /\ gs \in [Stoppers -> StopCall]

Init ==
    /\ run = "idle" /\ runs = 0 /\ next = 0
    /\ runtime = FALSE /\ hooked = FALSE /\ parent = FALSE /\ ctx = FALSE /\ stopped = FALSE
    /\ pc = [s \in Servers |-> "none"]
    /\ serving = [s \in Servers |-> "none"]
    /\ reg = [s \in Servers |-> FALSE] /\ regErr = {} /\ deregErr = {}
    /\ gs = [g \in Stoppers |-> [at |-> "idle", run |-> 0]]

-----------------------------------------------------------------------------
(* Run.                                                                    *)

\* opts.Apply; when it fails Run returns at once and nothing has changed.
Run ==
    /\ run = "idle" /\ runs < MaxRuns
    /\ runs' = runs + 1
    /\ \/ run' = "building" /\ runtime' = TRUE
       \/ UNCHANGED <<run, runtime>>
    /\ UNCHANGED <<hooked, stopped, next, parent, ctx, srvVars, gs>>

\* build fails: only the deferred shutdown is left.
BuildFails ==
    /\ run = "building"
    /\ run' = "returning"
    /\ UNCHANGED <<runs, runtime, hooked, stopped, next, parent, ctx, srvVars, gs>>

\* build assembles a new group; the hooks are published; the group starts.
Start ==
    /\ run = "building"
    /\ run' = "started" /\ hooked' = TRUE
    /\ ctx' = parent
    /\ pc' = [s \in Servers |-> "listen"]
    /\ serving' = [s \in Servers |-> "none"]
    /\ UNCHANGED <<runs, runtime, stopped, next, parent, reg, regErr, deregErr, gs>>

Over(s) == pc[s] \in {"exited", "failed"}

\* Faulty variant: the first server to end ends the group.
StartReturnsEarly ==
    /\ run = "started" /\ \E s \in Servers : Over(s)
    /\ run' = IF stopped THEN "clearing" ELSE "stopping"
    /\ stopped' = TRUE /\ next' = N
    /\ UNCHANGED <<runs, runtime, hooked, parent, ctx, srvVars, gs>>

\* eg.Wait returned: stopGroup, whose body a sync.Once guards.
StartReturns ==
    /\ run = "started" /\ \A s \in Servers : Over(s)
    /\ run' = IF stopped THEN "clearing" ELSE "stopping"
    /\ stopped' = TRUE /\ next' = N
    /\ UNCHANGED <<runs, runtime, hooked, parent, ctx, srvVars, gs>>

\* The registry has no entry of the server any more.
Gone(s) ==
    /\ reg' = [reg EXCEPT ![s] = FALSE]
    /\ regErr' = regErr \ {s} /\ deregErr' = deregErr \ {s}

\* Faulty variant: servers whose Start has failed are not deregistered.
StopServerSkipsFailed ==
    /\ run = "stopping" /\ next > 0
    /\ reg' = [reg EXCEPT ![next] = pc[next] = "failed" /\ @]
    /\ serving' = [serving EXCEPT ![next] = IF @ = "none" THEN @ ELSE "ended"]
    /\ next' = next - 1
    /\ UNCHANGED <<run, runs, runtime, hooked, stopped, parent, ctx, pc, regErr, deregErr, gs>>

\* ServiceGroup.Stop, one server per step, last added first: Deregister
\* (its error is only logged), then the server's own shutdown.  After a failed
\* Register most registrars have no record of the instance and ask the registry
\* nothing; nacos asks it all the same.
StopServer ==
    /\ run = "stopping" /\ next > 0
    /\ \/ Gone(next)
       \/ reg[next] /\ deregErr' = deregErr \cup {next} /\ UNCHANGED <<reg, regErr>>
       \/ next \in regErr /\ UNCHANGED regVars
    /\ serving' = [serving EXCEPT ![next] = IF @ = "none" THEN @ ELSE "ended"]
    /\ next' = next - 1
    /\ UNCHANGED <<run, runs, runtime, hooked, stopped, parent, ctx, pc, gs>>

StopReturns ==
    /\ run = "stopping" /\ next = 0
    /\ run' = "clearing"
    /\ UNCHANGED <<runs, runtime, hooked, stopped, next, parent, ctx, srvVars, gs>>

\* The hooks are cleared and done is closed.
Clear ==
    /\ run = "clearing"
    /\ run' = "returning" /\ hooked' = FALSE
    /\ UNCHANGED <<runs, runtime, stopped, next, parent, ctx, srvVars, gs>>

\* The deferred shutdown releases the runtime, and Run returns.
Return ==
    /\ run = "returning"
    /\ run' = "idle" /\ runtime' = FALSE
    /\ UNCHANGED <<runs, hooked, stopped, next, parent, ctx, srvVars, gs>>

-----------------------------------------------------------------------------
(* Start of a server: the serve function.                                  *)

\* Faulty variant: a failing server does not cancel its siblings.
FailAlone(s) == pc' = [pc EXCEPT ![s] = "failed"] /\ UNCHANGED ctx

\* serve returns an error: the errgroup cancels the context of all servers.
Fail(s) == pc' = [pc EXCEPT ![s] = "failed"] /\ ctx' = TRUE

Listen(s) ==
    /\ pc[s] = "listen"
    /\ \/ pc' = [pc EXCEPT ![s] = "register"] /\ UNCHANGED ctx
       \/ Fail(s)
    /\ UNCHANGED <<runVars, parent, serving, reg, regErr, deregErr, gs>>

\* Register, and the goroutine that serves.  A Register that fails may have
\* reached the registry all the same: the answer was lost, or a later call of
\* the same Register failed (etcd's KeepAlive after its Put).
Register(s) ==
    /\ pc[s] = "register"
    /\ \/ /\ pc' = [pc EXCEPT ![s] = "serve"]
          /\ reg' = [reg EXCEPT ![s] = TRUE]
          /\ serving' = [serving EXCEPT ![s] = "starting"]
          /\ regErr' = regErr \ {s} /\ deregErr' = deregErr \ {s}
          /\ UNCHANGED ctx
       \/ Fail(s) /\ UNCHANGED <<serving, regVars>>
       \/ /\ Fail(s) /\ UNCHANGED <<serving, deregErr>>
          /\ reg' = [reg EXCEPT ![s] = TRUE] /\ regErr' = regErr \cup {s}
    /\ UNCHANGED <<runVars, parent, gs>>

\* What the registry holds of a server that nothing keeps alive runs out.
Expire(s) ==
    /\ s \in regErr \cup deregErr /\ Gone(s)
    /\ UNCHANGED <<runVars, parent, ctx, pc, serving, gs>>

\* Serve accepts connections, until the server is shut down.
ServeStarts(s) ==
    /\ serving[s] = "starting"
    /\ serving' = [serving EXCEPT ![s] = "accepting"]
    /\ UNCHANGED <<runVars, parent, ctx, pc, reg, regErr, deregErr, gs>>

\* Serve ends on its own: an accept failure.
ServeFails(s) ==
    /\ serving[s] = "accepting" /\ pc[s] = "serve"
    /\ serving' = [serving EXCEPT ![s] = "ended"]
    /\ Fail(s)
    /\ UNCHANGED <<runVars, parent, reg, regErr, deregErr, gs>>

\* Faulty variant: Shutdown does not reach the goroutine inside Serve.
ShutdownNobody(s) ==
    /\ pc[s] = "serve" /\ ctx
    /\ pc' = [pc EXCEPT ![s] = "draining"]
    /\ UNCHANGED <<runVars, parent, ctx, serving, reg, regErr, deregErr, gs>>

\* The context is canceled: Shutdown stops accepting (a Serve that has not
\* started yet returns the closed error at once).
Shutdown(s) ==
    /\ pc[s] = "serve" /\ ctx
    /\ pc' = [pc EXCEPT ![s] = "draining"]
    /\ serving' = [serving EXCEPT ![s] = "ended"]
    /\ UNCHANGED <<runVars, parent, ctx, reg, regErr, deregErr, gs>>

\* The result of Serve is read: the closed error counts as a clean exit.
Drained(s) ==
    /\ pc[s] = "draining" /\ serving[s] = "ended"
    /\ pc' = [pc EXCEPT ![s] = "exited"]
    /\ UNCHANGED <<runVars, parent, ctx, serving, reg, regErr, deregErr, gs>>

-----------------------------------------------------------------------------
(* GracefulStop and the caller of Run.                                     *)

\* Faulty variant: the completion of the run is not waited for.
GracefulStopNoWait(g) ==
    /\ gs[g].at = "idle"
    /\ gs' = [gs EXCEPT ![g] = [at |-> IF hooked THEN "stopped" ELSE "noop", run |-> runs]]
    /\ ctx' = (ctx \/ hooked)
    /\ UNCHANGED <<runVars, parent, srvVars>>

GracefulStop(g) ==
    /\ gs[g].at = "idle"
    /\ gs' = [gs EXCEPT ![g] = [at |-> IF hooked THEN "waiting" ELSE "noop", run |-> runs]]
    /\ ctx' = (ctx \/ hooked)
    /\ UNCHANGED <<runVars, parent, srvVars>>

\* done of the run it caught is closed.
RunDone(r) == runs > r \/ ~hooked

GracefulStopReturns(g) ==
    /\ gs[g].at = "waiting"
    /\ \/ RunDone(gs[g].run) /\ gs' = [gs EXCEPT ![g].at = "stopped"]
       \/ gs' = [gs EXCEPT ![g].at = "timedout"]
    /\ UNCHANGED <<runVars, parent, ctx, srvVars>>

\* The context given to Run is canceled, and with it the contexts below it.
CancelParent ==
    /\ ~parent
    /\ parent' = TRUE /\ ctx' = TRUE
    /\ UNCHANGED <<runVars, srvVars, gs>>

ServerStep(s) == \/ Listen(s) \/ Register(s) \/ ServeStarts(s) \/ Shutdown(s) \/ Drained(s)
RunStep == \/ BuildFails \/ Start \/ StartReturns \/ StopServer \/ StopReturns \/ Clear \/ Return

Next ==
    \/ Run \/ RunStep
    \/ \E s \in Servers : ServerStep(s) \/ ServeFails(s) \/ Expire(s)
    \/ \E g \in Stoppers : GracefulStop(g) \/ GracefulStopReturns(g)
    \/ CancelParent

Spec == Init /\ [][Next]_vars

\* Goroutines that can run do; a Shutdown ends because it has a deadline.
FairSpec ==
    /\ Spec
    /\ WF_vars(RunStep)
    /\ \A s \in Servers : WF_vars(ServerStep(s))
    /\ \A g \in Stoppers : WF_vars(GracefulStopReturns(g))

-----------------------------------------------------------------------------
(* Properties.                                                             *)

\* The registry holds no instance it had confirmed and was not asked to remove:
\* whatever is left there was never known to be there (its Register failed and
\* took effect) or was refused removal.  And nobody accepts connections.
Quiet == \A s \in Servers : (reg[s] => s \in regErr \cup deregErr) /\ serving[s] # "accepting"

\* When the first Run has returned, whatever made it stop and whoever raced
\* it, every server that registered is deregistered and none accepts
\* connections.  (A second Run finds s.stop spent, and nothing deregisters its
\* servers.)
QuietWhenReturned == run = "idle" /\ runs <= 1 => Quiet

\* A GracefulStop that caught the first run and returned nil returned after
\* the run's servers had stopped and had been deregistered.
StopMeansStopped ==
    \A g \in Stoppers : gs[g].at = "stopped" /\ gs[g].run = 1 /\ runs = 1 => Quiet

\* No server accepts connections before the runtime (logging, telemetry) is
\* up or after it has been released.
RuntimeOutlivesServers == \A s \in Servers : serving[s] = "accepting" => runtime

\* Canceling the context, a GracefulStop that caught the run, or one server's
\* failure ends the run: no sibling goes on alone and none of the teardown's
\* steps is left waiting.
RunEnds ==
    []<>(\/ run \in {"idle", "building"}
         \/ run = "started" /\ ~ctx /\ \A s \in Servers : pc[s] # "failed")
=============================================================================
