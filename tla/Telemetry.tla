------------------------------ MODULE Telemetry ------------------------------
(***************************************************************************)
(* The runtime a server applies before it serves and shuts down after it   *)
(* (pkg/options): plain slog (slog_options.go) and the OpenTelemetry       *)
(* providers of the three signals (otel_options.go), as ServerOptions      *)
(* brings them up and down.  Each of them may fail halfway, with files and *)
(* exporters already made.                                                 *)
(*                                                                         *)
(* Apply and Shutdown hold o.mu, so they do not overlap.  A resource is    *)
(* known by the Apply that made it, a number.  A provider that was told to *)
(* shut down is gone, with an error or without.                            *)
(***************************************************************************)
EXTENDS Naturals, FiniteSets

CONSTANTS
    Modes,          \* OutputMode: "otel", "file", "console", "classic", "hybrid"
    Outputs,        \* SlogOptions.Output: "stdout", "file"
    MaxApplies      \* bound: calls of Apply

Signals == {"traces", "metrics", "logs"}
None == 0

VARIABLES
    mode, output,
    step,           \* "idle", or what Apply or Shutdown does next
    failed,         \* the last Apply failed to start a provider
    gen,            \* the number of the current Apply
    providers,      \* o.providers: the provider of each signal, or None
    files,          \* o.files: files whose closing is owed, <<apply, signal>>
    closer,         \* SlogOptions.closer
    live,           \* providers that run, <<apply, signal>>
    open,           \* open output files, <<apply, signal>>
    slogOpen,       \* open slog files, by apply
    default,        \* the global slog logger: <<apply, "slog">> or <<apply, "logs">>
    superseded      \* history: providers a later Apply took the place of

otelVars == <<providers, files, live, open, superseded>>
slogVars == <<closer, slogOpen>>
vars == <<mode, output, step, failed, gen, otelVars, slogVars, default>>

Init ==
    /\ mode \in Modes /\ output \in Outputs
    /\ step = "idle" /\ failed = FALSE /\ gen = 0
    /\ providers = [s \in Signals |-> None] /\ files = {} /\ closer = None
    /\ live = {} /\ open = {} /\ slogOpen = {}
    /\ default = <<None, "slog">> /\ superseded = {}

------------------------------------------------------------------------------
(* Apply.                                                                  *)

Apply ==
    /\ step = "idle" /\ gen < MaxApplies
    /\ gen' = gen + 1 /\ step' = "slog" /\ failed' = FALSE
    /\ UNCHANGED <<mode, output, otelVars, slogVars, default>>

\* SlogOptions.Apply: the file of a previous Apply is closed once the new one is
\* open.  A failure ends ServerOptions.Apply.
SlogApply(ok) ==
    /\ step = "slog"
    /\ ok \/ output = "file"
    /\ step' = IF ok THEN "traces" ELSE "idle"
    /\ default' = IF ok THEN <<gen, "slog">> ELSE default
    /\ closer' = IF ok /\ output = "file" THEN gen ELSE closer
    /\ slogOpen' = IF ok /\ output = "file" THEN (slogOpen \ {closer}) \cup {gen} ELSE slogOpen
    /\ UNCHANGED <<mode, output, failed, gen, otelVars>>

\* Faulty: a failure leaves what was made so far.
rollbackLockedNot == step' = "idle"

\* A failing signal takes everything made so far down again.
rollbackLocked == step' = "stop traces"

\* Faulty: the caller keeps the file, nobody is to close it.
createFileWriterUntracked(s) ==
    /\ open' = open \cup {<<gen, s>>}
    /\ UNCHANGED files

createFileWriter(s) ==
    /\ open' = open \cup {<<gen, s>>}
    /\ files' = files \cup {<<gen, s>>}

\* Classic and hybrid leave logging to slog, and classic mode's exporter of
\* traces does nothing.
Skipped(s) == s = "logs" /\ mode \in {"classic", "hybrid"}
Infallible(s) == Skipped(s) \/ (s = "traces" /\ mode = "classic")

\* The file cannot be opened, or (with the file open) the exporter not be made.
InitFails(s, opened) ==
    /\ step = s /\ ~Infallible(s) /\ (opened => mode = "file")
    /\ IF opened THEN createFileWriter(s) ELSE UNCHANGED <<open, files>>
    /\ rollbackLocked /\ failed' = TRUE
    /\ UNCHANGED <<mode, output, gen, providers, live, superseded, slogVars, default>>

\* An exporter and a provider with it, which becomes the global one.
Provided(s) ==
    /\ IF mode = "file" THEN createFileWriter(s) ELSE UNCHANGED <<open, files>>
    /\ live' = live \cup {<<gen, s>>}
    /\ providers' = [providers EXCEPT ![s] = gen]
    /\ superseded' = superseded \cup {<<providers[s], s>>}

initTraces ==
    /\ step = "traces" /\ step' = "metrics"
    /\ Provided("traces")
    /\ UNCHANGED <<mode, output, failed, gen, slogVars, default>>

initMetrics ==
    /\ step = "metrics" /\ step' = "logs"
    /\ Provided("metrics")
    /\ UNCHANGED <<mode, output, failed, gen, slogVars, default>>

\* The bridge becomes the global logger.
initLogs ==
    /\ step = "logs" /\ step' = "idle"
    /\ IF Skipped("logs") THEN UNCHANGED <<otelVars, default>>
       ELSE Provided("logs") /\ default' = <<gen, "logs">>
    /\ UNCHANGED <<mode, output, failed, gen, slogVars>>

------------------------------------------------------------------------------
(* Shutdown.                                                               *)

Shutdown ==
    /\ step = "idle"
    /\ step' = "stop traces" /\ failed' = FALSE
    /\ UNCHANGED <<mode, output, gen, otelVars, slogVars, default>>

\* shutdownLocked: each provider is stopped and forgotten, and flushes what it
\* has on the way.
StopProvider(s) ==
    /\ step = CASE s = "traces" -> "stop traces" [] s = "metrics" -> "stop metrics" [] s = "logs" -> "stop logs"
    /\ step' = CASE s = "traces" -> "stop metrics" [] s = "metrics" -> "stop logs" [] s = "logs" -> "close files"
    /\ live' = live \ {<<providers[s], s>>}
    /\ providers' = [providers EXCEPT ![s] = None]
    /\ UNCHANGED <<mode, output, failed, gen, files, open, superseded, slogVars, default>>

\* The files come last.  Apply's rollback ends here: the slog file stays open.
CloseFiles ==
    /\ step = "close files"
    /\ open' = open \ files /\ files' = {}
    /\ step' = IF failed THEN "idle" ELSE "close slog"
    /\ UNCHANGED <<mode, output, failed, gen, providers, live, superseded, slogVars, default>>

SlogShutdown ==
    /\ step = "close slog" /\ step' = "idle"
    /\ slogOpen' = slogOpen \ {closer} /\ closer' = None
    /\ UNCHANGED <<mode, output, failed, gen, otelVars, default>>

Next ==
    \/ Apply \/ initTraces \/ initMetrics \/ initLogs
    \/ Shutdown \/ CloseFiles \/ SlogShutdown
    \/ \E ok \in BOOLEAN : SlogApply(ok)
    \/ \E s \in Signals :
          StopProvider(s) \/ \E opened \in BOOLEAN : InitFails(s, opened)

Spec == Init /\ [][Next]_vars

------------------------------------------------------------------------------

(***************************************************************************)
(* otel_options.go:469: "a partial initialization does not leak            *)
(* resources".  After a failed Apply no provider runs and no file is open. *)
(* Between calls every running provider is one Shutdown would stop and     *)
(* every open file one it would close; only the providers of an Apply that *)
(* another Apply followed without a Shutdown between them are left to      *)
(* themselves.  And until then no provider outlives the file it writes to, *)
(* whatever failed (otel_options.go:532, files come last).                 *)
(***************************************************************************)
ResourcesOwned ==
    /\ step = "idle" /\ failed => live \subseteq superseded /\ open = {}
    /\ step = "idle" =>
         /\ live \subseteq {<<providers[s], s>> : s \in Signals} \cup superseded
         /\ open = files
         /\ slogOpen = {closer} \ {None}
    /\ mode = "file" => live \ superseded \subseteq open
==============================================================================
