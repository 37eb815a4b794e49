------------------------------ MODULE Registrars ------------------------------
(***************************************************************************)
(* The registrars other than etcd's (pkg/registry): consul and eureka keep *)
(* an entry alive with a heartbeat goroutine of their own, polaris and     *)
(* nacos leave the beats to their SDK, static and kubernetes do nothing.   *)
(* The registry server is modelled as far as they use it: one entry, with  *)
(* the time since its last renewal.                                        *)
(*                                                                         *)
(* Time is counted in heartbeat intervals (half the TTL).  A heartbeat     *)
(* only renews: it never registers again, so an entry the server dropped   *)
(* stays away.  Register calls the server first and takes the lock for the *)
(* local state afterwards; Deregister does it the other way round.         *)
(***************************************************************************)
EXTENDS Naturals, FiniteSets

CONSTANTS
    Kinds,          \* backends: "consul", "eureka", "polaris", "nacos", "static"
    MaxRegisters,   \* bound: Register calls
    Lifetime,       \* intervals without a renewal after which an entry is dropped
    MaxTime         \* bound: intervals that pass

Calls == 1..MaxRegisters
NoCall == 0

VARIABLES
    kind,       \* the backend
    reg,        \* each Register call: "none", "server", "local", "ok", "failed"
    stop,       \* r.stop: the call whose heartbeat is current; for polaris and
                \* nacos the call that registered (r.registered); NoCall: nil
    closed,     \* calls whose stop channel is closed
    beat,       \* heartbeat of each call: "none", "due", "wait", "gone"
    dereg,      \* Deregister: "none", "server", "ok", "failed"
    destroyed,  \* polaris: provider.Destroy() was called
    entry,      \* does the server have the entry?
    age,        \* intervals since its last renewal
    misses,     \* history: beats failed in a row, or all from now on
    dropped,    \* history: the server lost the entry by itself (a restart)
    removed,    \* history: some Deregister reached the server
    now

localVars == <<reg, stop, closed, dereg, destroyed, removed>>
serverVars == <<entry, age, misses, dropped>>
vars == <<kind, localVars, beat, serverVars, now>>

\* Who sends the beats: the registrar itself, or the SDK until it is told.
OwnBeat == kind \in {"consul", "eureka"}

\* static and kubernetes: both calls return nil and do nothing.
Noop == kind = "static"

Init ==
    /\ kind \in Kinds
    /\ reg = [c \in Calls |-> "none"]
    /\ stop = NoCall /\ closed = {}
    /\ beat = [c \in Calls |-> "none"]
    /\ dereg = "none" /\ destroyed = FALSE
    /\ entry = FALSE /\ age = 0
    /\ misses = 0 /\ dropped = FALSE /\ removed = FALSE
    /\ now = 0

------------------------------------------------------------------------------
(* Register.  Calls come one after the other.                              *)

Register(c) ==
    /\ reg[c] = "none" /\ \A b \in Calls : b < c => reg[b] \in {"ok", "failed"}
    /\ dereg # "server"
    /\ reg' = [reg EXCEPT ![c] = IF Noop THEN "ok" ELSE "server"]
    /\ dereg' = "none"
    /\ UNCHANGED <<kind, stop, closed, destroyed, removed, beat, serverVars, now>>

\* The server's answer.  An error, or for eureka and nacos a refusal, ends
\* Register; the request may have taken effect all the same.
ServerAnswers(c, ok, effect) ==
    /\ reg[c] = "server" /\ (ok => effect)
    /\ reg' = [reg EXCEPT ![c] = IF ok THEN "local" ELSE "failed"]
    /\ entry' = (entry \/ effect)
    /\ age' = IF effect THEN 0 ELSE age
    /\ misses' = IF effect THEN 0 ELSE misses
    /\ dropped' = (dropped /\ ~effect)
    /\ removed' = (removed /\ ~effect)
    /\ UNCHANGED <<kind, stop, closed, dereg, destroyed, beat, now>>

\* Under r.mu: store the new stop channel and start the heartbeat.  consul passes
\* its check at once, eureka waits for the ticker.
Started(c) ==
    /\ reg[c] = "local"
    /\ reg' = [reg EXCEPT ![c] = "ok"]
    /\ stop' = c
    /\ beat' = [beat EXCEPT ![c] = IF kind = "consul" THEN "due" ELSE "wait"]
    /\ UNCHANGED <<kind, dereg, destroyed, removed, serverVars, now>>

\* Faulty: the previous heartbeat keeps its channel.
StoreLeaksOld(c) == Started(c) /\ UNCHANGED closed

\* The previous stop channel is closed first.
Store(c) ==
    /\ Started(c)
    /\ closed' = IF OwnBeat /\ stop # NoCall THEN closed \cup {stop} ELSE closed

------------------------------------------------------------------------------
(* heartbeat.                                                              *)

\* A beat is sent and answered.  It renews an entry that is there; when it
\* fails or the entry is unknown the error is logged at most.
Renewed(c, ok) ==
    /\ beat[c] = "due"
    /\ age' = IF ok /\ entry THEN 0 ELSE age
    /\ misses' = IF ok /\ entry THEN 0 ELSE misses + 1
    /\ UNCHANGED <<kind, localVars, entry, dropped, now>>

\* Faulty: the heartbeat returns on its first error.
BeatReturnsOnError(c, ok) ==
    Renewed(c, ok) /\ beat' = [beat EXCEPT ![c] = IF ok THEN "wait" ELSE "gone"]

Beat(c, ok) ==
    Renewed(c, ok) /\ beat' = [beat EXCEPT ![c] = "wait"]

\* <-stop.  The select may pick the ticker first while both are ready.  The
\* SDK's beats of polaris end with Destroy, those of nacos with the deregistration.
BeatStops(c) ==
    /\ beat[c] \in {"due", "wait"}
    /\ IF OwnBeat THEN c \in closed ELSE stop # c /\ (kind = "polaris" => destroyed)
    /\ beat' = [beat EXCEPT ![c] = "gone"]
    /\ UNCHANGED <<kind, localVars, serverVars, now>>

------------------------------------------------------------------------------
(* Deregister.                                                             *)

\* nacos keeps no state and always calls the server; the others do not without a
\* heartbeat (r.stop = nil, !r.registered).
CallsServer == ~Noop /\ (kind = "nacos" \/ stop # NoCall)

Deregister ==
    /\ dereg \in {"none", "ok", "failed"}
    /\ \A c \in Calls : reg[c] \in {"none", "ok", "failed"}
    /\ \E c \in Calls : reg[c] # "none"
    /\ dereg' = IF CallsServer THEN "server" ELSE "ok"
    /\ closed' = IF OwnBeat /\ stop # NoCall THEN closed \cup {stop} ELSE closed
    /\ stop' = NoCall
    /\ UNCHANGED <<kind, reg, destroyed, removed, beat, serverVars, now>>

\* polaris destroys its SDK context only after success.
Destroys(ok) == ok /\ kind = "polaris"

\* The call to the server; eureka does not look at the status of the answer.
DeregisterAnswers(ok, effect) ==
    /\ dereg = "server" /\ ((ok /\ kind # "eureka") => effect)
    /\ dereg' = IF ok THEN "ok" ELSE "failed"
    /\ destroyed' = (destroyed \/ Destroys(ok))
    /\ entry' = (entry /\ ~effect)
    /\ removed' = (removed \/ effect)
    /\ UNCHANGED <<kind, reg, stop, closed, beat, age, misses, dropped, now>>

------------------------------------------------------------------------------
(* The registry server and time.                                           *)

\* The server loses its state.
Drop ==
    /\ entry /\ entry' = FALSE /\ dropped' = TRUE
    /\ UNCHANGED <<kind, localVars, beat, age, misses, now>>

\* An interval passes; every ticker has delivered before the next, and storing
\* the stop channel takes no interval.
Tick ==
    /\ now < MaxTime /\ \A c \in Calls : beat[c] # "due" /\ reg[c] # "local"
    /\ now' = now + 1
    /\ beat' = [c \in Calls |-> IF beat[c] = "wait" THEN "due" ELSE beat[c]]
    /\ age' = IF age < Lifetime THEN age + 1 ELSE age
    /\ entry' = (entry /\ age < Lifetime)
    /\ UNCHANGED <<kind, localVars, misses, dropped>>

Next ==
    \/ \E c \in Calls :
          \/ Register(c) \/ Store(c) \/ BeatStops(c)
          \/ \E ok, effect \in BOOLEAN : ServerAnswers(c, ok, effect)
          \/ \E ok \in BOOLEAN : Beat(c, ok)
    \/ Deregister
    \/ \E ok, effect \in BOOLEAN : DeregisterAnswers(ok, effect)
    \/ Drop
    \/ Tick

Spec == Init /\ [][Next]_vars

------------------------------------------------------------------------------

(***************************************************************************)
(* consul/registrar.go:70 and eureka/registrar.go:95: registering again    *)
(* does not leak the old heartbeat.  At most one heartbeat has an open     *)
(* stop channel, and it is the one Deregister would close.  While it runs, *)
(* an entry the server had is still there unless the server lost it,       *)
(* somebody removed it or Lifetime beats in a row failed: a single failed  *)
(* beat never costs the registration.                                      *)
(***************************************************************************)
HeartbeatKeepsEntry ==
    OwnBeat =>
      /\ \A c \in Calls : (beat[c] \in {"due", "wait"} /\ c \notin closed) => c = stop
      /\ (stop # NoCall /\ ~dropped /\ ~removed /\ misses < Lifetime) => entry
===============================================================================
