--------------------------- MODULE LifecycleProofs ---------------------------
(***************************************************************************)
(* The life of a service instance for any number of servers, callers of    *)
(* GracefulStop, leases, registrations and providers: who tends its entry  *)
(* in the registry and what keeps it, what a stopped server leaves behind, *)
(* and who owns what its telemetry opened.  Then what it tells operators,  *)
(* for any number of requests, loggers, handlers and groups: the span and  *)
(* the metric of a request, and the attributes of a log record.  The parts *)
(* of MCLifecycle share no variable, so each is proved from its own steps. *)
(***************************************************************************)
EXTENDS MCLifecycle, DataLemmas, SequenceTheorems

-----------------------------------------------------------------------------
(* EtcdRegistrar: one goroutine tends the registration, and the registrar's *)
(* record names the lease that is renewed, for any number of leases.        *)

\* OneTender without cardinalities.
Single == \A a, b \in Active : a = b

\* Only leases that were granted ever have a monitor.
MonitorsOfGranted == \A a \in Actor : a > granted => pc[a] = "none"

\* Inside registerOnce the new lease was granted and has no monitor yet.
NewLease ==
    \A a \in Actor : pc[a] \in {"put", "keepalive", "commit"} =>
        new[a] \in 1..granted /\ pc[new[a]] = "none"

\* Handing the registration from one actor to the next needs all of these:
\* the monitor that Commit starts must be one that has never run.
IInv == TypeOK /\ Single /\ MonitorsOfGranted /\ NewLease /\ RecordsNewestLease

-----------------------------------------------------------------------------
\* What the proofs use of the lease numbers.
LEMMA ActorFacts ==
    /\ NoLease \in Actor /\ NoLease = 0 /\ NoLease \notin Lease
    /\ \A l \in Lease : l \in Actor
    /\ \A a \in Actor : a \in Nat /\ (a # NoLease => a \in Lease)
    /\ \A g \in Actor : g < MaxLeases => g + 1 \in Lease
    /\ \A g \in Actor : \A l \in 1..g : l \in Lease
  BY LeaseAssumption DEF Lease, Actor, NoLease

\* At first only the registrar itself is active.
LEMMA InitIInv == Init => IInv
  <1> SUFFICES ASSUME Init PROVE IInv
    OBVIOUS
  <1> USE ActorFacts
  <1>1. TypeOK
    <2>1. pc \in [Actor -> Phase] /\ new \in [Actor -> Actor]
      BY DEF Init, Phase
    <2> QED
      BY <2>1 DEF Init, TypeOK
  <1>2. Active = {0}
    BY DEF Init, Active
  <1> QED
    BY <1>1, <1>2 DEF Init, IInv, Single, MonitorsOfGranted, NewLease, RecordsNewestLease

\* An actor that moves on inside registerOnce, or out of it, stays the only
\* one: the phases of the others do not change.
LEMMA SameTender ==
    ASSUME IInv, NEW a \in Actor, a \in Active, NEW p \in Phase \ {"draining"},
           Goto(a, p), granted' \in Actor, granted' >= granted, leaseID' = leaseID,
           new' \in [Actor -> Actor], \A b \in Actor : b # a => new'[b] = new[b],
           p \in {"put", "keepalive", "commit"} => new'[a] \in 1..granted' /\ pc[new'[a]] = "none"
    PROVE  (Single /\ MonitorsOfGranted /\ NewLease /\ RecordsNewestLease)'
  <1> USE ActorFacts
  <1>0. pc[a] # "none" /\ pc \in [Actor -> Phase] /\ pc' = [pc EXCEPT ![a] = p]
    BY DEF Active, IInv, TypeOK, Goto
  <1>1. Active' \subseteq Active
    BY <1>0 DEF Active
  <1>2. MonitorsOfGranted'
    BY <1>0 DEF IInv, TypeOK, MonitorsOfGranted
  <1>3. NewLease'
    <2> SUFFICES ASSUME NEW b \in Actor, pc'[b] \in {"put", "keepalive", "commit"}
                 PROVE  new'[b] \in 1..granted' /\ pc'[new'[b]] = "none"
      BY DEF NewLease
    <2>1. b = a
      BY <1>0, <1>1 DEF IInv, Single, Active
    <2>2. new'[a] \in 1..granted' /\ pc[new'[a]] = "none"
      BY <1>0, <2>1
    <2>3. new'[a] \in Actor /\ new'[a] # a
      BY <1>0, <2>2
    <2> QED
      BY <1>0, <2>1, <2>2, <2>3
  <1>4. RecordsNewestLease'
    BY <1>0 DEF IInv, TypeOK, RecordsNewestLease
  <1> QED
    BY <1>1, <1>2, <1>3, <1>4 DEF IInv, Single

\* The calls of registerOnce preserve the invariant.
LEMMA CallIInv ==
    ASSUME IInv, NEW a \in Actor, GrantOK(a) \/ PutOK(a) \/ KeepAliveOK(a) \/ CallFails(a)
    PROVE  IInv'
  <1> USE ActorFacts
  <1>0. a \in Active
    BY DEF GrantOK, PutOK, KeepAliveOK, CallFails, Active
  <1>1. CASE GrantOK(a)
    <2>1. granted' = granted + 1 /\ granted' \in Actor /\ new'[a] = granted + 1
          /\ new' \in [Actor -> Actor] /\ pc[granted + 1] = "none"
      BY <1>1 DEF GrantOK, IInv, TypeOK, MonitorsOfGranted
    <2>2. TypeOK'
      BY <1>1, <2>1 DEF GrantOK, Goto, IInv, TypeOK, Phase, registrarVars, deregVars
    <2>3. (Single /\ MonitorsOfGranted /\ NewLease /\ RecordsNewestLease)'
      <3>1. "put" \in Phase \ {"draining"}
        BY DEF Phase
      <3>2. granted' >= granted /\ \A b \in Actor : b # a => new'[b] = new[b]
        BY <1>1, <2>1 DEF GrantOK, IInv, TypeOK
      <3>3. Goto(a, "put") /\ leaseID' = leaseID
        BY <1>1 DEF GrantOK, registrarVars
      <3>4. new'[a] \in 1..granted' /\ pc[new'[a]] = "none"
        <4>1. granted \in Nat
          BY DEF IInv, TypeOK
        <4> QED
          BY <2>1, <4>1
      <3> QED
        BY <1>0, <2>1, <3>1, <3>2, <3>3, <3>4, SameTender
    <2> QED
      BY <2>2, <2>3 DEF IInv
  <1>2. CASE PutOK(a) \/ KeepAliveOK(a)
    <2>1. PICK p \in {"keepalive", "commit"} : Goto(a, p)
      BY <1>2 DEF PutOK, KeepAliveOK
    <2>2. new' = new /\ granted' = granted /\ leaseID' = leaseID
      BY <1>2 DEF PutOK, KeepAliveOK, registrarVars, etcdVars
    <2>3. new[a] \in 1..granted /\ pc[new[a]] = "none"
      BY <1>2 DEF PutOK, KeepAliveOK, IInv, NewLease
    <2>4. TypeOK'
      BY <1>2, <2>3 DEF PutOK, KeepAliveOK, Goto, IInv, TypeOK, Phase, registrarVars, deregVars, etcdVars
    <2>5. (Single /\ MonitorsOfGranted /\ NewLease /\ RecordsNewestLease)'
      <3>1. p \in Phase \ {"draining"}
        BY <2>1 DEF Phase
      <3>2. granted \in Actor /\ granted >= granted /\ new \in [Actor -> Actor]
        BY DEF IInv, TypeOK
      <3> QED
        BY <1>0, <2>1, <2>2, <2>3, <3>1, <3>2, SameTender
    <2> QED
      BY <2>4, <2>5 DEF IInv
  <1>3. CASE CallFails(a)
    <2>1. PICK p \in {"failed", "loop"} : Goto(a, p)
      BY <1>3 DEF CallFails, Fail
    <2>2. /\ new' = [new EXCEPT ![a] = NoLease] /\ granted' = granted /\ leaseID' = leaseID
          /\ key' \in Actor
      BY <1>3 DEF CallFails, Fail, registrarVars, IInv, TypeOK
    <2>3. TypeOK'
      BY <1>3, <2>1, <2>2 DEF CallFails, Goto, IInv, TypeOK, Phase, registrarVars, deregVars
    <2>4. (Single /\ MonitorsOfGranted /\ NewLease /\ RecordsNewestLease)'
      <3>1. p \in Phase \ {"draining"} /\ p \notin {"put", "keepalive", "commit"}
        BY <2>1 DEF Phase
      <3>2. granted \in Actor /\ granted >= granted /\ new' \in [Actor -> Actor]
            /\ \A b \in Actor : b # a => new'[b] = new[b]
        BY <2>2 DEF IInv, TypeOK
      <3> QED
        BY <1>0, <2>1, <2>2, <3>1, <3>2, SameTender
    <2> QED
      BY <2>3, <2>4 DEF IInv
  <1> QED
    BY <1>1, <1>2, <1>3

\* Commit hands the registration over to the monitor it starts.
LEMMA CommitIInv ==
    ASSUME IInv, NEW a \in Actor, Commit(a)
    PROVE  IInv'
  <1> USE ActorFacts
  <1> DEFINE l == new[a]
  <1>1. /\ pc \in [Actor -> Phase] /\ a \in Active /\ pc[a] = "commit" /\ granted \in Actor
        /\ l \in 1..granted /\ l \in Actor /\ pc[l] = "none" /\ l # a
    BY DEF Commit, IInv, TypeOK, NewLease, Active
  <1>2. pc' = [pc EXCEPT ![a] = "done", ![l] = "draining"] /\ leaseID' = l /\ registered' = TRUE
        /\ granted' = granted
    BY DEF Commit, etcdVars
  <1>3. TypeOK'
    BY <1>1, <1>2 DEF Commit, IInv, TypeOK, Phase, deregVars, etcdVars
  <1>4. \A b \in Actor : pc'[b] = IF b = l THEN "draining" ELSE IF b = a THEN "done" ELSE pc[b]
    BY <1>1, <1>2
  <1>5. \A b \in Active : b = a
    BY <1>1 DEF IInv, Single
  <1>6. \A b \in Actor : b # l => b \notin Active'
    BY <1>4, <1>5 DEF Active
  <1>7. Single'
    BY <1>6 DEF Single, Active
  <1>8. MonitorsOfGranted'
    BY <1>1, <1>2, <1>4 DEF IInv, MonitorsOfGranted
  <1>9. NewLease'
    BY <1>4, <1>6 DEF NewLease, Active
  <1>10. RecordsNewestLease'
    <2> SUFFICES ASSUME NEW b \in Lease, pc'[b] = "draining" PROVE b = leaseID' /\ b <= granted'
      BY DEF RecordsNewestLease
    <2>1. b \in Actor /\ b \in Active'
      BY DEF Active
    <2>2. b = l
      BY <1>6, <2>1
    <2> QED
      BY <1>1, <1>2, <2>2
  <1> QED
    BY <1>3, <1>7, <1>8, <1>9, <1>10 DEF IInv

\* A monitor that finds its channel closed, or goes round its loop.
LEMMA MonitorIInv ==
    ASSUME IInv, NEW l \in Lease, Drained(l) \/ Loop(l)
    PROVE  IInv'
  <1> USE ActorFacts
  <1>1. l \in Actor /\ l \in Active
    BY DEF Drained, Loop, Active
  <1>2. PICK p \in {"loop", "grant", "done"} : Goto(l, p)
    BY DEF Drained, Loop
  <1>3. /\ new' = new /\ granted' = granted /\ leaseID' = leaseID
        /\ new \in [Actor -> Actor] /\ granted \in Actor /\ granted >= granted
    BY DEF Drained, Loop, registrarVars, etcdVars, IInv, TypeOK
  <1>4. TypeOK'
    BY <1>2 DEF Drained, Loop, Goto, IInv, TypeOK, Phase, registrarVars, deregVars, etcdVars
  <1>5. p \in Phase \ {"draining"} /\ p \notin {"put", "keepalive", "commit"}
    BY <1>2 DEF Phase
  <1>6. (Single /\ MonitorsOfGranted /\ NewLease /\ RecordsNewestLease)'
    BY <1>1, <1>2, <1>3, <1>5, SameTender
  <1> QED
    BY <1>4, <1>6 DEF IInv

\* Deregister, etcd and stuttering leave the actors alone.
LEMMA OtherIInv ==
    ASSUME IInv, \/ Deregister \/ RevokeOK \/ RevokeFails \/ UNCHANGED vars
                 \/ \E l \in Lease : Expire(l) \/ KeepaliveLost(l)
    PROVE  IInv'
  <1> USE ActorFacts
  <1>1. pc' = pc /\ new' = new /\ granted' = granted /\ leaseID' = leaseID
    BY DEF Deregister, RevokeOK, RevokeFails, Expire, KeepaliveLost, vars, registrarVars, etcdVars
  <1>2. TypeOK'
    <2>1. CASE Deregister
      BY <2>1, <1>1 DEF Deregister, IInv, TypeOK, etcdVars
    <2>2. CASE RevokeOK
      BY <2>2, <1>1 DEF RevokeOK, Removed, IInv, TypeOK, registrarVars
    <2>3. CASE RevokeFails
      BY <2>3, <1>1 DEF RevokeFails, IInv, TypeOK, registrarVars, etcdVars
    <2>4. ASSUME NEW l \in Lease, Expire(l) PROVE TypeOK'
      BY <2>4, <1>1 DEF Expire, Removed, IInv, TypeOK, registrarVars, deregVars
    <2>5. ASSUME NEW l \in Lease, KeepaliveLost(l) PROVE TypeOK'
      BY <2>5, <1>1 DEF KeepaliveLost, IInv, TypeOK, registrarVars, deregVars, etcdVars
    <2>6. CASE UNCHANGED vars
      BY <2>6 DEF vars, IInv, TypeOK
    <2> QED
      BY <2>1, <2>2, <2>3, <2>4, <2>5, <2>6
  <1> QED
    BY <1>1, <1>2 DEF IInv, Single, Active, MonitorsOfGranted, NewLease, RecordsNewestLease

-----------------------------------------------------------------------------
\* The inductive invariant: the registration passes from actor to actor.
THEOREM Inductive == Spec => []IInv
  <1>1. IInv /\ [Next]_vars => IInv'
    BY CallIInv, CommitIInv, MonitorIInv, OtherIInv DEF Next, RegisterStep
  <1> QED
    BY InitIInv, <1>1, PTL DEF Spec

\* Type correctness; in particular a registered registrar has a lease.
THEOREM TypeCorrect == Spec => []TypeOK
  BY Inductive, PTL DEF IInv

\* One goroutine at a time tends the registration, across all lease losses.
THEOREM SingleTender == Spec => []OneTender
  <1>1. IInv => OneTender
    <2> SUFFICES ASSUME IInv PROVE Cardinality(Active) <= 1
      BY DEF OneTender
    <2>1. CASE Active = {}
      BY <2>1, FS_EmptySet
    <2>2. CASE Active # {}
      <3>1. PICK a \in Active : Active = {a}
        BY <2>2 DEF IInv, Single
      <3>2. Cardinality(Active) = 1
        BY <3>1, FS_Singleton
      <3> QED
        BY <3>2
    <2> QED
      BY <2>1, <2>2
  <1> QED
    BY Inductive, <1>1, PTL

\* The record r.leaseID is the lease whose keepalives are being drained.
THEOREM RecordIsNewest == Spec => []RecordsNewestLease
  BY Inductive, PTL DEF IInv

-----------------------------------------------------------------------------
(* The steps of a part.                                                    *)

\* The specification without its fairness.
LEMMA SafetyOfAll == AllSpec => AllInit /\ [][AllNext]_allVars
  BY PTL DEF AllSpec

\* A step of the whole is a step of each part, or leaves it alone.
LEMMA PartsMove ==
  ASSUME [AllNext]_allVars
  PROVE  /\ [Mesh!Next]_meshVars /\ [Others!Next]_otherVars /\ [Otel!Next]_otelVars
         /\ [Pipeline!Next]_pipelineVars /\ [Log!Next]_logVars
  BY DEF AllNext, allVars, vars, meshVars, otherVars, pipelineVars, otelVars, logVars

-----------------------------------------------------------------------------
(* Registrars: one heartbeat, and it keeps the entry.                      *)

\* The heartbeat Deregister would stop runs and its channel is open; the others
\* have theirs closed.
OneHeartbeat ==
    /\ stop # Others!NoCall =>
         stop \in Others!Calls /\ register[stop] = "ok" /\ stop \notin stops /\ beat[stop] \in {"due", "wait"}
    /\ \A c \in Others!Calls :
         /\ c \in stops \/ beat[c] # "none" => register[c] = "ok"
         /\ beat[c] \in {"due", "wait"} /\ c \notin stops => c = stop

\* The entry's age is paid for: every interval since the last renewal had a
\* beat, and each of them failed, but for the one that is due.
AgeOfMisses ==
    /\ age \in Nat /\ misses \in Nat
    /\ \A c \in Others!Calls : register[c] = "local" => age = 0 /\ (~dropped /\ ~removed => entry)
    /\ stop # Others!NoCall =>
         /\ age <= misses + 1
         /\ beat[stop] = "wait" => age <= misses
         /\ ~dropped /\ ~removed /\ misses < Lifetime => entry

RegistrarInv ==
    /\ register \in [Others!Calls -> {"none", "server", "local", "ok", "failed"}]
    /\ beat \in [Others!Calls -> {"none", "due", "wait", "gone"}]
    /\ Others!OwnBeat => OneHeartbeat /\ AgeOfMisses

\* Every step of the other registrars keeps their invariant.
LEMMA RegistrarInvStep == RegistrarInv /\ [Others!Next]_otherVars => RegistrarInv'
<1> SUFFICES ASSUME RegistrarInv, [Others!Next]_otherVars
             PROVE  RegistrarInv'
  OBVIOUS
<1> USE RegistersCounted DEF RegistrarInv, OneHeartbeat, AgeOfMisses, Others!localVars, Others!serverVars,
                             Others!OwnBeat, Others!Noop, Others!Calls, Others!NoCall
<1>1. CASE UNCHANGED otherVars
  BY <1>1 DEF otherVars
<1>2. ASSUME NEW c \in Others!Calls, Others!Register(c)
      PROVE  RegistrarInv'
  BY <1>2 DEF Others!Register
<1>3. ASSUME NEW c \in Others!Calls, NEW ok \in BOOLEAN, NEW effect \in BOOLEAN,
             Others!ServerAnswers(c, ok, effect)
      PROVE  RegistrarInv'
  <2>1. /\ register[c] = "server" /\ UNCHANGED <<backend, stop, stops, beat>>
        /\ register' = [register EXCEPT ![c] = IF ok THEN "local" ELSE "failed"]
    BY <1>3 DEF Others!ServerAnswers
  <2>2. register' \in [Others!Calls -> {"none", "server", "local", "ok", "failed"}]
        /\ (Others!OwnBeat' => OneHeartbeat')
    BY <2>1
  <2>3. CASE effect
    <3>1. age' = 0 /\ misses' = 0 /\ entry'
      BY <1>3, <2>3 DEF Others!ServerAnswers
    <3>2. AgeOfMisses'
      BY <3>1
    <3>3. QED
      BY <2>1, <2>2, <3>2
  <2>4. CASE ~effect
    <3>1. /\ age' = age /\ misses' = misses /\ ~ok
          /\ (entry' <=> entry) /\ (dropped' <=> dropped) /\ (removed' <=> removed)
      BY <1>3, <2>4 DEF Others!ServerAnswers
    <3>2. Others!OwnBeat => AgeOfMisses'
      BY <2>1, <3>1
    <3>3. QED
      BY <2>1, <2>2, <3>2
  <2>5. QED
    BY <2>3, <2>4
<1>4. ASSUME NEW c \in Others!Calls, Others!Store(c)
      PROVE  RegistrarInv'
  BY <1>4 DEF Others!Store, Others!Started
<1>5. ASSUME NEW c \in Others!Calls, NEW ok \in BOOLEAN, Others!Beat(c, ok)
      PROVE  RegistrarInv'
  BY <1>5 DEF Others!Beat, Others!Renewed
<1>6. ASSUME NEW c \in Others!Calls, Others!BeatStops(c)
      PROVE  RegistrarInv'
  BY <1>6 DEF Others!BeatStops
<1>7. CASE Others!Deregister
  BY <1>7 DEF Others!Deregister
<1>8. ASSUME NEW ok \in BOOLEAN, NEW effect \in BOOLEAN, Others!DeregisterAnswers(ok, effect)
      PROVE  RegistrarInv'
  BY <1>8 DEF Others!DeregisterAnswers
<1>9. CASE Others!Drop
  BY <1>9 DEF Others!Drop
<1>10. CASE Others!Tick
  <2>1. /\ \A c \in Others!Calls : beat[c] # "due" /\ register[c] # "local"
        /\ beat' = [c \in Others!Calls |-> IF beat[c] = "wait" THEN "due" ELSE beat[c]]
        /\ age' = IF age < Lifetime THEN age + 1 ELSE age
        /\ entry' <=> entry /\ age < Lifetime
        /\ UNCHANGED <<backend, register, stop, stops, removed, misses, dropped>>
    BY <1>10 DEF Others!Tick
  <2>2. beat' \in [Others!Calls -> {"none", "due", "wait", "gone"}]
    BY <2>1
  <2>3. Others!OwnBeat => OneHeartbeat'
    BY <2>1
  <2>4. ASSUME Others!OwnBeat
        PROVE  AgeOfMisses'
    <3>1. age \in Nat /\ misses \in Nat /\ age' \in Nat
      BY <2>1, <2>4
    <3>2. CASE stop # Others!NoCall
      <4>1. stop \in Others!Calls /\ beat[stop] = "wait" /\ age <= misses
        BY <2>1, <2>4, <3>2
      <4>2. beat'[stop] = "due" /\ age' <= misses + 1
        BY <2>1, <3>1, <4>1
      <4>3. misses < Lifetime => age < Lifetime
        BY <3>1, <4>1
      <4>4. QED
        BY <2>1, <2>4, <3>1, <3>2, <4>2, <4>3
    <3>3. CASE stop = Others!NoCall
      BY <2>1, <2>4, <3>1, <3>3
    <3>4. QED
      BY <3>2, <3>3
  <2>5. QED
    BY <2>1, <2>2, <2>3, <2>4
<1>11. QED
  BY <1>1, <1>2, <1>3, <1>4, <1>5, <1>6, <1>7, <1>8, <1>9, <1>10 DEF Others!Next

\* At most one heartbeat has an open stop channel, and while it runs only a lost
\* server, a removal or Lifetime failed beats in a row cost the entry, for any
\* number of registrations and any lifetime.
THEOREM HeartbeatAlwaysKeepsEntry == AllSpec => []HeartbeatKeepsEntry
<1>1. AllInit => RegistrarInv
  BY RegistersCounted DEF AllInit, Others!Init, RegistrarInv, OneHeartbeat, AgeOfMisses, Others!Calls, Others!NoCall
<1>2. RegistrarInv /\ [AllNext]_allVars => RegistrarInv'
  BY PartsMove, RegistrarInvStep
<1>3. RegistrarInv => HeartbeatKeepsEntry
  BY DEF RegistrarInv, OneHeartbeat, AgeOfMisses, HeartbeatKeepsEntry, Others!HeartbeatKeepsEntry
<1>4. QED
  BY <1>1, <1>2, <1>3, SafetyOfAll, PTL
-----------------------------------------------------------------------------
(* Telemetry: everything opened has an owner.                              *)

\* Providers and files are numbered by the Apply that made them, from one on.
\* A teardown that has passed a signal has left no provider of it, so that
\* nothing that still writes loses its file at the end.
OtelInv ==
    /\ gen \in Nat /\ (step \in {"slog", "traces", "metrics", "logs"} => gen # 0 /\ ~failed)
    /\ providers \in [Otel!Signals -> Nat]
    /\ started \subseteq (Nat \ {0}) \X Otel!Signals
    /\ started \subseteq {<<providers[s], s>> : s \in Otel!Signals} \cup superseded
    /\ open = files
    /\ slogOpen = {closer} \ {Otel!None}
    /\ mode = "file" => started \ superseded \subseteq open
    /\ step \in {"stop metrics", "stop logs", "close files"} => providers["traces"] = Otel!None
    /\ step \in {"stop logs", "close files"} => providers["metrics"] = Otel!None
    /\ step = "close files" => providers["logs"] = Otel!None
    /\ step = "close slog" => ~failed
    /\ step = "idle" /\ failed => started \subseteq superseded /\ open = {}

\* Every step of the telemetry runtime keeps its invariant.
LEMMA OtelInvStep == OtelInv /\ [Otel!Next]_otelVars => OtelInv'
<1> SUFFICES ASSUME OtelInv, [Otel!Next]_otelVars
             PROVE  OtelInv'
  OBVIOUS
<1> USE DEF OtelInv, Otel!Signals, Otel!None, Otel!otelVars, Otel!slogVars
<1>1. CASE UNCHANGED otelVars
  BY <1>1 DEF otelVars
<1>2. CASE Otel!Apply
  BY <1>2 DEF Otel!Apply
<1>3. ASSUME NEW ok \in BOOLEAN, Otel!SlogApply(ok)
      PROVE  OtelInv'
  BY <1>3 DEF Otel!SlogApply
<1>4. ASSUME NEW s \in Otel!Signals, NEW opened \in BOOLEAN, Otel!InitFails(s, opened)
      PROVE  OtelInv'
  BY <1>4 DEF Otel!InitFails, Otel!rollbackLocked, Otel!createFileWriter
<1>5. ASSUME NEW s \in Otel!Signals, step = s, step' \in {"metrics", "logs", "idle"}, Otel!Provided(s),
             UNCHANGED <<mode, failed, gen, closer, slogOpen>>
      PROVE  OtelInv'
  <2>0. /\ started' = started \cup {<<gen, s>>} /\ providers' = [providers EXCEPT ![s] = gen]
        /\ superseded' = superseded \cup {<<providers[s], s>>}
        /\ open' = files' /\ (mode = "file" => open' = open \cup {<<gen, s>>})
    BY <1>5 DEF Otel!Provided, Otel!createFileWriter
  <2>1. gen \in Nat \ {0} /\ ~failed
    BY <1>5
  <2>2. /\ providers' \in [Otel!Signals -> Nat]
        /\ started' \subseteq (Nat \ {0}) \X Otel!Signals
    <3>1. providers' \in [Otel!Signals -> Nat]
      BY <2>0, <2>1
    <3>2. <<gen, s>> \in (Nat \ {0}) \X Otel!Signals
      BY <2>1
    <3>3. started' \subseteq (Nat \ {0}) \X Otel!Signals
      BY <2>0, <3>2
    <3>4. QED
      BY <3>1, <3>3
  <2>3. ASSUME NEW x \in started'
        PROVE  x \in {<<providers'[q], q>> : q \in Otel!Signals} \cup superseded'
    <3>1. CASE x = <<gen, s>>
      BY <2>0, <3>1
    <3>2. CASE x \in superseded
      BY <2>0, <3>2
    <3>3. ASSUME NEW q \in Otel!Signals, x = <<providers[q], q>>
          PROVE  x \in {<<providers'[r], r>> : r \in Otel!Signals} \cup superseded'
      <4>1. CASE q = s
        BY <2>0, <3>3, <4>1
      <4>2. CASE q # s
        <5>1. providers'[q] = providers[q]
          BY <2>0, <4>2
        <5>2. QED
          BY <3>3, <5>1
      <4>3. QED
        BY <4>1, <4>2
    <3>4. QED
      BY <2>0, <2>3, <3>1, <3>2, <3>3
  <2>4. mode' = "file" => started' \ superseded' \subseteq open'
    BY <1>5, <2>0
  <2>5. QED
    BY <1>5, <2>0, <2>1, <2>2, <2>3, <2>4
<1>6. CASE Otel!initTraces \/ Otel!initMetrics
  BY <1>5, <1>6 DEF Otel!initTraces, Otel!initMetrics
<1>7. CASE Otel!initLogs
  BY <1>5, <1>7 DEF Otel!initLogs
<1>8. CASE Otel!Shutdown
  BY <1>8 DEF Otel!Shutdown
<1>9. ASSUME NEW s \in Otel!Signals, Otel!StopProvider(s)
      PROVE  OtelInv'
  BY <1>9 DEF Otel!StopProvider
<1>10. CASE Otel!CloseFiles
  <2>1. \A s \in Otel!Signals : providers[s] = 0
    BY <1>10 DEF Otel!CloseFiles
  <2>2. ASSUME NEW x \in started
        PROVE  x \in superseded
    <3>1. CASE x \in {<<providers[s], s>> : s \in Otel!Signals}
      <4>1. PICK s \in Otel!Signals : x = <<0, s>>
        BY <2>1, <3>1
      <4>2. x \in (Nat \ {0}) \X Otel!Signals
        BY <2>2
      <4>3. QED
        BY <4>1, <4>2
    <3>2. QED
      BY <2>2, <3>1
  <2>3. open' = {} /\ files' = {}
    BY <1>10 DEF Otel!CloseFiles
  <2>4. QED
    BY <1>10, <2>2, <2>3 DEF Otel!CloseFiles
<1>11. CASE Otel!SlogShutdown
  BY <1>11 DEF Otel!SlogShutdown
<1>12. QED
  BY <1>1, <1>2, <1>3, <1>4, <1>6, <1>7, <1>8, <1>9, <1>10, <1>11 DEF Otel!Next

\* Whatever fails on the way up or down, and however often the runtime is
\* applied: what runs or is open is what Shutdown would stop or close, a failed
\* Apply leaves nothing, and no provider outlives its file.
THEOREM ResourcesAlwaysOwned == AllSpec => []Otel!ResourcesOwned
<1>1. AllInit => OtelInv
  BY DEF AllInit, Otel!Init, OtelInv, Otel!Signals, Otel!None
<1>2. OtelInv /\ [AllNext]_allVars => OtelInv'
  BY PartsMove, OtelInvStep
<1>3. OtelInv => Otel!ResourcesOwned
  BY DEF OtelInv, Otel!ResourcesOwned
<1>4. QED
  BY <1>1, <1>2, <1>3, SafetyOfAll, PTL
-----------------------------------------------------------------------------
(* MeshServer: nothing is left behind.                                     *)

\* Where Start of a server is tells what its Serve goroutine may do, and only
\* a started run has servers under way.
ServersInPhase ==
    \A s \in Mesh!Servers :
      /\ server[s] \in Mesh!ServerPhase
      /\ serving[s] \in {"none", "starting", "accepting", "ended"}
      /\ serving[s] \in {"starting", "accepting"} => server[s] = "serve"
      /\ run # "started" => server[s] \in {"none", "exited", "failed"}

\* The first run: its servers are registered after they have started, the
\* teardown has not been used up, and it takes them from the last to the first.
FirstRun ==
    runs <= 1 =>
      /\ stopped => run \in {"stopping", "clearing", "returning", "idle"}
      /\ run = "building" => ~stopped
      /\ runs = 0 => ~stopped /\ \A s \in Mesh!Servers : ~reg[s]
      /\ \A s \in Mesh!Servers :
           /\ run = "building" \/ server[s] \in {"none", "listen", "register"} => ~reg[s]
           /\ run = "stopping" /\ s > next => (reg[s] => s \in regErr \cup deregErr)
           /\ run \in {"clearing", "returning", "idle"} => (reg[s] => s \in regErr \cup deregErr)

\* A GracefulStop that caught the first run waits while its hooks are there.
CaughtFirst ==
    \A g \in Stoppers :
      /\ gs[g].run <= runs
      /\ gs[g].at \in {"waiting", "stopped"} /\ gs[g].run = 1 /\ runs = 1 => run # "building"
      /\ gs[g].at = "stopped" /\ gs[g].run = 1 /\ runs = 1 => run \in {"returning", "idle"}

MeshInv ==
    /\ run \in Mesh!RunPhase /\ runs \in Nat /\ next \in 0..N
    /\ run # "idle" => runtime /\ runs # 0
    /\ hooked <=> run \in {"started", "stopping", "clearing"}
    /\ DOMAIN server = Mesh!Servers /\ DOMAIN serving = Mesh!Servers /\ DOMAIN reg = Mesh!Servers
    /\ gs \in [Stoppers -> [at : {"idle", "waiting", "noop", "stopped", "timedout"}, run : Nat]]
    /\ ServersInPhase /\ FirstRun /\ CaughtFirst

\* Every step of a server keeps its invariant.
LEMMA MeshInvStep == MeshInv /\ [Mesh!Next]_meshVars => MeshInv'
<1> SUFFICES ASSUME MeshInv, [Mesh!Next]_meshVars
             PROVE  MeshInv'
  OBVIOUS
<1> USE ServersCounted DEF MeshInv, ServersInPhase, FirstRun, CaughtFirst, Mesh!RunPhase, Mesh!ServerPhase,
                           Mesh!Servers, Mesh!runVars, Mesh!srvVars
<1>1. CASE UNCHANGED meshVars
  BY <1>1 DEF meshVars
<1>2. CASE Mesh!Run
  BY <1>2 DEF Mesh!Run
<1>3. CASE Mesh!BuildFails
  BY <1>3 DEF Mesh!BuildFails
<1>4. CASE Mesh!Start
  BY <1>4 DEF Mesh!Start
<1>5. CASE Mesh!StartReturns
  BY <1>5 DEF Mesh!StartReturns, Mesh!Over
<1>6. CASE Mesh!StopServer
  BY <1>6 DEF Mesh!StopServer, Mesh!Gone, Mesh!regVars
<1>7. CASE Mesh!StopReturns
  BY <1>7 DEF Mesh!StopReturns
<1>8. CASE Mesh!Clear \/ Mesh!Return
  BY <1>8 DEF Mesh!Clear, Mesh!Return
<1>9. ASSUME NEW s \in Mesh!Servers, Mesh!Listen(s)
      PROVE  MeshInv'
  BY <1>9 DEF Mesh!Listen, Mesh!Fail
<1>10. ASSUME NEW s \in Mesh!Servers, Mesh!Register(s)
       PROVE  MeshInv'
  <2>1. server[s] = "register" /\ run = "started" /\ runs # 0
    BY <1>10 DEF Mesh!Register
  <2>2. UNCHANGED <<run, runs, runtime, hooked, stopped, next, gs>>
    BY <1>10 DEF Mesh!Register
  <2>3. CASE server' = [server EXCEPT ![s] = "serve"] /\ serving' = [serving EXCEPT ![s] = "starting"]
             /\ reg' = [reg EXCEPT ![s] = TRUE]
    BY <2>1, <2>2, <2>3
  <2>4. CASE server' = [server EXCEPT ![s] = "failed"] /\ serving' = serving
             /\ reg' \in {reg, [reg EXCEPT ![s] = TRUE]}
    BY <2>1, <2>2, <2>4
  <2>5. QED
    BY <1>10, <2>3, <2>4 DEF Mesh!Register, Mesh!Fail, Mesh!regVars
<1>11. ASSUME NEW s \in Mesh!Servers, Mesh!ServeStarts(s) \/ Mesh!ServeFails(s)
       PROVE  MeshInv'
  <2>1. server[s] = "serve" /\ run = "started"
    BY <1>11 DEF Mesh!ServeStarts, Mesh!ServeFails
  <2>2. UNCHANGED <<run, runs, runtime, hooked, stopped, next, reg, regErr, deregErr, gs>>
    BY <1>11 DEF Mesh!ServeStarts, Mesh!ServeFails
  <2>3. CASE server' = server /\ serving' = [serving EXCEPT ![s] = "accepting"]
    BY <2>1, <2>2, <2>3
  <2>4. CASE server' = [server EXCEPT ![s] = "failed"] /\ serving' = [serving EXCEPT ![s] = "ended"]
    BY <2>1, <2>2, <2>4
  <2>5. QED
    BY <1>11, <2>3, <2>4 DEF Mesh!ServeStarts, Mesh!ServeFails, Mesh!Fail
<1>12. ASSUME NEW s \in Mesh!Servers, Mesh!Shutdown(s) \/ Mesh!Drained(s)
       PROVE  MeshInv'
  <2>1. server[s] \in {"serve", "draining"} /\ run = "started"
    BY <1>12 DEF Mesh!Shutdown, Mesh!Drained
  <2>2. UNCHANGED <<run, runs, runtime, hooked, stopped, next, reg, regErr, deregErr, gs>>
    BY <1>12 DEF Mesh!Shutdown, Mesh!Drained
  <2>3. CASE server' = [server EXCEPT ![s] = "draining"] /\ serving' = [serving EXCEPT ![s] = "ended"]
    BY <2>1, <2>2, <2>3
  <2>4. CASE server[s] = "draining" /\ server' = [server EXCEPT ![s] = "exited"] /\ serving' = serving
    BY <2>1, <2>2, <2>4
  <2>5. QED
    BY <1>12, <2>3, <2>4 DEF Mesh!Shutdown, Mesh!Drained
<1>13. ASSUME NEW g \in Stoppers, Mesh!GracefulStop(g)
       PROVE  MeshInv'
  BY <1>13 DEF Mesh!GracefulStop
<1>14. ASSUME NEW g \in Stoppers, Mesh!GracefulStopReturns(g)
       PROVE  MeshInv'
  <2>1. UNCHANGED <<run, runs, runtime, hooked, stopped, next, reg, regErr, deregErr, server, serving>>
    BY <1>14 DEF Mesh!GracefulStopReturns
  <2>2. PICK a \in {"stopped", "timedout"} :
          gs' = [gs EXCEPT ![g] = [gs[g] EXCEPT !.at = a]] /\ (a = "stopped" => runs > gs[g].run \/ ~hooked)
    BY <1>14 DEF Mesh!GracefulStopReturns, Mesh!RunDone
  <2>3. gs[g] \in [at : {"idle", "waiting", "noop", "stopped", "timedout"}, run : Nat] /\ gs[g].at = "waiting"
    BY <1>14 DEF Mesh!GracefulStopReturns
  <2>4. gs'[g] = [at |-> a, run |-> gs[g].run] /\ \A f \in Stoppers : f # g => gs'[f] = gs[f]
    BY <2>2, <2>3
  <2>5. gs' \in [Stoppers -> [at : {"idle", "waiting", "noop", "stopped", "timedout"}, run : Nat]]
    BY <2>2, <2>3
  <2>6. CaughtFirst'
    <3>1. gs[g].run = 1 /\ runs = 1 => run # "building"
      BY <2>3
    <3>2. a = "stopped" /\ gs[g].run = 1 /\ runs = 1 => run \in {"returning", "idle"}
      BY <2>2, <3>1
    <3>3. QED
      BY <2>1, <2>4, <3>1, <3>2
  <2>7. ServersInPhase' /\ FirstRun'
    BY <2>1
  <2>8. QED
    BY <2>1, <2>5, <2>6, <2>7
<1>15. CASE Mesh!CancelParent
  BY <1>15 DEF Mesh!CancelParent
<1>16. ASSUME NEW s \in Mesh!Servers, Mesh!Expire(s)
       PROVE  MeshInv'
  BY <1>16 DEF Mesh!Expire, Mesh!Gone
<1>17. QED
  BY <1>1, <1>2, <1>3, <1>4, <1>5, <1>6, <1>7, <1>8, <1>9, <1>10, <1>11, <1>12, <1>13, <1>14, <1>15, <1>16
  DEF Mesh!Next, Mesh!RunStep, Mesh!ServerStep

\* What the first Run, or a GracefulStop that caught it and returned nil, leaves
\* behind, for any number of servers and stoppers: nobody accepts connections,
\* and an instance still in the registry is one whose Register failed, after it
\* had taken effect, or one the registry refused to remove.  In every run, no
\* server accepts without the runtime.
THEOREM AlwaysQuietWhenStopped == AllSpec => []QuietWhenStopped
<1>1. AllInit => MeshInv
  BY ServersCounted DEF AllInit, Mesh!Init, MeshInv, ServersInPhase, FirstRun, CaughtFirst, Mesh!RunPhase,
                        Mesh!ServerPhase, Mesh!Servers
<1>2. MeshInv /\ [AllNext]_allVars => MeshInv'
  BY PartsMove, MeshInvStep
<1>3. MeshInv => QuietWhenStopped
  BY DEF MeshInv, ServersInPhase, FirstRun, CaughtFirst, QuietWhenStopped, Mesh!QuietWhenReturned,
         Mesh!StopMeansStopped, Mesh!RuntimeOutlivesServers, Mesh!Quiet
<1>4. QED
  BY <1>1, <1>2, <1>3, SafetyOfAll, PTL

-----------------------------------------------------------------------------
(* RequestPipeline: span, metric and answer agree.                         *)

\* The longest chain; the frames of a request are always a beginning of it.
Names == {"recovery", "tracing", "logging", "metrics", "timeout", "reqval", "ratelimit"}
Full == <<"recovery", "tracing", "logging", "metrics", "timeout", "reqval", "ratelimit">>

\* s is the first k of them.
Framed(s, k) == k \in 0..7 /\ s \in Seq(Names) /\ Len(s) = k /\ \A j \in 1..k : s[j] = Full[j]

\* Which place each middleware has.
LEMMA FullIs ==
  /\ \A j \in 1..7 : Full[j] \in Names
  /\ \A j \in 1..7 : (Full[j] = "recovery") <=> (j = 1)
  /\ \A j \in 1..7 : (Full[j] = "tracing") <=> (j = 2)
  /\ \A j \in 1..7 : (Full[j] = "metrics") <=> (j = 4)
  /\ \A j \in 1..7 : Full[j] \in {"reqval", "ratelimit"} <=> j >= 6
<1>1. 1..7 = {1, 2, 3, 4, 5, 6, 7}
  OBVIOUS
<1>2. /\ Full[1] = "recovery" /\ Full[2] = "tracing" /\ Full[3] = "logging" /\ Full[4] = "metrics"
      /\ Full[5] = "timeout" /\ Full[6] = "reqval" /\ Full[7] = "ratelimit"
  BY DEF Full
<1> HIDE DEF Full
<1>3. ASSUME NEW j \in 1..7
      PROVE  /\ Full[j] \in Names /\ ((Full[j] = "recovery") <=> (j = 1)) /\ ((Full[j] = "tracing") <=> (j = 2))
             /\ ((Full[j] = "metrics") <=> (j = 4)) /\ (Full[j] \in {"reqval", "ratelimit"} <=> j >= 6)
  <2>1. j \in {1, 2, 3, 4, 5, 6, 7}
    BY <1>1
  <2>c1. CASE j = 1
    BY <2>c1, <1>2 DEF Names
  <2>c2. CASE j = 2
    BY <2>c2, <1>2 DEF Names
  <2>c3. CASE j = 3
    BY <2>c3, <1>2 DEF Names
  <2>c4. CASE j = 4
    BY <2>c4, <1>2 DEF Names
  <2>c5. CASE j = 5
    BY <2>c5, <1>2 DEF Names
  <2>c6. CASE j = 6
    BY <2>c6, <1>2 DEF Names
  <2>c7. CASE j = 7
    BY <2>c7, <1>2 DEF Names
  <2>2. QED
    BY <2>1, <2>c1, <2>c2, <2>c3, <2>c4, <2>c5, <2>c6, <2>c7
<1>4. QED
  BY <1>3

\* Entering the next middleware keeps the order.
LEMMA FrameEntered ==
  ASSUME NEW s, NEW k, Framed(s, k), k < 7
  PROVE  Framed(Append(s, Full[k + 1]), k + 1)
<1>1. s \in Seq(Names) /\ Len(s) = k /\ k \in Nat /\ k + 1 \in 1..7
  BY DEF Framed
<1>2. Full[k + 1] \in Names
  BY <1>1, FullIs
<1> DEFINE x == Full[k + 1]
           t == Append(s, x)
<1>3. t \in Seq(Names) /\ Len(t) = k + 1 /\ t[k + 1] = x /\ \A j \in 1..k : t[j] = s[j]
  BY <1>1, <1>2
<1>4. \A j \in 1..k : s[j] = Full[j]
  BY DEF Framed
<1> HIDE DEF t
<1>5. \A j \in 1..(k + 1) : t[j] = Full[j]
  BY <1>1, <1>3, <1>4
<1>6. QED
  BY <1>1, <1>3, <1>5 DEF Framed, t

\* The innermost frame is the last entered.
LEMMA FrameLeft ==
  ASSUME NEW s, NEW k, Framed(s, k), k > 0
  PROVE  Pipeline!Last(s) = Full[k] /\ Framed(Pipeline!Front(s), k - 1)
<1>1. s \in Seq(Names) /\ Len(s) = k /\ k \in Nat /\ k \in 1..7 /\ k - 1 \in 0..7
  BY DEF Framed
<1>2. \A j \in 1..k : s[j] = Full[j]
  BY DEF Framed
<1> DEFINE t == Pipeline!Front(s)
<1>3. t \in Seq(Names) /\ Len(t) = k - 1 /\ \A j \in 1..(k - 1) : t[j] = s[j]
  BY <1>1 DEF Pipeline!Front
<1>4. \A j \in 1..(k - 1) : j \in 1..k
  BY <1>1
<1> HIDE DEF t
<1>5. Framed(t, k - 1)
  BY <1>1, <1>2, <1>3, <1>4 DEF Framed
<1>6. Pipeline!Last(s) = s[k]
  BY <1>1 DEF Pipeline!Last
<1>7. QED
  BY <1>1, <1>2, <1>5, <1>6 DEF t

\* A request is inside metrics exactly from depth 4.
LEMMA FrameHolds ==
  ASSUME NEW s, NEW k, Framed(s, k)
  PROVE  ("metrics" \in Pipeline!Range(s) <=> k >= 4) /\ (s = <<>> <=> k = 0)
<1>1. s \in Seq(Names) /\ Len(s) = k /\ k \in 0..7 /\ DOMAIN s = 1..k
  BY DEF Framed
<1>2. \A j \in 1..k : s[j] = Full[j] /\ ((s[j] = "metrics") <=> (j = 4))
  BY <1>1, FullIs DEF Framed
<1>3. 4 \in 1..k <=> k >= 4
  BY <1>1
<1>4. Pipeline!Range(s) = {s[j] : j \in 1..k}
  BY <1>1 DEF Pipeline!Range
<1>5. s = <<>> <=> Len(s) = 0
  BY <1>1
<1>6. QED
  BY <1>1, <1>2, <1>3, <1>4, <1>5

\* Both layouts are beginnings of the longest chain.
LEMMA ChainIs ==
  ASSUME layout \in {"flat", "matched"}
  PROVE  /\ layout = "flat" => Len(Pipeline!Chain) = 6 /\ \A j \in 1..6 : Pipeline!Chain[j] = Full[j]
         /\ layout = "matched" => Len(Pipeline!Chain) = 7 /\ \A j \in 1..7 : Pipeline!Chain[j] = Full[j]
<1>1. CASE layout = "flat"
  BY <1>1 DEF Pipeline!Chain, Pipeline!BuildMiddleware, Full
<1>2. CASE layout = "matched"
  <2>1. Pipeline!Chain = Pipeline!BuildMiddleware \o <<"ratelimit">>
    BY <1>2 DEF Pipeline!Chain
  <2> DEFINE b == Pipeline!BuildMiddleware
             t == <<"ratelimit">>
  <2>2. b \in Seq(Names) /\ t \in Seq(Names) /\ Len(b) = 6 /\ Len(t) = 1 /\ t[1] = Full[7]
    BY DEF Pipeline!BuildMiddleware, Full, Names
  <2>e. b[1] = Full[1] /\ b[2] = Full[2] /\ b[3] = Full[3] /\ b[4] = Full[4] /\ b[5] = Full[5] /\ b[6] = Full[6]
    BY DEF Pipeline!BuildMiddleware, Full, Names
  <2> HIDE DEF b, t
  <2>3. Len(b \o t) = 7 /\ (b \o t)[7] = t[1] /\ \A j \in 1..6 : (b \o t)[j] = b[j]
    <3>1. /\ Len(b \o t) = Len(b) + Len(t)
          /\ \A j \in 1..(Len(b) + Len(t)) : (b \o t)[j] = IF j <= Len(b) THEN b[j] ELSE t[j - Len(b)]
      BY <2>2, ConcatProperties
    <3>2. Len(b) + Len(t) = 7 /\ 7 - 6 = 1 /\ \A j \in 1..6 : j <= 6 /\ j \in 1..7
      BY <2>2
    <3>3. QED
      BY <2>2, <3>1, <3>2
  <2>f. 1..6 = {1, 2, 3, 4, 5, 6}
    OBVIOUS
  <2>4. \A j \in 1..7 : j = 7 \/ j \in 1..6
    OBVIOUS
  <2>5. \A j \in 1..7 : (b \o t)[j] = Full[j]
    <3>1. \A j \in 1..6 : b[j] = Full[j]
      BY <2>e, <2>f
    <3>2. QED
      BY <2>2, <2>3, <2>4, <3>1
  <2>6. QED
    BY <1>2, <2>1, <2>3, <2>5 DEF b, t
<1>3. QED
  BY <1>1, <1>2

\* What the caller was told, how deep a request is, and who is inside metrics.
Answer(r) == IF Pipeline!http(r) THEN written[r] ELSE err[r]
Depth(r) == Len(frames[r])
InMetrics == {r \in Requests : Pipeline!http(r) /\ Depth(r) >= 4}

\* The matched layout records nothing of its own for a refusal.
Excused(r) == layout = "matched" /\ r \in refused

\* The one transporter of a request in the matched layout.
OneTransporter(r) == tr[r] = <<[statusCode |-> tr[r][1].statusCode, grpcCode |-> tr[r][1].grpcCode]>>

\* On its way out with an answer that is final: what is left to record it reads it.
Settled(r) ==
    /\ Pipeline!http(r) => written[r] # ""
    /\ Depth(r) < 2 => span[r] = Answer(r)
    /\ Depth(r) < 4 => metric[r] = Answer(r)
    /\ layout = "matched" =>
         /\ OneTransporter(r)
         /\ Answer(r) = IF Pipeline!http(r) THEN tr[r][1].statusCode ELSE tr[r][1].grpcCode

\* A panic went through: nothing was recorded.
Unrecorded(r) == err[r] = "panic" /\ span[r] = "" /\ metric[r] = ""

\* What was recorded of a request, by where it is.
Whereabouts(r) ==
    /\ at[r] \in {"new", "chain", "unwind", "panic", "late", "done"}
    /\ at[r] \in {"new", "chain"} => span[r] = "" /\ metric[r] = ""
    /\ at[r] = "new" => i[r] = 1 /\ frames[r] = <<>> /\ tr[r] = <<>>
    /\ at[r] = "chain" =>
         /\ i[r] \in Nat /\ i[r] <= Len(Pipeline!Chain) + 1
         /\ i[r] = Depth(r) + 1 \/ (layout = "flat" /\ i[r] = 7 /\ Depth(r) = 5)
         /\ layout = "matched" => OneTransporter(r)
    /\ at[r] = "panic" => Depth(r) >= 1 /\ Unrecorded(r)
    /\ at[r] = "unwind" => Excused(r) \/ Settled(r) \/ (Depth(r) = 0 /\ Unrecorded(r))
    /\ at[r] = "late" => Excused(r)
    /\ at[r] = "done" => Excused(r) \/ Unrecorded(r) \/ (span[r] = Answer(r) /\ metric[r] = Answer(r))

\* The inductive invariant: the chain in order, the records of each request and
\* the count of those inside metrics.
PipelineInv ==
    /\ layout \in {"flat", "matched"}
    /\ DOMAIN at = Requests /\ DOMAIN i = Requests /\ DOMAIN frames = Requests /\ DOMAIN err = Requests
    /\ DOMAIN written = Requests /\ DOMAIN tr = Requests /\ DOMAIN span = Requests /\ DOMAIN metric = Requests
    /\ \A r \in Requests : Framed(frames[r], Depth(r)) /\ Whereabouts(r)
    /\ active = Cardinality(InMetrics)

\* What a step of another request leaves alone.
Untouched(q) ==
    /\ at'[q] = at[q] /\ i'[q] = i[q] /\ frames'[q] = frames[q] /\ err'[q] = err[q]
    /\ written'[q] = written[q] /\ tr'[q] = tr[q] /\ span'[q] = span[q] /\ metric'[q] = metric[q]
    /\ (q \in refused') = (q \in refused)

\* A request that a step leaves alone stays where it was.
LEMMA Bystander ==
  ASSUME PipelineInv, UNCHANGED <<layout, kind>>, NEW q \in Requests, Untouched(q)
  PROVE  Framed(frames[q], Depth(q))' /\ Whereabouts(q)'
<1>1. Framed(frames[q], Depth(q)) /\ Whereabouts(q)
  BY DEF PipelineInv
<1>2. Depth(q)' = Depth(q) /\ Answer(q)' = Answer(q) /\ Excused(q)' = Excused(q) /\ Unrecorded(q)' = Unrecorded(q)
      /\ OneTransporter(q)' = OneTransporter(q) /\ Pipeline!http(q)' = Pipeline!http(q)
      /\ Pipeline!Chain' = Pipeline!Chain
  BY DEF Untouched, Depth, Answer, Excused, Unrecorded, OneTransporter, Pipeline!http, Pipeline!Chain
<1>3. Settled(q)' = Settled(q)
  BY <1>2 DEF Untouched, Settled
<1>4. Framed(frames[q], Depth(q))'
  BY <1>1, <1>2 DEF Untouched, Framed
<1>5. Whereabouts(q)'
  BY <1>1, <1>2, <1>3 DEF Untouched, Whereabouts
<1>6. QED
  BY <1>4, <1>5

\* The count of the requests in metrics, when only r moves.
LEMMA CountMoves ==
  ASSUME NEW r \in Requests, UNCHANGED kind, active = Cardinality(InMetrics),
         \A q \in Requests \ {r} : frames'[q] = frames[q]
  PROVE  /\ (r \in InMetrics' <=> r \in InMetrics) /\ active' = active => active' = Cardinality(InMetrics)'
         /\ r \in InMetrics' /\ r \notin InMetrics /\ active' = active + 1 => active' = Cardinality(InMetrics)'
         /\ r \notin InMetrics' /\ r \in InMetrics /\ active' = active - 1 => active' = Cardinality(InMetrics)'
<1>1. IsFiniteSet(InMetrics) /\ IsFiniteSet(InMetrics')
  <2>1. IsFiniteSet(Requests) /\ InMetrics \in SUBSET Requests /\ InMetrics' \in SUBSET Requests
    BY RequestsCounted DEF InMetrics
  <2>2. QED
    BY <2>1, FS_Subset
<1>2. \A q \in Requests \ {r} : q \in InMetrics' <=> q \in InMetrics
  BY DEF InMetrics, Depth, Pipeline!http
<1>3. \A q : q \in InMetrics \/ q \in InMetrics' => q \in Requests
  BY DEF InMetrics
<1>4. (r \in InMetrics' <=> r \in InMetrics) => InMetrics' = InMetrics
  BY <1>2, <1>3
<1>5. ASSUME r \in InMetrics', r \notin InMetrics PROVE Cardinality(InMetrics') = Cardinality(InMetrics) + 1
  <2>1. InMetrics' = InMetrics \cup {r}
    BY <1>2, <1>3, <1>5
  <2>2. QED
    BY <1>1, <1>5, <2>1, FS_AddElement
<1>6. ASSUME r \notin InMetrics', r \in InMetrics PROVE Cardinality(InMetrics') = Cardinality(InMetrics) - 1
  <2>1. InMetrics' = InMetrics \ {r}
    BY <1>2, <1>3, <1>6
  <2>2. QED
    BY <1>1, <1>6, <2>1, FS_RemoveElement
<1>7. QED
  BY <1>4, <1>5, <1>6

\* A step of r: it is enough to look at r and at the count.
LEMMA RequestMoves ==
  ASSUME PipelineInv, NEW r \in Requests, UNCHANGED <<layout, kind>>,
         DOMAIN at' = Requests, DOMAIN i' = Requests, DOMAIN frames' = Requests, DOMAIN err' = Requests,
         DOMAIN written' = Requests, DOMAIN tr' = Requests, DOMAIN span' = Requests, DOMAIN metric' = Requests,
         \A q \in Requests \ {r} : Untouched(q),
         Framed(frames[r], Depth(r))', Whereabouts(r)',
         \/ (r \in InMetrics' <=> r \in InMetrics) /\ active' = active
         \/ r \in InMetrics' /\ r \notin InMetrics /\ active' = active + 1
         \/ r \notin InMetrics' /\ r \in InMetrics /\ active' = active - 1
  PROVE  PipelineInv'
<1>1. \A q \in Requests \ {r} : Framed(frames[q], Depth(q))' /\ Whereabouts(q)'
  BY Bystander
<1>2. \A q \in Requests : Framed(frames[q], Depth(q))' /\ Whereabouts(q)'
  BY <1>1
<1>3. active' = Cardinality(InMetrics)'
  <2>1. active = Cardinality(InMetrics) /\ \A q \in Requests \ {r} : frames'[q] = frames[q]
    BY DEF PipelineInv, Untouched
  <2>2. QED
    BY <2>1, CountMoves
<1>4. layout' \in {"flat", "matched"}
  BY DEF PipelineInv
<1>5. QED
  BY <1>2, <1>3, <1>4 DEF PipelineInv

\* One-element sequences.
LEMMA OneIs ==
  ASSUME NEW x
  PROVE  /\ Append(<<>>, x) = <<x>> /\ <<x>>[1] = x /\ Len(<<x>>) = 1 /\ Pipeline!Last(<<x>>) = x
         /\ \A y : [<<x>> EXCEPT ![Len(<<x>>)] = y] = <<y>>
<1>1. Append(<<>>, x) = <<x>> /\ <<x>>[1] = x /\ Len(<<x>>) = 1
  OBVIOUS
<1>2. Pipeline!Last(<<x>>) = x
  BY <1>1 DEF Pipeline!Last
<1>3. \A y : [<<x>> EXCEPT ![1] = y] = <<y>>
  OBVIOUS
<1>4. QED
  BY <1>1, <1>2, <1>3

\* With one transporter, that is the one read and written.
LEMMA OneHeld ==
  ASSUME NEW r, OneTransporter(r)
  PROVE  /\ Pipeline!Top(r) = tr[r][1]
         /\ \A s, c : Pipeline!Held(r, s, c) = <<[statusCode |-> s, grpcCode |-> c]>>
<1> DEFINE x == [statusCode |-> tr[r][1].statusCode, grpcCode |-> tr[r][1].grpcCode]
<1>1. tr[r] = <<x>>
  BY DEF OneTransporter
<1> HIDE DEF x
<1>2. tr[r][1] = x /\ Pipeline!Top(r) = x
  BY <1>1, OneIs DEF Pipeline!Top
<1>3. QED
  BY <1>1, <1>2, OneIs DEF Pipeline!Held

\* Begin: nothing is recorded yet, whatever an earlier request left in the
\* transporter.
LEMMA BeginStep == ASSUME PipelineInv, NEW r \in Requests, Pipeline!Begin(r) PROVE PipelineInv'
<1>0. layout \in {"flat", "matched"} /\ Whereabouts(r) /\ Framed(frames[r], Depth(r)) /\ DOMAIN at = Requests /\ DOMAIN tr = Requests
  BY DEF PipelineInv
<1>1. /\ at[r] = "new" /\ at' = [at EXCEPT ![r] = "chain"]
      /\ UNCHANGED <<layout, kind, i, frames, err, written, refused, handled, pool, span, metric, active>>
  BY DEF Pipeline!Begin, Pipeline!Goto, Pipeline!recordVars
<1>2. /\ span[r] = "" /\ metric[r] = "" /\ i[r] = 1 /\ frames[r] = <<>> /\ tr[r] = <<>>
  BY <1>0, <1>1 DEF Whereabouts
<1>3. DOMAIN tr' = Requests /\ \A q \in Requests \ {r} : tr'[q] = tr[q]
  BY <1>0 DEF Pipeline!Begin, Pipeline!NewTransporter
<1>4. layout = "matched" => OneTransporter(r)'
  <2> SUFFICES ASSUME layout = "matched" PROVE OneTransporter(r)'
    OBVIOUS
  <2>1. Pipeline!NewTransporter(r)
    BY DEF Pipeline!Begin, Pipeline!PerMiddleware
  <2>2. PICK c : tr' = [tr EXCEPT ![r] = Append(tr[r], [statusCode |-> "", grpcCode |-> c])]
    BY <2>1 DEF Pipeline!NewTransporter
  <2> DEFINE x == [statusCode |-> "", grpcCode |-> c]
  <2>3. tr'[r] = Append(<<>>, x)
    BY <1>0, <1>2, <2>2
  <2> HIDE DEF x
  <2>4. tr'[r] = <<x>> /\ tr'[r][1] = x
    BY <2>3, OneIs
  <2>5. QED
    BY <2>4 DEF OneTransporter, x
<1>5. at'[r] = "chain" /\ DOMAIN at' = Requests /\ \A q \in Requests \ {r} : at'[q] = at[q]
  BY <1>0, <1>1
<1>6. Depth(r)' = 0 /\ Depth(r) = 0 /\ Framed(frames[r], Depth(r))'
  BY <1>0, <1>1, <1>2 DEF Depth, Framed
<1>7. Pipeline!Chain' = Pipeline!Chain /\ Len(Pipeline!Chain) \in Nat
  BY <1>0, <1>1, ChainIs DEF Pipeline!Chain
<1>8. Whereabouts(r)'
  <2>1. span'[r] = "" /\ metric'[r] = ""
    BY <1>1, <1>2
  <2>i. i'[r] = 1
    BY <1>1, <1>2
  <2>j. Depth(r)' = 0
    BY <1>6
  <2>n. \A n \in Nat : 1 <= n + 1
    OBVIOUS
  <2>2. i'[r] \in Nat /\ i'[r] <= Len(Pipeline!Chain) + 1
    BY <1>7, <2>i, <2>n
  <2>d. i'[r] = Depth(r)' + 1
    BY <2>i, <2>j
  <2>3. QED
    BY <1>1, <1>4, <1>5, <1>7, <2>1, <2>2, <2>d DEF Whereabouts
<1>9. r \in InMetrics' <=> r \in InMetrics
  BY <1>1 DEF InMetrics, Depth, Pipeline!http
<1>10. \A q \in Requests \ {r} : Untouched(q)
  BY <1>1, <1>3, <1>5 DEF Untouched
<1>11. QED
  BY <1>1, <1>3, <1>5, <1>6, <1>8, <1>9, <1>10, RequestMoves DEF PipelineInv

\* The next middleware of the chain is the one after the innermost frame.
LEMMA ChainPlace ==
  ASSUME PipelineInv, NEW r \in Requests, at[r] = "chain", i[r] <= Len(Pipeline!Chain)
  PROVE  /\ Depth(r) \in 0..6 /\ i[r] = Depth(r) + 1 /\ Pipeline!Chain[i[r]] = Full[Depth(r) + 1]
         /\ Depth(r) < Len(Pipeline!Chain) /\ Len(Pipeline!Chain) \in {6, 7}
         /\ layout = "flat" => Len(Pipeline!Chain) = 6
<1> DEFINE k == Depth(r)
           n == Len(Pipeline!Chain)
<1>0. layout \in {"flat", "matched"} /\ Whereabouts(r) /\ Framed(frames[r], Depth(r))
  BY DEF PipelineInv
<1>1. n \in {6, 7} /\ (layout = "flat" => n = 6) /\ i[r] <= n
  BY <1>0, ChainIs
<1>2. k \in 0..7
  BY <1>0 DEF Framed
<1>3. i[r] \in Nat /\ (i[r] = k + 1 \/ (layout = "flat" /\ i[r] = 7 /\ k = 5))
  BY <1>0 DEF Whereabouts
<1> HIDE DEF n, k
<1>4. i[r] = k + 1
  BY <1>1, <1>3
<1>5. k < n /\ k \in 0..6 /\ k + 1 \in 1..n
  BY <1>1, <1>2, <1>4
<1>6. Pipeline!Chain[k + 1] = Full[k + 1]
  BY <1>0, <1>1, <1>5, ChainIs DEF n
<1>7. QED
  BY <1>1, <1>4, <1>5, <1>6 DEF n, k

\* Enter: only metrics changes the count.
LEMMA EnterStep == ASSUME PipelineInv, NEW r \in Requests, Pipeline!Enter(r) PROVE PipelineInv'
<1> DEFINE k == Depth(r)
           m == Pipeline!Chain[i[r]]
<1>0. /\ layout \in {"flat", "matched"} /\ Whereabouts(r) /\ Framed(frames[r], Depth(r))
      /\ DOMAIN i = Requests /\ DOMAIN tr = Requests /\ DOMAIN frames = Requests
  BY DEF PipelineInv
<1>1. /\ at[r] = "chain" /\ i[r] <= Len(Pipeline!Chain)
      /\ frames' = [frames EXCEPT ![r] = Append(frames[r], m)]
      /\ i' = [i EXCEPT ![r] = i[r] + 1]
      /\ active' = IF Pipeline!http(r) /\ m = "metrics" THEN active + 1 ELSE active
      /\ UNCHANGED <<layout, kind, at, err, written, refused, span, metric>>
  BY DEF Pipeline!Enter
<1>2. DOMAIN tr' = Requests /\ \A q \in Requests \ {r} : tr'[q] = tr[q]
  BY <1>0 DEF Pipeline!Enter, Pipeline!NewTransporter
<1>3. layout = "matched" => tr' = tr
  BY DEF Pipeline!Enter, Pipeline!PerMiddleware
<1>4. /\ k \in 0..6 /\ i[r] = k + 1 /\ k < Len(Pipeline!Chain) /\ Len(Pipeline!Chain) \in {6, 7} /\ m = Full[k + 1]
  BY <1>1, ChainPlace
<1>k. k < 7 /\ k + 1 \in 1..7
  BY <1>4
<1> HIDE DEF m, k
<1>5. frames'[r] = Append(frames[r], Full[k + 1]) /\ DOMAIN frames' = Requests /\ \A q \in Requests \ {r} : frames'[q] = frames[q]
  BY <1>0, <1>1, <1>4
<1>6. i'[r] = k + 2 /\ DOMAIN i' = Requests /\ \A q \in Requests \ {r} : i'[q] = i[q]
  BY <1>0, <1>1, <1>4
<1>7. Framed(frames'[r], k + 1) /\ Depth(r)' = k + 1
  <2>1. k < 7 /\ Framed(frames[r], k)
    BY <1>0, <1>k DEF k
  <2>2. Framed(frames'[r], k + 1)
    BY <1>5, <2>1, FrameEntered
  <2>3. QED
    BY <2>2 DEF Framed, Depth
<1>8. Framed(frames[r], Depth(r))'
  BY <1>7 DEF Framed
<1>9. Whereabouts(r)'
  <2>1. span'[r] = "" /\ metric'[r] = "" /\ at'[r] = "chain"
    BY <1>0, <1>1 DEF Whereabouts
  <2>2. layout = "matched" => OneTransporter(r)'
    BY <1>0, <1>1, <1>3 DEF Whereabouts, OneTransporter
  <2>3. i'[r] \in Nat /\ i'[r] <= Len(Pipeline!Chain) + 1 /\ i'[r] = Depth(r)' + 1
    BY <1>4, <1>6, <1>7
  <2>4. Pipeline!Chain' = Pipeline!Chain
    BY <1>1 DEF Pipeline!Chain
  <2>5. QED
    BY <1>1, <2>1, <2>2, <2>3, <2>4 DEF Whereabouts
<1>10. \A q \in Requests \ {r} : Untouched(q)
  BY <1>1, <1>2, <1>5, <1>6 DEF Untouched
<1>11. \/ (r \in InMetrics' <=> r \in InMetrics) /\ active' = active
       \/ r \in InMetrics' /\ r \notin InMetrics /\ active' = active + 1
  <2>1. Pipeline!http(r)' = Pipeline!http(r) /\ (m = "metrics" <=> k + 1 = 4)
    <3>2. QED
      BY <1>1, <1>4, <1>k, FullIs DEF Pipeline!http
  <2>2. r \in InMetrics <=> Pipeline!http(r) /\ k >= 4
    BY DEF InMetrics, k
  <2>3. r \in InMetrics' <=> Pipeline!http(r) /\ k + 1 >= 4
    BY <1>7, <2>1 DEF InMetrics
  <2>4. QED
    BY <1>1, <1>4, <2>1, <2>2, <2>3
<1>12. QED
  BY <1>1, <1>2, <1>5, <1>6, <1>8, <1>9, <1>10, <1>11, RequestMoves DEF PipelineInv

\* Refuse: in the flat layout the refusal is the answer; in the matched one the
\* request is excused.
LEMMA RefuseStep == ASSUME PipelineInv, NEW r \in Requests, Pipeline!Refuse(r) PROVE PipelineInv'
<1> DEFINE k == Depth(r)
           n == Len(Pipeline!Chain)
<1>0. /\ layout \in {"flat", "matched"} /\ Whereabouts(r) /\ Framed(frames[r], Depth(r))
      /\ DOMAIN at = Requests /\ DOMAIN i = Requests /\ DOMAIN err = Requests /\ DOMAIN written = Requests
  BY DEF PipelineInv
<1>1. /\ at[r] = "chain" /\ i[r] <= n /\ Pipeline!Chain[i[r]] \in {"reqval", "ratelimit"}
      /\ refused' = refused \cup {r}
      /\ UNCHANGED <<layout, kind, frames, tr, span, metric, active>>
  BY DEF Pipeline!Refuse, Pipeline!Refusing, Pipeline!objectVars, Pipeline!recordVars
<1>2. k >= 5 /\ k < n /\ k \in 0..7 /\ i[r] = k + 1 /\ n \in {6, 7} /\ (layout = "flat" => n = 6)
  <2>1. k \in 0..6 /\ i[r] = k + 1 /\ Pipeline!Chain[i[r]] = Full[k + 1] /\ k < n /\ n \in {6, 7} /\ (layout = "flat" => n = 6)
    BY <1>1, ChainPlace
  <2> HIDE DEF k, n
  <2>2. k + 1 \in 1..7
    BY <2>1
  <2>3. k + 1 >= 6
    BY <1>1, <2>1, <2>2, FullIs
  <2>4. QED
    BY <2>1, <2>3
<1>3. /\ DOMAIN at' = Requests /\ DOMAIN i' = Requests /\ DOMAIN err' = Requests /\ DOMAIN written' = Requests
      /\ \A q \in Requests \ {r} : at'[q] = at[q] /\ i'[q] = i[q] /\ err'[q] = err[q] /\ written'[q] = written[q]
  BY <1>0 DEF Pipeline!Refuse, Pipeline!Rendered, Pipeline!Goto
<1>4. /\ Depth(r)' = k /\ Pipeline!Chain' = Pipeline!Chain /\ Pipeline!http(r)' = Pipeline!http(r)
      /\ (OneTransporter(r)' <=> OneTransporter(r)) /\ Framed(frames[r], Depth(r))'
  BY <1>0, <1>1 DEF Depth, Pipeline!Chain, Pipeline!http, OneTransporter, Framed
<1>5. span'[r] = "" /\ metric'[r] = "" /\ (layout = "matched" => OneTransporter(r))
  BY <1>0, <1>1 DEF Whereabouts
<1>6. Whereabouts(r)'
  <2>1. CASE Pipeline!http(r) /\ layout = "flat"
    <3>1. i' = [i EXCEPT ![r] = i[r] + 1] /\ at' = at
      BY <2>1 DEF Pipeline!Refuse
    <3>2. i'[r] = i[r] + 1
      BY <1>0, <3>1
    <3>3. i'[r] = 7 /\ k = 5 /\ n = 6
      <4> HIDE DEF k, n
      <4>1. n = 6
        BY <1>2, <2>1
      <4>2. QED
        BY <1>2, <3>2, <4>1
    <3>4. i'[r] \in Nat /\ i'[r] <= n + 1
      <4> HIDE DEF n
      <4>1. QED
        BY <3>3
    <3>5. at'[r] = "chain" /\ layout' = "flat"
      BY <1>1, <2>1, <3>1
    <3>6. i'[r] \in Nat /\ i'[r] <= Len(Pipeline!Chain') + 1 /\ i'[r] = 7 /\ Depth(r)' = 5
      BY <1>4, <3>3, <3>4
    <3>7. QED
      BY <1>5, <3>5, <3>6 DEF Whereabouts
  <2>2. CASE ~(Pipeline!http(r) /\ layout = "flat")
    <3>1. at'[r] = "unwind"
      BY <1>0, <2>2 DEF Pipeline!Refuse, Pipeline!Goto
    <3>2. CASE layout = "matched"
      <4>1. Excused(r)'
        BY <1>1, <3>2 DEF Excused
      <4>2. QED
        BY <3>1, <4>1 DEF Whereabouts
    <3>3. CASE layout = "flat"
      <4>1. ~Pipeline!http(r)' /\ layout' # "matched"
        BY <1>1, <1>4, <2>2, <3>3
      <4>2. ~(Depth(r)' < 2) /\ ~(Depth(r)' < 4)
        BY <1>2, <1>4
      <4>3. Settled(r)'
        BY <4>1, <4>2 DEF Settled
      <4>4. QED
        BY <3>1, <4>3 DEF Whereabouts
    <3>4. QED
      BY <1>0, <3>2, <3>3
  <2>3. QED
    BY <2>1, <2>2
<1>7. r \in InMetrics' <=> r \in InMetrics
  BY <1>1 DEF InMetrics, Depth, Pipeline!http
<1>8. \A q \in Requests \ {r} : Untouched(q)
  BY <1>1, <1>3 DEF Untouched
<1>9. QED
  BY <1>1, <1>3, <1>4, <1>6, <1>7, <1>8, RequestMoves DEF PipelineInv

\* What the handler does to the request.
LEMMA RunIs ==
  ASSUME PipelineInv, NEW r \in Requests, NEW out \in {"ok", "failed", "panic"}, NEW called \in BOOLEAN,
         Pipeline!Run(r, out, called)
  PROVE  /\ DOMAIN err' = Requests /\ DOMAIN written' = Requests
         /\ \A q \in Requests \ {r} : err'[q] = err[q] /\ written'[q] = written[q]
         /\ UNCHANGED <<layout, kind, i, frames, refused, span, metric, active>>
         /\ out = "panic" => err'[r] = "panic"
         /\ out # "panic" /\ Pipeline!http(r) => written'[r] # ""
         /\ ~Pipeline!http(r) => err'[r] = out
<1>0. DOMAIN err = Requests /\ DOMAIN written = Requests
  BY DEF PipelineInv
<1>1. UNCHANGED <<layout, kind, i, frames, refused, span, metric, active>>
  BY DEF Pipeline!Run, Pipeline!recordVars
<1>2. \E e : err' = [err EXCEPT ![r] = e]
  BY DEF Pipeline!Run
<1>3. out = "panic" \/ ~Pipeline!http(r) => err'[r] = out
  BY <1>0 DEF Pipeline!Run
<1>4. written' = written \/ \E w : written' = [written EXCEPT ![r] = w]
  BY DEF Pipeline!Run, Pipeline!Rendered
<1>5. ASSUME out # "panic", Pipeline!http(r) PROVE written'[r] # ""
  <2>1. written' = [written EXCEPT ![r] = IF written[r] = "" THEN out ELSE written[r]]
    BY <1>5 DEF Pipeline!Run, Pipeline!Rendered
  <2>2. QED
    BY <1>0, <2>1
<1>6. QED
  BY <1>0, <1>1, <1>2, <1>3, <1>4, <1>5

\* Handler: the answer is final, or a panic unwinds.
LEMMA HandlerStep ==
  ASSUME PipelineInv, NEW r \in Requests, NEW out \in {"ok", "failed", "panic"}, NEW called \in BOOLEAN,
         Pipeline!Handler(r, out, called)
  PROVE  PipelineInv'
<1> DEFINE k == Depth(r)
           n == Len(Pipeline!Chain)
<1>0. /\ layout \in {"flat", "matched"} /\ Whereabouts(r) /\ Framed(frames[r], Depth(r))
      /\ DOMAIN at = Requests /\ DOMAIN tr = Requests
  BY DEF PipelineInv
<1>1. Pipeline!Run(r, out, called) /\ at[r] = "chain" /\ i[r] = n + 1
      /\ at' = [at EXCEPT ![r] = IF out = "panic" THEN "panic" ELSE "unwind"]
  BY DEF Pipeline!Handler, Pipeline!Goto
<1>2. /\ DOMAIN err' = Requests /\ DOMAIN written' = Requests
      /\ \A q \in Requests \ {r} : err'[q] = err[q] /\ written'[q] = written[q]
      /\ UNCHANGED <<layout, kind, i, frames, refused, span, metric, active>>
      /\ out = "panic" => err'[r] = "panic"
      /\ out # "panic" /\ Pipeline!http(r) => written'[r] # ""
      /\ ~Pipeline!http(r) => err'[r] = out
  BY <1>1, RunIs
<1>3. k >= 5 /\ k \in 0..7
  <2>1. n \in {6, 7} /\ (layout = "flat" => n = 6) /\ k \in 0..7
    BY <1>0, ChainIs DEF Framed
  <2>2. i[r] = k + 1 \/ k = 5
    BY <1>0, <1>1 DEF Whereabouts
  <2>3. i[r] = n + 1
    BY <1>1
  <2> HIDE DEF k, n
  <2>4. QED
    BY <2>1, <2>2, <2>3
<1>4. DOMAIN tr' = Requests /\ \A q \in Requests \ {r} : tr'[q] = tr[q]
  BY <1>0 DEF Pipeline!Handler
<1>5. DOMAIN at' = Requests /\ at'[r] = (IF out = "panic" THEN "panic" ELSE "unwind") /\ \A q \in Requests \ {r} : at'[q] = at[q]
  BY <1>0, <1>1
<1>6. span'[r] = "" /\ metric'[r] = "" /\ (layout = "matched" => OneTransporter(r))
  BY <1>0, <1>1, <1>2 DEF Whereabouts
<1>d. Depth(r)' = k
  BY <1>2 DEF Depth
<1>7. Framed(frames[r], Depth(r))' /\ Pipeline!http(r)' = Pipeline!http(r)
  BY <1>0, <1>2 DEF Depth, Framed, Pipeline!http
<1>8. Whereabouts(r)'
  <2>1. CASE out = "panic"
    <3>1. at'[r] = "panic" /\ Unrecorded(r)'
      BY <1>2, <1>5, <1>6, <2>1 DEF Unrecorded
    <3>2. Depth(r)' >= 1
      BY <1>3, <1>d
    <3>3. QED
      BY <3>1, <3>2 DEF Whereabouts
  <2>2. CASE out # "panic"
    <3>1. at'[r] = "unwind"
      BY <1>5, <2>2
    <3>2. ~(Depth(r)' < 2) /\ ~(Depth(r)' < 4)
      BY <1>3, <1>d
    <3>3. Pipeline!http(r)' => written'[r] # ""
      BY <1>2, <1>7, <2>2
    <3>4. ASSUME layout' = "matched"
          PROVE  OneTransporter(r)' /\ Answer(r)' = IF Pipeline!http(r)' THEN tr'[r][1].statusCode ELSE tr'[r][1].grpcCode
      <4>1. layout = "matched" /\ layout # "flat"
        BY <1>2, <3>4
      <4>2. tr' = [tr EXCEPT ![r] = IF Pipeline!http(r) THEN Pipeline!Held(r, written'[r], Pipeline!Top(r).grpcCode)
                                                        ELSE Pipeline!Held(r, "", out)]
        BY <2>2, <4>1 DEF Pipeline!Handler
      <4>3. CASE Pipeline!http(r)
        <5> DEFINE c == Pipeline!Top(r).grpcCode
                   x == [statusCode |-> written'[r], grpcCode |-> c]
        <5>0. OneTransporter(r) /\ tr'[r] = Pipeline!Held(r, written'[r], c)
          BY <1>0, <1>6, <4>1, <4>2, <4>3
        <5>1. tr'[r] = <<x>>
          BY <5>0, OneHeld
        <5>2. tr'[r][1] = x /\ x = [statusCode |-> x.statusCode, grpcCode |-> x.grpcCode] /\ x.statusCode = written'[r]
          BY <5>1
        <5> HIDE DEF x
        <5>3. QED
          BY <1>7, <4>3, <5>1, <5>2 DEF OneTransporter, Answer
      <4>4. CASE ~Pipeline!http(r)
        <5> DEFINE x == [statusCode |-> "", grpcCode |-> out]
        <5>0. OneTransporter(r) /\ tr'[r] = Pipeline!Held(r, "", out)
          BY <1>0, <1>6, <4>1, <4>2, <4>4
        <5>1. tr'[r] = <<x>>
          BY <5>0, OneHeld
        <5>o. x = [statusCode |-> x.statusCode, grpcCode |-> x.grpcCode] /\ x.grpcCode = out
          OBVIOUS
        <5> HIDE DEF x
        <5>2. tr'[r][1] = x
          BY <5>1, OneIs
        <5>3. QED
          BY <1>2, <1>7, <4>4, <5>1, <5>2, <5>o DEF OneTransporter, Answer
      <4>5. QED
        BY <4>3, <4>4
    <3>5. Settled(r)'
      BY <3>2, <3>3, <3>4 DEF Settled
    <3>6. QED
      BY <3>1, <3>5 DEF Whereabouts
  <2>3. QED
    BY <2>1, <2>2
<1>9. r \in InMetrics' <=> r \in InMetrics
  BY <1>2 DEF InMetrics, Depth, Pipeline!http
<1>10. \A q \in Requests \ {r} : Untouched(q)
  BY <1>2, <1>4, <1>5 DEF Untouched
<1>11. QED
  BY <1>2, <1>4, <1>5, <1>7, <1>8, <1>9, <1>10, RequestMoves DEF PipelineInv

\* Every way to read the outcome gives the answer, once it is settled.
LEMMA OutcomeIsAnswer ==
  ASSUME NEW r, layout \in {"flat", "matched"}, Settled(r)
  PROVE  /\ Pipeline!Outcome(r, Pipeline!StatusNow(r), Pipeline!CodeNow(r)) = Answer(r)
         /\ layout = "matched" => Answer(r) = IF Pipeline!http(r) THEN Pipeline!StatusNow(r) ELSE Pipeline!CodeNow(r)
<1>1. CASE layout = "flat"
  BY <1>1 DEF Pipeline!Outcome, Pipeline!StatusNow, Pipeline!CodeNow, Pipeline!PerMiddleware, Pipeline!rpcStatusCode, Answer
<1>2. CASE layout = "matched"
  <2>1. /\ OneTransporter(r)
        /\ Answer(r) = IF Pipeline!http(r) THEN tr[r][1].statusCode ELSE tr[r][1].grpcCode
    BY <1>2 DEF Settled
  <2>2. Pipeline!Top(r) = tr[r][1]
    BY <2>1, OneHeld
  <2>3. Pipeline!StatusNow(r) = tr[r][1].statusCode /\ Pipeline!CodeNow(r) = tr[r][1].grpcCode
    BY <1>2, <2>2 DEF Pipeline!StatusNow, Pipeline!CodeNow, Pipeline!PerMiddleware
  <2>4. QED
    BY <1>2, <2>1, <2>3 DEF Pipeline!Outcome, Pipeline!rpcStatusCode, Answer
<1>3. QED
  BY <1>1, <1>2

\* Leaving a frame.
LEMMA FrameGone ==
  ASSUME PipelineInv, NEW r \in Requests, Depth(r) > 0, UNCHANGED kind,
         frames' = [frames EXCEPT ![r] = Pipeline!Front(frames[r])],
         active' = IF Pipeline!http(r) /\ Pipeline!Last(frames[r]) = "metrics" THEN active - 1 ELSE active
  PROVE  /\ Depth(r) \in 1..7 /\ Pipeline!Last(frames[r]) = Full[Depth(r)] /\ Depth(r)' = Depth(r) - 1
         /\ Framed(frames[r], Depth(r))'
         /\ DOMAIN frames' = Requests /\ \A q \in Requests \ {r} : frames'[q] = frames[q]
         /\ \/ (r \in InMetrics' <=> r \in InMetrics) /\ active' = active
            \/ r \in InMetrics' /\ r \notin InMetrics /\ active' = active + 1
            \/ r \notin InMetrics' /\ r \in InMetrics /\ active' = active - 1
<1> DEFINE k == Depth(r)
<1>0. Framed(frames[r], k) /\ DOMAIN frames = Requests /\ k > 0
  BY DEF PipelineInv
<1>1. k \in 1..7
  BY <1>0 DEF Framed
<1> HIDE DEF k
<1>2. Pipeline!Last(frames[r]) = Full[k] /\ Framed(Pipeline!Front(frames[r]), k - 1)
  BY <1>0, FrameLeft
<1>3. frames'[r] = Pipeline!Front(frames[r]) /\ DOMAIN frames' = Requests /\ \A q \in Requests \ {r} : frames'[q] = frames[q]
  BY <1>0
<1>4. Framed(frames'[r], k - 1) /\ Depth(r)' = k - 1
  BY <1>2, <1>3 DEF Framed, Depth
<1>5. Framed(frames[r], Depth(r))'
  BY <1>4 DEF Framed
<1>6. r \in InMetrics <=> Pipeline!http(r) /\ k >= 4
  BY DEF InMetrics, k
<1>7. r \in InMetrics' <=> Pipeline!http(r) /\ k - 1 >= 4
  BY <1>4 DEF InMetrics, Pipeline!http
<1>8. Full[k] = "metrics" <=> k = 4
  BY <1>1, FullIs
<1>9. \/ (r \in InMetrics' <=> r \in InMetrics) /\ active' = active
      \/ r \notin InMetrics' /\ r \in InMetrics /\ active' = active - 1
  <2>1. CASE Pipeline!http(r) /\ k = 4
    BY <1>2, <1>6, <1>7, <1>8, <2>1
  <2>2. CASE ~(Pipeline!http(r) /\ k = 4)
    <3>1. active' = active
      BY <1>2, <1>8, <2>2
    <3>2. Pipeline!http(r) => (k >= 4 <=> k - 1 >= 4)
      BY <1>1, <2>2
    <3>3. QED
      BY <1>6, <1>7, <3>1, <3>2
  <2>3. QED
    BY <2>1, <2>2
<1>10. QED
  BY <1>1, <1>2, <1>3, <1>4, <1>5, <1>9 DEF k

\* Unwind: tracing and metrics record the answer, which no longer changes.
LEMMA UnwindStep == ASSUME PipelineInv, NEW r \in Requests, Pipeline!Unwind(r) PROVE PipelineInv'
<1> DEFINE k == Depth(r)
           m == Pipeline!Last(frames[r])
           o == Pipeline!Outcome(r, Pipeline!StatusNow(r), Pipeline!CodeNow(r))
<1>0. /\ layout \in {"flat", "matched"} /\ Whereabouts(r) /\ Framed(frames[r], Depth(r))
      /\ DOMAIN tr = Requests /\ DOMAIN span = Requests /\ DOMAIN metric = Requests
  BY DEF PipelineInv
<1>1. /\ at[r] = "unwind" /\ frames[r] # <<>>
      /\ frames' = [frames EXCEPT ![r] = Pipeline!Front(frames[r])]
      /\ active' = IF Pipeline!http(r) /\ m = "metrics" THEN active - 1 ELSE active
      /\ span' = IF m = "tracing" THEN [span EXCEPT ![r] = o] ELSE span
      /\ metric' = IF m = "metrics" THEN [metric EXCEPT ![r] = o] ELSE metric
      /\ UNCHANGED <<layout, kind, at, i, err, written, refused>>
  BY DEF Pipeline!Unwind, Pipeline!Record
<1>2. k \in 0..7 /\ k > 0
  BY <1>0, <1>1, FrameHolds DEF Framed
<1>3. /\ k \in 1..7 /\ m = Full[k] /\ Depth(r)' = k - 1
      /\ Framed(frames[r], Depth(r))'
      /\ DOMAIN frames' = Requests /\ \A q \in Requests \ {r} : frames'[q] = frames[q]
      /\ \/ (r \in InMetrics' <=> r \in InMetrics) /\ active' = active
         \/ r \in InMetrics' /\ r \notin InMetrics /\ active' = active + 1
         \/ r \notin InMetrics' /\ r \in InMetrics /\ active' = active - 1
  BY <1>1, <1>2, FrameGone
<1>4. (m = "tracing" <=> k = 2) /\ (m = "metrics" <=> k = 4)
  BY <1>3, FullIs
<1> HIDE DEF k, m, o
<1>5. /\ DOMAIN tr' = Requests /\ DOMAIN span' = Requests /\ DOMAIN metric' = Requests
      /\ \A q \in Requests \ {r} : tr'[q] = tr[q] /\ span'[q] = span[q] /\ metric'[q] = metric[q]
  <2>1. \E x : tr' = [tr EXCEPT ![r] = x]
    BY DEF Pipeline!Unwind, Pipeline!Release
  <2>2. QED
    BY <1>0, <1>1, <2>1
<1>6. /\ Answer(r)' = Answer(r) /\ Excused(r)' = Excused(r) /\ Pipeline!http(r)' = Pipeline!http(r)
  BY <1>1 DEF Answer, Excused, Pipeline!http
<1>7. Whereabouts(r)'
  <2>1. Excused(r) \/ Settled(r)
    BY <1>0, <1>1, <1>2 DEF Whereabouts, k
  <2>2. at'[r] = "unwind"
    BY <1>1
  <2>3. ASSUME Settled(r) PROVE Settled(r)'
    <3>1. o = Answer(r) /\ (layout = "matched" => Answer(r) = IF Pipeline!http(r) THEN Pipeline!StatusNow(r) ELSE Pipeline!CodeNow(r))
      BY <1>0, <2>3, OutcomeIsAnswer DEF o
    <3>2. Pipeline!http(r)' => written'[r] # ""
      BY <1>1, <1>6, <2>3 DEF Settled
    <3>3. ASSUME k - 1 < 2 PROVE span'[r] = Answer(r)
      <4>1. CASE k = 2
        BY <1>0, <1>1, <1>4, <3>1, <4>1
      <4>2. CASE k # 2
        <5>1. k < 2
          BY <1>3, <3>3, <4>2
        <5>2. span[r] = Answer(r)
          BY <2>3, <5>1 DEF Settled, k
        <5>3. QED
          BY <1>1, <1>4, <4>2, <5>2
      <4>3. QED
        BY <4>1, <4>2
    <3>4. ASSUME k - 1 < 4 PROVE metric'[r] = Answer(r)
      <4>1. CASE k = 4
        BY <1>0, <1>1, <1>4, <3>1, <4>1
      <4>2. CASE k # 4
        <5>1. k < 4
          BY <1>3, <3>4, <4>2
        <5>2. metric[r] = Answer(r)
          BY <2>3, <5>1 DEF Settled, k
        <5>3. QED
          BY <1>1, <1>4, <4>2, <5>2
      <4>3. QED
        BY <4>1, <4>2
    <3>5. ASSUME layout' = "matched"
          PROVE  OneTransporter(r)' /\ Answer(r)' = IF Pipeline!http(r)' THEN tr'[r][1].statusCode ELSE tr'[r][1].grpcCode
      <4> DEFINE s == Pipeline!StatusNow(r)
                 c == Pipeline!CodeNow(r)
                 x == [statusCode |-> s, grpcCode |-> c]
      <4>1. layout = "matched" /\ layout # "flat"
        BY <1>1, <3>5
      <4>2. tr' = [tr EXCEPT ![r] = Pipeline!Held(r, s, c)]
        BY <4>1 DEF Pipeline!Unwind, Pipeline!PerMiddleware
      <4>3. OneTransporter(r)
        BY <2>3, <4>1 DEF Settled
      <4>4. tr'[r] = <<x>>
        BY <1>0, <4>2, <4>3, OneHeld
      <4>5. x = [statusCode |-> x.statusCode, grpcCode |-> x.grpcCode] /\ x.statusCode = s /\ x.grpcCode = c
        OBVIOUS
      <4> HIDE DEF x, s, c
      <4>6. tr'[r][1] = x
        BY <4>4, OneIs
      <4>7. OneTransporter(r)'
        BY <4>4, <4>5, <4>6 DEF OneTransporter
      <4>8. Answer(r) = IF Pipeline!http(r) THEN s ELSE c
        BY <3>1, <4>1 DEF s, c
      <4>9. QED
        BY <1>6, <4>5, <4>6, <4>7, <4>8
    <3>6. QED
      BY <1>3, <1>6, <3>2, <3>3, <3>4, <3>5 DEF Settled
  <2>4. QED
    BY <1>6, <2>1, <2>2, <2>3 DEF Whereabouts
<1>8. \A q \in Requests \ {r} : Untouched(q)
  BY <1>1, <1>3, <1>5 DEF Untouched
<1>9. QED
  BY <1>1, <1>3, <1>5, <1>7, <1>8, RequestMoves DEF PipelineInv

\* UnwindPanic: a panic passes without recording until recovery stops it.
LEMMA UnwindPanicStep == ASSUME PipelineInv, NEW r \in Requests, Pipeline!UnwindPanic(r) PROVE PipelineInv'
<1> DEFINE k == Depth(r)
           m == Pipeline!Last(frames[r])
<1>0. /\ layout \in {"flat", "matched"} /\ Whereabouts(r) /\ Framed(frames[r], Depth(r))
      /\ DOMAIN at = Requests /\ DOMAIN err = Requests /\ DOMAIN tr = Requests
  BY DEF PipelineInv
<1>1. /\ at[r] = "panic"
      /\ frames' = [frames EXCEPT ![r] = Pipeline!Front(frames[r])]
      /\ active' = IF Pipeline!http(r) /\ m = "metrics" THEN active - 1 ELSE active
      /\ IF m = "recovery" THEN at' = [at EXCEPT ![r] = "unwind"] /\ err' = [err EXCEPT ![r] = "panic"]
                           ELSE at' = at /\ err' = err
      /\ UNCHANGED <<layout, kind, i, written, refused, span, metric>>
  BY DEF Pipeline!UnwindPanic, Pipeline!Goto
<1>2. Depth(r) >= 1
  BY <1>0, <1>1 DEF Whereabouts
<1>u. Unrecorded(r)
  BY <1>0, <1>1 DEF Whereabouts
<1>z. Depth(r) > 0
  BY <1>0, <1>2 DEF Framed
<1>3. /\ k \in 1..7 /\ m = Full[k] /\ Depth(r)' = k - 1
      /\ Framed(frames[r], Depth(r))'
      /\ DOMAIN frames' = Requests /\ \A q \in Requests \ {r} : frames'[q] = frames[q]
      /\ \/ (r \in InMetrics' <=> r \in InMetrics) /\ active' = active
         \/ r \in InMetrics' /\ r \notin InMetrics /\ active' = active + 1
         \/ r \notin InMetrics' /\ r \in InMetrics /\ active' = active - 1
  BY <1>1, <1>z, FrameGone
<1>4. m = "recovery" <=> k = 1
  BY <1>3, FullIs
<1> HIDE DEF k, m
<1>5. /\ DOMAIN tr' = Requests /\ DOMAIN at' = Requests /\ DOMAIN err' = Requests
      /\ \A q \in Requests \ {r} : tr'[q] = tr[q] /\ at'[q] = at[q] /\ err'[q] = err[q]
  <2>1. tr' = tr \/ \E x : tr' = [tr EXCEPT ![r] = x]
    BY DEF Pipeline!UnwindPanic, Pipeline!Release, Pipeline!objectVars
  <2>2. QED
    BY <1>0, <1>1, <2>1
<1>6. Unrecorded(r)'
  BY <1>0, <1>1, <1>u DEF Unrecorded
<1>7. Whereabouts(r)'
  <2>1. CASE k = 1
    <3>1. at'[r] = "unwind"
      BY <1>0, <1>1, <1>4, <2>1
    <3>2. Depth(r)' = 0
      BY <1>3, <2>1
    <3>3. QED
      BY <1>6, <3>1, <3>2 DEF Whereabouts
  <2>2. CASE k # 1
    <3>1. at'[r] = "panic"
      BY <1>1, <1>4, <2>2
    <3>2. Depth(r)' >= 1
      BY <1>3, <2>2
    <3>3. QED
      BY <1>6, <3>1, <3>2 DEF Whereabouts
  <2>3. QED
    BY <2>1, <2>2
<1>8. \A q \in Requests \ {r} : Untouched(q)
  BY <1>1, <1>3, <1>5 DEF Untouched
<1>9. QED
  BY <1>1, <1>3, <1>5, <1>7, <1>8, RequestMoves DEF PipelineInv

\* Bridge: a request is done when all its frames are left.
LEMMA BridgeStep == ASSUME PipelineInv, NEW r \in Requests, Pipeline!Bridge(r) PROVE PipelineInv'
<1>0. /\ layout \in {"flat", "matched"} /\ Whereabouts(r) /\ Framed(frames[r], Depth(r))
      /\ DOMAIN at = Requests /\ DOMAIN written = Requests /\ DOMAIN tr = Requests
  BY DEF PipelineInv
<1>1. /\ at[r] = "unwind" /\ frames[r] = <<>>
      /\ IF Pipeline!http(r) /\ err[r] # "ok"
           THEN written' = [written EXCEPT ![r] = IF written[r] = "" THEN err[r] ELSE written[r]] ELSE written' = written
      /\ at' = [at EXCEPT ![r] = IF Pipeline!http(r) /\ layout = "matched" /\ r \in refused THEN "late" ELSE "done"]
      /\ UNCHANGED <<layout, kind, i, frames, err, refused, span, metric, active>>
  BY DEF Pipeline!Bridge, Pipeline!Goto, Pipeline!Rendered, Pipeline!recordVars
<1>2. Depth(r) = 0 /\ Depth(r) < 2 /\ Depth(r) < 4
  <2>1. frames[r] = <<>>
    BY <1>1
  <2>2. Len(<<>>) = 0
    OBVIOUS
  <2>3. Depth(r) = 0
    BY <2>1, <2>2 DEF Depth
  <2>4. QED
    BY <2>3
<1>3. /\ DOMAIN tr' = Requests /\ DOMAIN at' = Requests /\ DOMAIN written' = Requests
      /\ \A q \in Requests \ {r} : tr'[q] = tr[q] /\ at'[q] = at[q] /\ written'[q] = written[q]
  <2>1. tr' = tr \/ \E x : tr' = [tr EXCEPT ![r] = x]
    BY DEF Pipeline!Bridge, Pipeline!Release, Pipeline!objectVars
  <2>2. QED
    BY <1>0, <1>1, <2>1
<1>4. Excused(r)' = Excused(r) /\ Unrecorded(r)' = Unrecorded(r) /\ Pipeline!http(r)' = Pipeline!http(r)
      /\ Framed(frames[r], Depth(r))'
  BY <1>0, <1>1 DEF Excused, Unrecorded, Pipeline!http, Framed, Depth
<1>5. Whereabouts(r)'
  <2>1. CASE Excused(r)
    <3>1. at'[r] = "late" \/ at'[r] = "done"
      BY <1>0, <1>1
    <3>2. QED
      BY <1>4, <2>1, <3>1 DEF Whereabouts
  <2>2. CASE ~Excused(r)
    <3>1. at'[r] = "done"
      BY <1>0, <1>1, <2>2 DEF Excused
    <3>2. Settled(r) \/ Unrecorded(r)
      BY <1>0, <1>1, <2>2 DEF Whereabouts
    <3>3. ASSUME Settled(r) PROVE span'[r] = Answer(r)' /\ metric'[r] = Answer(r)'
      <4>1. Answer(r)' = Answer(r)
        BY <1>0, <1>1, <1>4, <3>3 DEF Settled, Answer
      <4>2. span[r] = Answer(r) /\ metric[r] = Answer(r)
        BY <1>2, <3>3 DEF Settled
      <4>3. QED
        BY <1>1, <4>1, <4>2
    <3>4. QED
      BY <1>4, <3>1, <3>2, <3>3 DEF Whereabouts
  <2>3. QED
    BY <2>1, <2>2
<1>6. r \in InMetrics' <=> r \in InMetrics
  BY <1>1 DEF InMetrics, Depth, Pipeline!http
<1>7. \A q \in Requests \ {r} : Untouched(q)
  BY <1>1, <1>3 DEF Untouched
<1>8. QED
  BY <1>1, <1>3, <1>4, <1>5, <1>6, <1>7, RequestMoves DEF PipelineInv

\* HandlerLate: only an excused request gets here.
LEMMA HandlerLateStep ==
  ASSUME PipelineInv, NEW r \in Requests, NEW out \in {"ok", "failed", "panic"}, NEW called \in BOOLEAN,
         Pipeline!HandlerLate(r, out, called)
  PROVE  PipelineInv'
<1>0. Whereabouts(r) /\ Framed(frames[r], Depth(r)) /\ DOMAIN at = Requests
  BY DEF PipelineInv
<1>1. Pipeline!Run(r, out, called) /\ at[r] = "late" /\ at' = [at EXCEPT ![r] = "done"] /\ tr' = tr
  BY DEF Pipeline!HandlerLate, Pipeline!Goto
<1>2. /\ DOMAIN err' = Requests /\ DOMAIN written' = Requests
      /\ \A q \in Requests \ {r} : err'[q] = err[q] /\ written'[q] = written[q]
      /\ UNCHANGED <<layout, kind, i, frames, refused, span, metric, active>>
  BY <1>1, RunIs
<1>3. DOMAIN at' = Requests /\ at'[r] = "done" /\ \A q \in Requests \ {r} : at'[q] = at[q]
  BY <1>0, <1>1
<1>4. Excused(r)' /\ Framed(frames[r], Depth(r))'
  BY <1>0, <1>1, <1>2 DEF Whereabouts, Excused, Framed, Depth
<1>5. Whereabouts(r)'
  BY <1>3, <1>4 DEF Whereabouts
<1>6. r \in InMetrics' <=> r \in InMetrics
  BY <1>2 DEF InMetrics, Depth, Pipeline!http
<1>7. \A q \in Requests \ {r} : Untouched(q)
  BY <1>1, <1>2, <1>3 DEF Untouched
<1>8. QED
  BY <1>1, <1>2, <1>3, <1>4, <1>5, <1>6, <1>7, RequestMoves DEF PipelineInv

\* Every step of a request keeps the invariant.
LEMMA PipelineInvStep == PipelineInv /\ [Pipeline!Next]_pipelineVars => PipelineInv'
<1> SUFFICES ASSUME PipelineInv, [Pipeline!Next]_pipelineVars PROVE PipelineInv'
  OBVIOUS
<1>1. CASE UNCHANGED pipelineVars
  <2>1. UNCHANGED <<layout, kind, at, i, frames, err, written, tr, refused, span, metric, active>>
    BY <1>1 DEF pipelineVars
  <2>2. \A q \in Requests : Framed(frames[q], Depth(q))' /\ Whereabouts(q)'
    BY <2>1, Bystander DEF Untouched
  <2>3. InMetrics' = InMetrics
    BY <2>1 DEF InMetrics, Depth, Pipeline!http
  <2>4. QED
    BY <2>1, <2>2, <2>3 DEF PipelineInv
<1>2. QED
  BY <1>1, BeginStep, EnterStep, RefuseStep, UnwindStep, UnwindPanicStep, BridgeStep, HandlerStep, HandlerLateStep
     DEF Pipeline!Next

\* No request has begun.
LEMMA PipelineInvInit == AllInit => PipelineInv
<1> SUFFICES ASSUME AllInit PROVE PipelineInv
  OBVIOUS
<1>1. /\ layout \in {"flat", "matched"}
      /\ at = [r \in Requests |-> "new"] /\ i = [r \in Requests |-> 1]
      /\ frames = [r \in Requests |-> << >>]
      /\ err = [r \in Requests |-> "ok"] /\ written = [r \in Requests |-> ""]
      /\ tr = [r \in Requests |-> << >>]
      /\ span = [r \in Requests |-> ""] /\ metric = [r \in Requests |-> ""]
      /\ active = 0
  BY RequestsCounted DEF AllInit, Pipeline!Init
<1>2. ASSUME NEW r \in Requests PROVE Framed(frames[r], Depth(r)) /\ Whereabouts(r) /\ r \notin InMetrics
  <2>1. frames[r] = <<>> /\ Depth(r) = 0
    BY <1>1 DEF Depth
  <2>2. Framed(frames[r], Depth(r))
    BY <2>1 DEF Framed
  <2>3. Whereabouts(r)
    BY <1>1, <2>1 DEF Whereabouts
  <2>4. r \notin InMetrics
    BY <2>1 DEF InMetrics
  <2>5. QED
    BY <2>2, <2>3, <2>4
<1>3. InMetrics = {}
  BY <1>2 DEF InMetrics
<1>4. active = Cardinality(InMetrics)
  BY <1>1, <1>3, FS_EmptySet
<1>5. QED
  BY <1>1, <1>2, <1>4 DEF PipelineInv

\* The invariant is enough.
LEMMA PipelineInvAgrees == PipelineInv => Pipeline!RecordsAgree
<1> SUFFICES ASSUME PipelineInv PROVE Pipeline!RecordsAgree
  OBVIOUS
<1>1. \A S : Pipeline!Cardinality(S) = Cardinality(S)
  BY Zenon DEF Pipeline!Cardinality, Cardinality
<1>2. \A r \in Requests : "metrics" \in Pipeline!Range(frames[r]) <=> Depth(r) >= 4
  BY FrameHolds DEF PipelineInv
<1>3. {r \in Requests : Pipeline!http(r) /\ "metrics" \in Pipeline!Range(frames[r])} = InMetrics
  BY <1>2 DEF InMetrics
<1>4. active = Pipeline!Cardinality({r \in Requests : Pipeline!http(r) /\ "metrics" \in Pipeline!Range(frames[r])})
  BY <1>1, <1>3 DEF PipelineInv
<1>5. ASSUME NEW r \in Requests, at[r] = "done"
      PROVE  \/ span[r] = Answer(r) /\ metric[r] = Answer(r)
             \/ err[r] = "panic" /\ span[r] = "" /\ metric[r] = ""
             \/ layout = "matched" /\ r \in refused
  <2>1. Whereabouts(r)
    BY DEF PipelineInv
  <2>2. QED
    BY <1>5, <2>1 DEF Whereabouts, Excused, Unrecorded
<1>6. QED
  BY <1>4, <1>5, Zenon DEF Pipeline!RecordsAgree, Answer

\* For any number of concurrent requests of either kind, in both layouts, over
\* any sequence of reuses of pooled transporters, refusals and panics: the
\* in-flight count is the number of HTTP requests inside the metrics middleware,
\* and the span and the metric of a finished request tell what its caller was
\* told, except in the two cases RecordsAgree names.
THEOREM RecordsAlwaysAgree == AllSpec => []Pipeline!RecordsAgree
<1>1. PipelineInv /\ [AllNext]_allVars => PipelineInv'
  BY PartsMove, PipelineInvStep
<1>2. QED
  BY <1>1, PipelineInvInit, PipelineInvAgrees, SafetyOfAll, PTL

-----------------------------------------------------------------------------
(* LogHandler: a record shows what its handler was given.                  *)

\* Arrays of cells, and a slice of one from its first cell on.
Heap == Seq(Seq(Int))
Buffer == [arr : Nat, len : Nat]

\* b is a slice of one of the arrays.
Slice(heap, b) == b \in Buffer /\ b.arr \in 1..Len(heap) /\ b.len <= Len(heap[b.arr])

\* What a slice holds: a beginning of its array.
LEMMA DataIs ==
  ASSUME NEW heap \in Heap, NEW b, Slice(heap, b)
  PROVE  /\ b # Log!Nil /\ heap[b.arr] \in Seq(Int) /\ Log!Data(heap, b) = SubSeq(heap[b.arr], 1, b.len)
         /\ Log!Data(heap, b) \in Seq(Int) /\ Len(Log!Data(heap, b)) = b.len
         /\ \A k \in 1..b.len : Log!Data(heap, b)[k] = heap[b.arr][k]
<1>1. b.arr \in 1..Len(heap) /\ b.len \in Nat /\ b.len <= Len(heap[b.arr]) /\ heap[b.arr] \in Seq(Int)
  BY DEF Slice, Buffer, Heap
<1>2. b # Log!Nil
  BY <1>1 DEF Log!Nil
<1> DEFINE t == heap[b.arr]
           n == b.len
<1> HIDE DEF t, n
<1>3. t \in Seq(Int) /\ n \in Nat /\ n <= Len(t)
  BY <1>1 DEF t, n
<1>4. SubSeq(t, 1, n) \in Seq(Int) /\ Len(SubSeq(t, 1, n)) = n /\ \A k \in 1..n : SubSeq(t, 1, n)[k] = t[k]
  BY <1>3, SubSeqProperties
<1>5. Log!Data(heap, b) = SubSeq(t, 1, n)
  BY <1>2 DEF Log!Data, t, n
<1>6. QED
  BY <1>1, <1>2, <1>4, <1>5 DEF t, n

\* A function on 1..n is a sequence of length n.
LEMMA TupleIsSeq == ASSUME NEW n \in Nat, NEW f \in [1..n -> Int] PROVE f \in Seq(Int) /\ Len(f) = n
  OBVIOUS

\* Reslicing a buffer keeps its array.
LEMMA Lengthened ==
  ASSUME NEW b \in Buffer, NEW n \in Nat
  PROVE  [b EXCEPT !.len = n] \in Buffer /\ [b EXCEPT !.len = n].arr = b.arr /\ [b EXCEPT !.len = n].len = n
  BY DEF Buffer

\* Two sequences with the same elements.
LEMMA SameElements ==
  ASSUME NEW s \in Seq(Int), NEW t \in Seq(Int), Len(s) = Len(t), \A k \in 1..Len(s) : s[k] = t[k]
  PROVE  s = t
  BY SeqEqual

\* A buffer that no one else has, with contents s, in a heap that has grown.
NewBuffer(heap, R, s) ==
    /\ R.heap \in Heap /\ Len(heap) <= Len(R.heap) /\ Slice(R.heap, R.buf) /\ R.buf.arr > Len(heap)
    /\ \A a \in 1..Len(heap) : R.heap[a] = heap[a]
    /\ Log!Data(R.heap, R.buf) = s

\* Spare cells behind s leave s its beginning.
LEMMA Padded ==
  ASSUME NEW s \in Seq(Int), NEW cap \in Nat, Len(s) <= cap
  PROVE  LET t == s \o [k \in 1..(cap - Len(s)) |-> Log!Spare]
         IN  t \in Seq(Int) /\ Len(t) = cap /\ SubSeq(t, 1, Len(s)) = s
<1> DEFINE d == cap - Len(s)
           z == [k \in 1..d |-> Log!Spare]
           t == s \o z
<1>1. Len(s) \in Nat /\ d \in Nat /\ Len(s) + d = cap
  OBVIOUS
<1> HIDE DEF d
<1>2. z \in Seq(Int) /\ Len(z) = d
  BY <1>1 DEF Log!Spare
<1> HIDE DEF z
<1>3. t \in Seq(Int) /\ Len(t) = cap /\ \A k \in 1..Len(s) : t[k] = s[k]
  <2>1. t \in Seq(Int) /\ Len(t) = Len(s) + Len(z) /\ \A k \in 1..(Len(s) + Len(z)) : t[k] = IF k <= Len(s) THEN s[k] ELSE z[k - Len(s)]
    BY <1>2, ConcatProperties
  <2>2. \A k \in 1..Len(s) : k \in 1..(Len(s) + Len(z)) /\ k <= Len(s)
    BY <1>1, <1>2
  <2>3. QED
    BY <1>1, <1>2, <2>1, <2>2
<1> HIDE DEF t
<1>4. SubSeq(t, 1, Len(s)) = s
  <2>1. SubSeq(t, 1, Len(s)) \in Seq(Int) /\ Len(SubSeq(t, 1, Len(s))) = Len(s) /\ \A k \in 1..Len(s) : SubSeq(t, 1, Len(s))[k] = t[k]
    BY <1>1, <1>3, SubSeqProperties
  <2>2. QED
    BY <1>3, <2>1, SameElements
<1>5. QED
  BY <1>3, <1>4 DEF t, z, d

\* An allocation is a buffer of its own: no earlier array changes.
LEMMA AllocNew ==
  ASSUME NEW heap \in Heap, NEW s \in Seq(Int), NEW cap \in Nat, Len(s) <= cap
  PROVE  NewBuffer(heap, Log!Alloc(heap, s, cap), s)
<1> DEFINE t == s \o [k \in 1..(cap - Len(s)) |-> Log!Spare]
           R == Log!Alloc(heap, s, cap)
           n == Len(heap)
<1>1. t \in Seq(Int) /\ Len(t) = cap /\ SubSeq(t, 1, Len(s)) = s
  BY Padded
<1>2. R.heap = Append(heap, t) /\ R.buf = [arr |-> n + 1, len |-> Len(s)]
  BY DEF Log!Alloc
<1> HIDE DEF t, R
<1>3. R.heap \in Heap /\ Len(R.heap) = n + 1 /\ R.heap[n + 1] = t /\ (\A a \in 1..n : R.heap[a] = heap[a]) /\ n \in Nat
  BY <1>1, <1>2, AppendProperties DEF Heap
<1>4. R.buf.arr = n + 1 /\ R.buf.len = Len(s) /\ R.buf \in Buffer
  BY <1>2, <1>3 DEF Buffer
<1> HIDE DEF n
<1>5. Slice(R.heap, R.buf)
  BY <1>1, <1>3, <1>4 DEF Slice
<1>6. Log!Data(R.heap, R.buf) = s
  <2>1. Log!Data(R.heap, R.buf) = SubSeq(R.heap[R.buf.arr], 1, R.buf.len)
    BY <1>3, <1>5, DataIs
  <2>2. QED
    BY <1>1, <1>3, <1>4, <2>1
<1>7. Len(heap) <= Len(R.heap) /\ R.buf.arr > Len(heap)
  BY <1>3, <1>4 DEF n
<1>8. QED
  BY <1>3, <1>5, <1>6, <1>7 DEF NewBuffer, R, n

\* W is heap with more behind slice b, which c is together with b; nothing else
\* has changed.
Lengthens(heap, b, kvs, W, c) ==
    /\ W \in Heap /\ Len(W) = Len(heap) /\ \A a \in 1..Len(heap) : Len(W[a]) = Len(heap[a])
    /\ \A a \in 1..Len(heap) : a # b.arr => W[a] = heap[a]
    /\ \A k \in 1..b.len : W[b.arr][k] = heap[b.arr][k]
    /\ Slice(W, c) /\ c.arr = b.arr /\ c.len = b.len + Len(kvs)
    /\ Log!Data(W, c) = Log!Data(heap, b) \o kvs

\* Writing where there is room reaches only the cells behind b in b's array.
LEMMA WrittenIs ==
  ASSUME NEW heap \in Heap, NEW b, Slice(heap, b), NEW kvs \in Seq(Int), b.len + Len(kvs) <= Len(heap[b.arr])
  PROVE  Lengthens(heap, b, kvs, Log!Written(heap, b, kvs), [b EXCEPT !.len = b.len + Len(kvs)])
<1> DEFINE A == b.arr
           n == b.len
           m == Len(kvs)
           t == heap[A]
           x(k) == IF k \in (n + 1)..(n + m) THEN kvs[k - n] ELSE t[k]
           u == [k \in DOMAIN t |-> x(k)]
           W == Log!Written(heap, b, kvs)
           c == [b EXCEPT !.len = b.len + Len(kvs)]
<1>1. A \in 1..Len(heap) /\ n \in Nat /\ m \in Nat /\ t \in Seq(Int) /\ n + m <= Len(t) /\ Len(t) \in Nat /\ DOMAIN t = 1..Len(t) /\ b \in Buffer
  BY DEF Slice, Buffer, Heap
<1>2. W = [heap EXCEPT ![A] = u]
  BY DEF Log!Written
<1> HIDE DEF A, n, m, t, W
<1>3. \A k \in 1..Len(t) : x(k) \in Int
  <2> SUFFICES ASSUME NEW k \in 1..Len(t) PROVE x(k) \in Int
    OBVIOUS
  <2>1. CASE k \in (n + 1)..(n + m)
    <3>1. k - n \in 1..m
      BY <1>1, <2>1
    <3>2. kvs[k - n] \in Int
      BY <3>1 DEF m
    <3>3. QED
      BY <2>1, <3>2
  <2>2. CASE k \notin (n + 1)..(n + m)
    BY <1>1, <2>2
  <2>3. QED
    BY <2>1, <2>2
<1>4. u \in Seq(Int) /\ Len(u) = Len(t) /\ \A k \in 1..Len(t) : u[k] = x(k)
  <2>1. u \in [1..Len(t) -> Int]
    BY <1>1, <1>3
  <2>2. \A k \in 1..Len(t) : u[k] = x(k)
    BY <1>1
  <2> HIDE DEF u
  <2>3. u \in Seq(Int) /\ Len(u) = Len(t)
    BY <1>1, <2>1, TupleIsSeq
  <2>4. QED
    BY <2>2, <2>3
<1>5. (\A k \in 1..n : u[k] = t[k]) /\ \A j \in 1..m : u[n + j] = kvs[j]
  <2>1. ASSUME NEW k \in 1..n PROVE u[k] = t[k]
    <3>1. k \in 1..Len(t) /\ k \notin (n + 1)..(n + m)
      BY <1>1
    <3>2. QED
      BY <1>4, <3>1
  <2>2. ASSUME NEW j \in 1..m PROVE u[n + j] = kvs[j]
    <3>1. n + j \in 1..Len(t) /\ n + j \in (n + 1)..(n + m) /\ (n + j) - n = j
      BY <1>1
    <3>2. QED
      BY <1>4, <3>1
  <2>3. QED
    BY <2>1, <2>2
<1> HIDE DEF u, x
<1>6. W \in Heap /\ Len(W) = Len(heap) /\ W[A] = u /\ \A a \in 1..Len(heap) : a # A => W[a] = heap[a]
  BY <1>1, <1>2, <1>4, ExceptSeq DEF Heap
<1>7. \A a \in 1..Len(heap) : Len(W[a]) = Len(heap[a])
  BY <1>4, <1>6 DEF t
<1>8. c \in Buffer /\ c.arr = A /\ c.len = n + m
  <2>1. b.len + Len(kvs) \in Nat
    BY <1>1 DEF n, m
  <2>2. QED
    BY <1>1, <2>1, Lengthened DEF A, n, m
<1> HIDE DEF c
<1>9. Slice(W, c)
  BY <1>1, <1>4, <1>6, <1>8 DEF Slice
<1>10. Log!Data(W, c) = Log!Data(heap, b) \o kvs
  <2> DEFINE d == Log!Data(W, c)
             e == Log!Data(heap, b)
  <2>1. d \in Seq(Int) /\ Len(d) = n + m /\ \A k \in 1..(n + m) : d[k] = u[k]
    <3>1. d \in Seq(Int) /\ Len(d) = c.len /\ \A k \in 1..c.len : d[k] = W[c.arr][k]
      BY <1>6, <1>9, DataIs
    <3>2. QED
      BY <1>6, <1>8, <3>1
  <2>2. e \in Seq(Int) /\ Len(e) = n /\ \A k \in 1..n : e[k] = t[k]
    BY DataIs DEF n, t, A
  <2> HIDE DEF d, e
  <2>3. e \o kvs \in Seq(Int) /\ Len(e \o kvs) = n + m /\ \A k \in 1..(n + m) : (e \o kvs)[k] = IF k <= n THEN e[k] ELSE kvs[k - n]
    <3>1. /\ e \o kvs \in Seq(Int) /\ Len(e \o kvs) = Len(e) + Len(kvs)
          /\ \A k \in 1..(Len(e) + Len(kvs)) : (e \o kvs)[k] = IF k <= Len(e) THEN e[k] ELSE kvs[k - Len(e)]
      BY <2>2, ConcatProperties
    <3>2. QED
      BY <2>2, <3>1 DEF m
  <2>4. ASSUME NEW k \in 1..(n + m) PROVE d[k] = (e \o kvs)[k]
    <3>1. CASE k <= n
      <4>1. k \in 1..n
        BY <3>1
      <4>2. d[k] = u[k]
        BY <2>1
      <4>3. u[k] = t[k]
        BY <1>5, <4>1
      <4>4. e[k] = t[k]
        BY <2>2, <4>1
      <4>5. (e \o kvs)[k] = e[k]
        BY <2>3, <3>1
      <4>6. QED
        BY <4>2, <4>3, <4>4, <4>5
    <3>2. CASE ~(k <= n)
      <4>1. k - n \in 1..m /\ n + (k - n) = k
        BY <1>1, <3>2
      <4>2. u[n + (k - n)] = kvs[k - n]
        BY <1>5, <4>1
      <4>3. QED
        BY <2>1, <2>3, <3>2, <4>1, <4>2
    <3>3. QED
      BY <3>1, <3>2
  <2>5. QED
    BY <2>1, <2>3, <2>4, SameElements DEF d, e
<1>11. \A k \in 1..b.len : W[b.arr][k] = heap[b.arr][k]
  BY <1>5, <1>6 DEF A, n, t
<1>12. QED
  BY <1>6, <1>7, <1>8, <1>9, <1>10, <1>11 DEF W, c, A, n, m, Lengthens

\* A buffer that is new after a new buffer is new.
LEMMA NewerStill ==
  ASSUME NEW heap \in Heap, NEW R, NEW Q, NEW s, NEW t, NewBuffer(heap, R, s), NewBuffer(R.heap, Q, t)
  PROVE  NewBuffer(heap, Q, t)
<1> DEFINE n == Len(heap)
           m == Len(R.heap)
<1>1. n \in Nat /\ m \in Nat /\ n <= m /\ R.heap \in Heap /\ \A a \in 1..n : R.heap[a] = heap[a]
  <2>1. n <= m /\ R.heap \in Heap /\ \A a \in 1..n : R.heap[a] = heap[a]
    BY Zenon DEF NewBuffer
  <2>2. n \in Nat /\ m \in Nat
    BY <2>1 DEF Heap
  <2>3. QED
    BY <2>1, <2>2
<1>2. Q.heap \in Heap /\ m <= Len(Q.heap) /\ Slice(Q.heap, Q.buf) /\ Q.buf.arr > m /\ Log!Data(Q.heap, Q.buf) = t
      /\ \A a \in 1..m : Q.heap[a] = R.heap[a]
  BY DEF NewBuffer
<1>3. Len(Q.heap) \in Nat /\ Q.buf.arr \in Nat
  BY <1>2 DEF Heap, Slice, Buffer
<1> HIDE DEF n, m
<1>4. n <= Len(Q.heap) /\ Q.buf.arr > n /\ \A a \in 1..n : a \in 1..m
  BY <1>1, <1>2, <1>3
<1>5. \A a \in 1..n : Q.heap[a] = heap[a]
  BY <1>1, <1>2, <1>4
<1>6. QED
  BY <1>2, <1>4, <1>5 DEF NewBuffer, n

\* append on a new buffer leaves a new buffer with kvs behind its contents,
\* whether it fits or moves.
LEMMA AppendedNew ==
  ASSUME NEW heap \in Heap, NEW R, NEW s \in Seq(Int), NewBuffer(heap, R, s), NEW kvs \in Seq(Int), NEW extra \in Nat
  PROVE  NewBuffer(heap, Log!Appended(R.heap, R.buf, kvs, extra), s \o kvs)
<1> DEFINE H == R.heap
           b == R.buf
           Q == Log!Appended(H, b, kvs, extra)
<1>1. H \in Heap /\ Slice(H, b) /\ Log!Data(H, b) = s /\ Len(s) = b.len /\ b.len \in Nat /\ Len(kvs) \in Nat /\ H[b.arr] \in Seq(Int)
      /\ b \in Buffer
  BY DataIs DEF NewBuffer, Slice, Buffer
<1>2. s \o kvs \in Seq(Int) /\ Len(s \o kvs) = b.len + Len(kvs)
  <2>1. s \o kvs \in Seq(Int) /\ Len(s \o kvs) = Len(s) + Len(kvs)
    BY ConcatProperties
  <2>2. QED
    BY <1>1, <2>1
<1>3. CASE Log!Room(H, b) < Len(kvs)
  <2> DEFINE cap == b.len + Len(kvs) + extra
  <2>1. Q = Log!Alloc(H, s \o kvs, cap)
    BY <1>1, <1>3 DEF Log!Appended
  <2>2. cap \in Nat /\ Len(s \o kvs) <= cap
    BY <1>1, <1>2
  <2> HIDE DEF cap, Q
  <2>3. NewBuffer(H, Q, s \o kvs)
    BY <1>1, <1>2, <2>1, <2>2, AllocNew
  <2>4. QED
    BY <2>3, NewerStill DEF Q
<1>4. CASE ~(Log!Room(H, b) < Len(kvs))
  <2> DEFINE W == Log!Written(H, b, kvs)
             c == [b EXCEPT !.len = b.len + Len(kvs)]
  <2>1. Q = [heap |-> W, buf |-> c]
    BY <1>4 DEF Log!Appended
  <2>2. b.len + Len(kvs) <= Len(H[b.arr])
    BY <1>1, <1>4 DEF Log!Room
  <2>3. /\ W \in Heap /\ Len(W) = Len(H)
        /\ \A a \in 1..Len(H) : a # b.arr => W[a] = H[a]
        /\ Slice(W, c) /\ Log!Data(W, c) = s \o kvs
    <3> HIDE DEF H, b, W, c
    <3>1. Lengthens(H, b, kvs, W, c)
      BY <1>1, <2>2, WrittenIs DEF W, c
    <3>2. Log!Data(W, c) = s \o kvs
      BY <1>1, <3>1, Zenon DEF Lengthens
    <3>3. QED
      BY <3>1, <3>2 DEF Lengthens
  <2>4. c.arr = b.arr
    <3>1. b.len + Len(kvs) \in Nat
      BY <1>1
    <3>2. QED
      BY <1>1, <3>1, Lengthened
  <2> HIDE DEF W, c, Q
  <2>5. Q.heap = W /\ Q.buf = c
    BY <2>1
  <2>6. Len(heap) \in Nat /\ Len(H) \in Nat /\ Len(heap) <= Len(H) /\ b.arr > Len(heap) /\ b.arr \in Nat
        /\ \A a \in 1..Len(heap) : H[a] = heap[a]
    BY <1>1 DEF NewBuffer, Heap, Buffer
  <2>7. \A a \in 1..Len(heap) : a \in 1..Len(H) /\ a # b.arr
    BY <2>6
  <2>8. \A a \in 1..Len(heap) : W[a] = heap[a]
    BY <2>3, <2>6, <2>7
  <2>9. QED
    BY <2>3, <2>4, <2>5, <2>6, <2>8 DEF NewBuffer, Q
<1>5. QED
  BY <1>3, <1>4

\* kvBuffer.AddAttrs on a new buffer leaves a new buffer with kvs behind its
\* contents, whatever was reserved.
LEMMA AddAttrsNew ==
  ASSUME NEW heap \in Heap, NEW R, NEW s \in Seq(Int), NewBuffer(heap, R, s),
         NEW n \in Nat, NEW kvs \in Seq(Int), NEW extra \in Nat
  PROVE  NewBuffer(heap, Log!AddAttrs(R.heap, R.buf, n, kvs, extra), s \o kvs)
<1> DEFINE H == R.heap
           b == R.buf
           cap == b.len + n + extra
           G == IF Log!Room(H, b) >= n THEN [heap |-> H, buf |-> b] ELSE Log!Alloc(H, Log!Data(H, b), cap)
<1>1. H \in Heap /\ Slice(H, b) /\ Log!Data(H, b) = s /\ Len(s) = b.len /\ b.len \in Nat
  BY DataIs DEF NewBuffer, Slice, Buffer
<1>2. NewBuffer(heap, G, s)
  <2>1. CASE Log!Room(H, b) >= n
    <3>1. G.heap = H /\ G.buf = b
      BY <2>1
    <3>2. QED
      BY <3>1 DEF NewBuffer
  <2>2. CASE ~(Log!Room(H, b) >= n)
    <3>1. G = Log!Alloc(H, s, cap)
      BY <1>1, <2>2
    <3>2. cap \in Nat /\ Len(s) <= cap
      BY <1>1
    <3> HIDE DEF cap, G
    <3>3. NewBuffer(H, G, s)
      BY <1>1, <3>1, <3>2, AllocNew
    <3>4. QED
      BY <3>3, NewerStill
  <2>3. QED
    BY <2>1, <2>2
<1>3. Log!AddAttrs(H, b, n, kvs, extra) = Log!Appended(G.heap, G.buf, kvs, extra)
  BY Zenon DEF Log!AddAttrs
<1> HIDE DEF G
<1>4. NewBuffer(heap, Log!Appended(G.heap, G.buf, kvs, extra), s \o kvs)
  BY <1>2, AppendedNew
<1>5. QED
  BY <1>3, <1>4

-----------------------------------------------------------------------------
(* What a map shows.                                                       *)

\* A map without the reference to the group inside it.
Cut(s) == IF s # <<>> /\ Log!Last(s) < 0 THEN Log!Front(s) ELSE s

\* Attributes are cells.
LEMMA NatsAreInts == Seq(Nat) \subseteq Seq(Int)
  BY SeqMonotonic

\* Cut takes away at most the last cell, and only the reference to a map.
LEMMA CutOff ==
  ASSUME NEW D \in Seq(Int)
  PROVE  /\ Cut(D) \in Seq(Int)
         /\ D # <<>> /\ D[Len(D)] < 0 => Len(Cut(D)) = Len(D) - 1
         /\ ~(D # <<>> /\ D[Len(D)] < 0) => Cut(D) = D
         /\ \A k \in 1..Len(Cut(D)) : k \in 1..Len(D) /\ Cut(D)[k] = D[k]
<1>1. Len(D) \in Nat /\ (D # <<>> => Len(D) > 0) /\ Log!Last(D) = D[Len(D)]
  BY DEF Log!Last
<1>2. CASE D # <<>> /\ D[Len(D)] < 0
  <2> DEFINE n == Len(D) - 1
  <2>1. Cut(D) = SubSeq(D, 1, n)
    BY <1>1, <1>2 DEF Cut, Log!Front
  <2>2. n \in Nat /\ n <= Len(D) /\ \A k \in 1..n : k \in 1..Len(D)
    BY <1>1, <1>2
  <2> HIDE DEF n
  <2>3. SubSeq(D, 1, n) \in Seq(Int) /\ Len(SubSeq(D, 1, n)) = n /\ \A k \in 1..n : SubSeq(D, 1, n)[k] = D[k]
    BY <2>2, SubSeqProperties
  <2>4. QED
    BY <1>2, <2>1, <2>2, <2>3 DEF n
<1>3. CASE ~(D # <<>> /\ D[Len(D)] < 0)
  BY <1>1, <1>3 DEF Cut
<1>4. QED
  BY <1>2, <1>3

\* Cutting a map off leaves what comes before it.
LEMMA CutKeeps ==
  ASSUME NEW s \in Seq(Nat), NEW D \in Seq(Int), Len(D) \in {Len(s), Len(s) + 1}, \A k \in 1..Len(s) : D[k] = s[k]
  PROVE  Log!IsPrefix(s, Cut(D))
<1> DEFINE C == Cut(D)
           n == Len(s)
<1>1. s \in Seq(Int) /\ n \in Nat /\ Len(D) \in Nat
  BY NatsAreInts
<1>2. C \in Seq(Int) /\ \A k \in 1..Len(C) : k \in 1..Len(D) /\ C[k] = D[k]
  BY CutOff
<1>3. n <= Len(C)
  <2>1. CASE D # <<>> /\ D[Len(D)] < 0
    <3>1. Len(C) = Len(D) - 1 /\ Len(D) # 0 /\ Len(D) \in 1..Len(D)
      BY <1>1, <2>1, CutOff
    <3>2. Len(D) # n
      <4> SUFFICES ASSUME Len(D) = n PROVE FALSE
        OBVIOUS
      <4>1. D[Len(D)] = s[Len(D)] /\ s[Len(D)] \in Nat
        BY <3>1
      <4>2. QED
        BY <2>1, <4>1
    <3>3. QED
      BY <1>1, <3>1, <3>2
  <2>2. CASE ~(D # <<>> /\ D[Len(D)] < 0)
    BY <1>1, <2>2, CutOff
  <2>3. QED
    BY <2>1, <2>2
<1> HIDE DEF C, n
<1>4. SubSeq(s, 1, n) \in Seq(Int) /\ Len(SubSeq(s, 1, n)) = n /\ \A k \in 1..n : SubSeq(s, 1, n)[k] = s[k]
  BY <1>1, SubSeqProperties DEF n
<1>5. SubSeq(C, 1, n) \in Seq(Int) /\ Len(SubSeq(C, 1, n)) = n /\ \A k \in 1..n : SubSeq(C, 1, n)[k] = C[k]
  BY <1>1, <1>2, <1>3, SubSeqProperties
<1>6. \A k \in 1..n : C[k] = s[k]
  <2>1. \A k \in 1..n : k \in 1..Len(C)
    BY <1>1, <1>2, <1>3
  <2>2. QED
    BY <1>2, <2>1 DEF n
<1>7. SubSeq(s, 1, n) = SubSeq(C, 1, n)
  BY <1>4, <1>5, <1>6, SameElements
<1>8. QED
  BY <1>3, <1>7 DEF Log!IsPrefix, C, n

\* Of attributes and one more cell, Cut leaves all but the reference to a map.
LEMMA CutIs ==
  ASSUME NEW s \in Seq(Nat), NEW t \in Seq(Int), Len(t) <= 1
  PROVE  /\ s \o t \in Seq(Int) /\ Len(s \o t) = Len(s) + Len(t) /\ \A k \in 1..Len(s) : (s \o t)[k] = s[k]
         /\ Len(t) = 1 /\ t[1] < 0 => Cut(s \o t) = s
         /\ ~(Len(t) = 1 /\ t[1] < 0) => Cut(s \o t) = s \o t
         /\ Len(t) = 0 => s \o t = s
<1> DEFINE D == s \o t
           n == Len(s)
           m == Len(t)
<1>1. s \in Seq(Int) /\ n \in Nat /\ m \in {0, 1}
  <2>1. s \in Seq(Int) /\ n \in Nat /\ m \in Nat /\ m <= 1
    BY NatsAreInts
  <2> HIDE DEF m
  <2>2. QED
    BY <2>1
<1>2. D \in Seq(Int) /\ Len(D) = n + m /\ \A k \in 1..(n + m) : D[k] = IF k <= n THEN s[k] ELSE t[k - n]
  BY <1>1, ConcatProperties
<1> HIDE DEF D, n, m
<1>3. \A k \in 1..n : D[k] = s[k]
  <2>1. \A k \in 1..n : k \in 1..(n + m) /\ k <= n
    BY <1>1
  <2>2. QED
    BY <1>2, <2>1
<1>4. m = 0 => D = s
  BY <1>1, <1>2, <1>3, SameElements DEF n
<1>5. m = 1 => D[Len(D)] = t[1] /\ D # <<>>
  <2> SUFFICES ASSUME m = 1 PROVE D[Len(D)] = t[1] /\ D # <<>>
    OBVIOUS
  <2>1. n + 1 \in 1..(n + m) /\ ~(n + 1 <= n) /\ (n + 1) - n = 1 /\ n + 1 # 0
    BY <1>1
  <2>2. D[n + 1] = t[1] /\ Len(D) = n + 1
    BY <1>2, <2>1
  <2>3. D # <<>>
    BY <1>2, <2>1, <2>2
  <2>4. QED
    BY <2>2, <2>3
<1>6. ASSUME m = 1, t[1] < 0 PROVE Cut(D) = s
  <2>1. Cut(D) \in Seq(Int) /\ Len(Cut(D)) = Len(D) - 1 /\ \A k \in 1..Len(Cut(D)) : Cut(D)[k] = D[k]
    BY <1>2, <1>5, <1>6, CutOff
  <2>2. Len(Cut(D)) = n
    BY <1>1, <1>2, <1>6, <2>1
  <2>3. QED
    BY <1>1, <1>3, <2>1, <2>2, SameElements DEF n
<1>7. ASSUME m = 0 \/ ~(t[1] < 0) PROVE Cut(D) = D
  <2>1. CASE m = 0
    <3>1. D # <<>> => ~(D[Len(D)] < 0)
      <4> SUFFICES ASSUME D # <<>> PROVE ~(D[Len(D)] < 0)
        OBVIOUS
      <4>1. D = s /\ Len(s) # 0 /\ Len(s) \in 1..Len(s)
        BY <1>1, <1>4, <2>1
      <4>2. s[Len(s)] \in Nat
        BY <4>1
      <4>3. QED
        BY <4>1, <4>2
    <3>2. QED
      BY <1>2, <3>1, CutOff
  <2>2. CASE m = 1
    BY <1>2, <1>5, <1>7, <2>2, CutOff
  <2>3. QED
    BY <1>1, <2>1, <2>2
<1>8. QED
  BY <1>1, <1>2, <1>3, <1>4, <1>6, <1>7 DEF D, n, m

-----------------------------------------------------------------------------
(* Slots: where the handlers keep attributes.                              *)

\* A named slot, a map of a record, and what was given for each group.
Group == [name : Nat, attrs : Buffer]
Entry == [name : Nat, vals : Seq(Int), buf : Buffer]
Gift == [0..MaxHandlers -> Seq(Nat)]

\* No buffer, or a slice.
Good(heap, b) == b = Log!Nil \/ Slice(heap, b)

\* No two slots share an array.
Owners(S) == \A s, u \in S : s.attrs # Log!Nil /\ s.attrs.arr = u.attrs.arr => s = u

\* heap2 has all that the slots hold, and outside of the arrays T nothing has
\* changed.
Keeps(heap, heap2, S, T) ==
    /\ heap2 \in Heap /\ Len(heap) <= Len(heap2)
    /\ \A a \in 1..Len(heap) : Len(heap2[a]) = Len(heap[a]) /\ (a \notin T => heap2[a] = heap[a])
    /\ \A s \in S : Slice(heap, s.attrs) => Log!Data(heap2, s.attrs) = Log!Data(heap, s.attrs)

\* No buffer holds no attributes.
LEMMA NilHolds == ASSUME NEW heap PROVE Log!Data(heap, Log!Nil) = <<>> /\ Log!Nil \in Buffer /\ Log!Nil.arr = 0 /\ Log!Nil.len = 0
  BY DEF Log!Data, Log!Nil, Buffer

\* A slice stays one, and its contents are kept outside the arrays of T.
LEMMA SliceKept ==
  ASSUME NEW heap \in Heap, NEW heap2, NEW S, NEW T, Keeps(heap, heap2, S, T), NEW b, Slice(heap, b)
  PROVE  Slice(heap2, b) /\ (b.arr \notin T => Log!Data(heap2, b) = Log!Data(heap, b))
<1>1. heap2 \in Heap /\ Len(heap) <= Len(heap2) /\ Len(heap) \in Nat /\ Len(heap2) \in Nat
  <2>1. heap2 \in Heap /\ Len(heap) <= Len(heap2)
    BY DEF Keeps
  <2>2. QED
    BY <2>1 DEF Heap
<1>2. b \in Buffer /\ b.arr \in 1..Len(heap) /\ b.len <= Len(heap[b.arr])
  BY DEF Slice
<1>3. Len(heap2[b.arr]) = Len(heap[b.arr]) /\ (b.arr \notin T => heap2[b.arr] = heap[b.arr])
  BY <1>2 DEF Keeps
<1>4. b.arr \in 1..Len(heap2)
  BY <1>1, <1>2
<1>5. Slice(heap2, b)
  BY <1>2, <1>3, <1>4 DEF Slice
<1>6. ASSUME b.arr \notin T PROVE Log!Data(heap2, b) = Log!Data(heap, b)
  BY <1>3, <1>6 DEF Log!Data
<1>7. QED
  BY <1>5, <1>6

\* A slot's contents are kept, in every array.
LEMMA GoodKept ==
  ASSUME NEW heap \in Heap, NEW heap2, NEW S, NEW T, Keeps(heap, heap2, S, T), NEW s \in S, Good(heap, s.attrs)
  PROVE  Good(heap2, s.attrs) /\ Log!Data(heap2, s.attrs) = Log!Data(heap, s.attrs)
<1>1. CASE s.attrs = Log!Nil
  BY <1>1, NilHolds DEF Good
<1>2. CASE Slice(heap, s.attrs)
  <2>1. Slice(heap2, s.attrs)
    BY <1>2, SliceKept
  <2>2. QED
    BY <1>2, <2>1 DEF Good, Keeps
<1>3. QED
  BY <1>1, <1>2 DEF Good

\* Two changes that keep the slots, one after the other, keep them.
LEMMA KeepsOn ==
  ASSUME NEW heap \in Heap, NEW heap2, NEW heap3, NEW S, NEW T, NEW U, Keeps(heap, heap2, S, T), Keeps(heap2, heap3, S, U)
  PROVE  Keeps(heap, heap3, S, T \cup U)
<1> DEFINE n == Len(heap)
           m == Len(heap2)
<1>1. n \in Nat /\ m \in Nat /\ Len(heap3) \in Nat /\ n <= m /\ m <= Len(heap3) /\ heap3 \in Heap /\ heap2 \in Heap
  <2>1. heap2 \in Heap /\ heap3 \in Heap /\ n <= m /\ m <= Len(heap3)
    BY DEF Keeps
  <2>2. n \in Nat /\ m \in Nat /\ Len(heap3) \in Nat
    BY <2>1 DEF Heap
  <2>3. QED
    BY <2>1, <2>2
<1>2. \A a \in 1..n : Len(heap2[a]) = Len(heap[a]) /\ (a \notin T => heap2[a] = heap[a])
  BY DEF Keeps
<1>3. \A a \in 1..m : Len(heap3[a]) = Len(heap2[a]) /\ (a \notin U => heap3[a] = heap2[a])
  BY DEF Keeps
<1> HIDE DEF n, m
<1>4. n <= Len(heap3) /\ \A a \in 1..n : a \in 1..m
  BY <1>1
<1>5. \A a \in 1..n : Len(heap3[a]) = Len(heap[a]) /\ (a \notin T \cup U => heap3[a] = heap[a])
  BY <1>2, <1>3, <1>4
<1>6. ASSUME NEW s \in S, Slice(heap, s.attrs) PROVE Log!Data(heap3, s.attrs) = Log!Data(heap, s.attrs)
  <2>1. Slice(heap2, s.attrs)
    BY <1>6, SliceKept
  <2>2. QED
    BY <1>6, <2>1 DEF Keeps
<1>7. QED
  BY <1>1, <1>4, <1>5, <1>6 DEF Keeps, n

\* A new buffer changes no array.
LEMMA NewKeeps ==
  ASSUME NEW heap \in Heap, NEW R, NEW d, NewBuffer(heap, R, d), NEW S
  PROVE  Keeps(heap, R.heap, S, {})
<1>1. R.heap \in Heap /\ Len(heap) <= Len(R.heap) /\ \A a \in 1..Len(heap) : R.heap[a] = heap[a]
  BY DEF NewBuffer
<1>2. ASSUME NEW b, Slice(heap, b) PROVE Log!Data(R.heap, b) = Log!Data(heap, b)
  <2>1. R.heap[b.arr] = heap[b.arr]
    BY <1>1, <1>2 DEF Slice
  <2>2. QED
    BY <2>1 DEF Log!Data
<1>3. QED
  BY <1>1, <1>2 DEF Keeps

-----------------------------------------------------------------------------
(* The maps of a record.                                                   *)

\* Map e refers to the array of slot s, where t was put behind its attributes d.
RefersTo(e, s, d, t, clash, heap) ==
    /\ s.name = e.name /\ Slice(heap, s.attrs) /\ Log!Data(heap, s.attrs) = d /\ Len(t) = 1
    /\ Slice(heap, e.buf) /\ e.buf.arr = s.attrs.arr /\ e.buf.len = s.attrs.len + 1
    /\ ~clash => Log!Data(heap, e.buf) = d \o t

\* What may follow the attributes of a map: the record's own, or a map.
Follows(t, name, leaf, own) ==
    /\ t \in Seq(Int) /\ Len(t) <= 1
    /\ name = leaf => t = own
    /\ name # leaf /\ Len(t) = 1 => t[1] < 0

\* Map e has what gv says for its group and what may follow: values of its own,
\* or cells of a slot's array.
EntryShows(e, gv, leaf, own, clash, heap, S) ==
    /\ e \in Entry /\ e.name \in 0..MaxHandlers
    /\ \E t : /\ Follows(t, e.name, leaf, own)
              /\ \/ e.buf = Log!Nil /\ e.vals = gv[e.name] \o t
                 \/ \E s \in S : RefersTo(e, s, gv[e.name], t, clash, heap)

\* What is shown of e.
ContentIn(e, heap) == Cut(IF e.buf = Log!Nil THEN e.vals ELSE Log!Data(heap, e.buf))

\* Nothing more is nothing more.
LEMMA NothingMore == ASSUME NEW s \in Seq(Nat) PROVE s \o <<>> = s
<1>1. <<>> \in Seq(Int) /\ Len(<<>>) = 0 /\ Len(<<>>) <= 1
  OBVIOUS
<1>2. QED
  BY <1>1, CutIs

\* Attributes and what may follow them show the attributes, then the record's
\* own in the leaf.
LEMMA FollowedShows ==
  ASSUME NEW d \in Seq(Nat), NEW own \in Seq(Nat), NEW t, NEW name, NEW leaf, Follows(t, name, leaf, own)
  PROVE  Log!IsPrefix(d, Cut(d \o t)) /\ Cut(d \o t) = d \o (IF name = leaf THEN own ELSE <<>>)
<1>1. t \in Seq(Int) /\ Len(t) <= 1 /\ Len(t) \in Nat /\ Len(d) \in Nat
  BY DEF Follows
<1>2. d \o t \in Seq(Int) /\ Len(d \o t) = Len(d) + Len(t) /\ \A k \in 1..Len(d) : (d \o t)[k] = d[k]
  BY <1>1, CutIs
<1>3. Len(d \o t) \in {Len(d), Len(d) + 1}
  BY <1>1, <1>2
<1>4. Log!IsPrefix(d, Cut(d \o t))
  BY <1>2, <1>3, CutKeeps
<1>5. CASE name = leaf
  <2>1. t = own
    BY <1>5 DEF Follows
  <2>2. ~(Len(t) = 1 /\ t[1] < 0)
    <3>1. Len(own) = 1 => own[1] \in Nat
      <4> SUFFICES ASSUME Len(own) = 1 PROVE own[1] \in Nat
        OBVIOUS
      <4>1. 1 \in 1..Len(own)
        OBVIOUS
      <4>2. QED
        BY <4>1, ElementOfSeq
    <3>2. QED
      BY <2>1, <3>1
  <2>3. QED
    BY <1>1, <1>4, <1>5, <2>1, <2>2, CutIs
<1>6. CASE name # leaf
  <2>1. Len(t) = 1 => t[1] < 0
    BY <1>6 DEF Follows
  <2>2. Cut(d \o t) = d
    <3>1. CASE Len(t) = 1
      BY <1>1, <2>1, <3>1, CutIs
    <3>2. CASE Len(t) = 0
      BY <1>1, <3>2, CutIs
    <3>3. Len(t) = 0 \/ Len(t) = 1
      <4> DEFINE m == Len(t)
      <4>1. m \in Nat /\ m <= 1
        BY <1>1
      <4> HIDE DEF m
      <4>2. m = 0 \/ m = 1
        BY <4>1
      <4>3. QED
        BY <4>2 DEF m
    <3>4. QED
      BY <3>1, <3>2, <3>3
  <2>3. QED
    BY <1>4, <1>6, <2>2, NothingMore
<1>7. QED
  BY <1>5, <1>6

\* A map of which a record shows d, if no other record crosses, then its own.
Displays(e, gv, leaf, own, clash, heap) ==
    /\ Log!IsPrefix(gv[e.name], ContentIn(e, heap))
    /\ ~clash => ContentIn(e, heap) = gv[e.name] \o (IF e.name = leaf THEN own ELSE <<>>)

\* A map shows the attributes its logger was given; its own too, unless another
\* record writes to the same array.
LEMMA EntryContent ==
  ASSUME NEW heap \in Heap, NEW S, NEW gv \in Gift, NEW own \in Seq(Nat), NEW leaf, NEW clash \in BOOLEAN,
         NEW e, EntryShows(e, gv, leaf, own, clash, heap, S)
  PROVE  Displays(e, gv, leaf, own, clash, heap)
<1> DEFINE d == gv[e.name]
<1>1. d \in Seq(Nat)
  BY DEF EntryShows, Gift
<1>2. PICK t : /\ Follows(t, e.name, leaf, own)
               /\ \/ e.buf = Log!Nil /\ e.vals = d \o t
                  \/ \E s \in S : RefersTo(e, s, d, t, clash, heap)
  BY DEF EntryShows
<1> HIDE DEF d
<1>3. Log!IsPrefix(d, Cut(d \o t)) /\ Cut(d \o t) = d \o (IF e.name = leaf THEN own ELSE <<>>)
  BY <1>1, <1>2, FollowedShows
<1>4. CASE e.buf = Log!Nil /\ e.vals = d \o t
  BY <1>3, <1>4 DEF ContentIn, d, Displays
<1>5. CASE \E s \in S : RefersTo(e, s, d, t, clash, heap)
  <2>1. PICK s \in S : RefersTo(e, s, d, t, clash, heap)
    BY <1>5
  <2> DEFINE D == Log!Data(heap, e.buf)
             c == Log!Data(heap, s.attrs)
  <2>2. /\ Slice(heap, s.attrs) /\ c = d /\ Slice(heap, e.buf)
        /\ e.buf.arr = s.attrs.arr /\ e.buf.len = s.attrs.len + 1
        /\ ~clash => D = d \o t
    BY <2>1 DEF RefersTo
  <2>3. e.buf # Log!Nil /\ D \in Seq(Int) /\ Len(D) = e.buf.len /\ \A k \in 1..e.buf.len : D[k] = heap[e.buf.arr][k]
    BY <2>2, DataIs
  <2>4. Len(c) = s.attrs.len /\ (\A k \in 1..s.attrs.len : c[k] = heap[s.attrs.arr][k]) /\ s.attrs.len \in Nat
    BY <2>2, DataIs DEF Slice, Buffer
  <2> HIDE DEF D, c
  <2>5. Len(D) \in {Len(d), Len(d) + 1}
    BY <2>2, <2>3, <2>4
  <2>6. \A k \in 1..Len(d) : D[k] = d[k]
    <3>1. \A k \in 1..s.attrs.len : k \in 1..e.buf.len
      BY <2>2, <2>4
    <3>2. QED
      BY <2>2, <2>3, <2>4, <3>1
  <2>7. Log!IsPrefix(d, Cut(D))
    BY <1>1, <2>3, <2>5, <2>6, CutKeeps
  <2>8. ContentIn(e, heap) = Cut(D)
    BY <2>3 DEF ContentIn, D
  <2>9. QED
    BY <1>3, <2>2, <2>7, <2>8 DEF d, Displays
<1>6. QED
  BY <1>2, <1>4, <1>5

\* A map keeps showing this as the heap changes.
LEMMA EntryLater ==
  ASSUME NEW heap \in Heap, NEW heap2, NEW S, NEW S2, S \subseteq S2, NEW T, Keeps(heap, heap2, S, T),
         NEW gv, NEW leaf, NEW own, NEW clash, NEW clash2, NEW e, EntryShows(e, gv, leaf, own, clash, heap, S),
         ~clash2 => ~clash /\ (e.buf = Log!Nil \/ e.buf.arr \notin T)
  PROVE  EntryShows(e, gv, leaf, own, clash2, heap2, S2)
<1> DEFINE d == gv[e.name]
<1>2. PICK t : /\ Follows(t, e.name, leaf, own)
               /\ \/ e.buf = Log!Nil /\ e.vals = d \o t
                  \/ \E s \in S : RefersTo(e, s, d, t, clash, heap)
  BY DEF EntryShows
<1> HIDE DEF d
<1>3. ASSUME NEW s \in S, RefersTo(e, s, d, t, clash, heap) PROVE RefersTo(e, s, d, t, clash2, heap2)
  <2>1. Slice(heap, s.attrs) /\ Slice(heap, e.buf) /\ Log!Data(heap, s.attrs) = d
    BY <1>3 DEF RefersTo
  <2>2. Slice(heap2, s.attrs) /\ Slice(heap2, e.buf) /\ Good(heap, s.attrs) /\ e.buf # Log!Nil
    BY <2>1, SliceKept, DataIs DEF Good
  <2>3. Log!Data(heap2, s.attrs) = d
    BY <2>1, <2>2, GoodKept
  <2>4. ~clash2 => Log!Data(heap2, e.buf) = Log!Data(heap, e.buf)
    BY <2>1, <2>2, SliceKept
  <2>5. QED
    BY <1>3, <2>2, <2>3, <2>4 DEF RefersTo
<1>4. QED
  BY <1>2, <1>3 DEF EntryShows, d

\* A slot with attributes gv says it has.
SlotHolds(heap, s, gv) ==
    s \in Group /\ s.name \in 0..MaxHandlers /\ Good(heap, s.attrs) /\ Log!Data(heap, s.attrs) = gv[s.name]

\* Acc2 is acc and one more map, of slot g.
Adds(acc, acc2, e, g, gv, leaf, own, S) ==
    /\ acc2 = [heap |-> acc2.heap, out |-> acc2.out] /\ acc2.out = Append(acc.out, e)
    /\ e.name = g.name /\ EntryShows(e, gv, leaf, own, FALSE, acc2.heap, S)
    /\ Keeps(acc.heap, acc2.heap, S, {e.buf.arr} \ {0})
    /\ Len(acc2.heap) = Len(acc.heap)
    /\ e.buf # Log!Nil => e.buf.arr = g.attrs.arr /\ g.attrs # Log!Nil

\* kvBuffer.KeyValues with room behind the attributes: the map refers to the
\* slot's own array, one cell longer.
LEMMA KeyValuesInPlace ==
  ASSUME NEW acc \in [heap : Heap, out : Seq(Entry)], NEW S, Owners(S), NEW gv \in Gift,
         NEW g \in S, SlotHolds(acc.heap, g, gv), NEW leaf, NEW own, NEW t, Follows(t, g.name, leaf, own),
         t # <<>>, g.attrs # Log!Nil, Log!Room(acc.heap, g.attrs) >= Len(t)
  PROVE  \E e : Adds(acc, Log!KeyValues(acc, g, t), e, g, gv, leaf, own, S)
<1> DEFINE heap == acc.heap
           b == g.attrs
           W == Log!Written(heap, b, t)
           c == [b EXCEPT !.len = b.len + Len(t)]
           e == [name |-> g.name, vals |-> <<>>, buf |-> c]
           R == Log!KeyValues(acc, g, t)
           d == gv[g.name]
<1>1. heap \in Heap /\ Slice(heap, b) /\ g \in Group /\ g.name \in 0..MaxHandlers /\ Log!Data(heap, b) = d
  BY DEF SlotHolds, Good
<1>2. R = [heap |-> W, out |-> Append(acc.out, e)]
  BY DEF Log!KeyValues
<1>3. t \in Seq(Int) /\ Len(t) = 1
  <2>1. t \in Seq(Int) /\ Len(t) <= 1
    BY DEF Follows
  <2>2. Len(t) \in Nat /\ Len(t) # 0
    BY <2>1
  <2> DEFINE m == Len(t)
  <2>3. m \in Nat /\ m # 0 /\ m <= 1
    BY <2>1, <2>2
  <2> HIDE DEF m
  <2>4. m = 1
    BY <2>3
  <2>5. QED
    BY <2>1, <2>4 DEF m
<1>4. Lengthens(heap, b, t, W, c)
  <2>1. b.len \in Nat /\ heap[b.arr] \in Seq(Int)
    BY <1>1, DataIs DEF Slice, Buffer
  <2>2. b.len + Len(t) <= Len(heap[b.arr])
    <3> DEFINE x == Len(heap[b.arr])
               y == b.len
               m == Len(t)
    <3>1. x \in Nat /\ y \in Nat /\ m \in Nat /\ x - y >= m
      BY <1>3, <2>1 DEF Log!Room
    <3> HIDE DEF x, y, m
    <3>2. y + m <= x
      BY <3>1
    <3>3. QED
      BY <3>2 DEF x, y, m
  <2>3. QED
    BY <1>1, <1>3, <2>2, WrittenIs
<1> HIDE DEF W, c, R, heap, b, d
<1>5. /\ W \in Heap /\ Len(W) = Len(heap) /\ Len(heap) \in Nat
      /\ \A a \in 1..Len(heap) : Len(W[a]) = Len(heap[a]) /\ (a # b.arr => W[a] = heap[a])
      /\ \A k \in 1..b.len : W[b.arr][k] = heap[b.arr][k]
      /\ Slice(W, c) /\ c.arr = b.arr /\ c.len = b.len + 1 /\ Log!Data(W, c) = d \o t
  <2>1. /\ W \in Heap /\ Len(W) = Len(heap)
        /\ \A a \in 1..Len(heap) : Len(W[a]) = Len(heap[a]) /\ (a # b.arr => W[a] = heap[a])
        /\ \A k \in 1..b.len : W[b.arr][k] = heap[b.arr][k]
        /\ Slice(W, c) /\ c.arr = b.arr /\ c.len = b.len + Len(t)
        /\ Log!Data(W, c) = Log!Data(heap, b) \o t
    BY <1>4 DEF Lengthens
  <2>2. Len(heap) \in Nat
    BY <1>1 DEF Heap
  <2>3. QED
    BY <1>1, <1>3, <2>1, <2>2
<1>6. Slice(W, b) /\ Log!Data(W, b) = Log!Data(heap, b)
  <2>1. Slice(W, b)
    BY <1>1, <1>5 DEF Slice
  <2>2. Log!Data(W, b) \in Seq(Int) /\ Len(Log!Data(W, b)) = b.len /\ \A k \in 1..b.len : Log!Data(W, b)[k] = W[b.arr][k]
    <3>1. W \in Heap
      BY <1>5
    <3>2. QED
      BY <2>1, <3>1, DataIs
  <2>3. Log!Data(heap, b) \in Seq(Int) /\ Len(Log!Data(heap, b)) = b.len /\ \A k \in 1..b.len : Log!Data(heap, b)[k] = heap[b.arr][k]
    BY <1>1, DataIs
  <2> DEFINE p == Log!Data(W, b)
             q == Log!Data(heap, b)
  <2>4. p = q
    <3>1. p \in Seq(Int) /\ q \in Seq(Int) /\ Len(p) = Len(q) /\ Len(p) = b.len
      BY <2>2, <2>3
    <3>2. \A k \in 1..b.len : p[k] = q[k]
      BY <1>5, <2>2, <2>3
    <3> HIDE DEF p, q
    <3>3. QED
      BY <3>1, <3>2, SameElements
  <2>5. QED
    BY <2>1, <2>4 DEF p, q
<1>7. Keeps(heap, W, S, {c.arr} \ {0})
  <2>1. c.arr = b.arr /\ b.arr # 0 /\ b.arr \in {c.arr} \ {0}
    BY <1>1, <1>5 DEF Slice
  <2>2. ASSUME NEW s \in S, Slice(heap, s.attrs) PROVE Log!Data(W, s.attrs) = Log!Data(heap, s.attrs)
    <3>1. CASE s.attrs.arr = b.arr
      <4>1. s = g
        BY <3>1 DEF Owners, b
      <4>2. QED
        BY <1>6, <4>1 DEF b
    <3>2. CASE s.attrs.arr # b.arr
      <4>1. W[s.attrs.arr] = heap[s.attrs.arr]
        BY <1>5, <2>2, <3>2 DEF Slice
      <4>2. QED
        BY <4>1 DEF Log!Data
    <3>3. QED
      BY <3>1, <3>2
  <2>3. \A a \in 1..Len(heap) : a \notin {c.arr} \ {0} => W[a] = heap[a]
    BY <1>5, <2>1
  <2>4. Len(heap) <= Len(W)
    BY <1>5
  <2>5. QED
    BY <1>5, <2>2, <2>3, <2>4 DEF Keeps
<1>8. EntryShows(e, gv, leaf, own, FALSE, W, S)
  <2>1. e \in Entry /\ e.name = g.name /\ e.buf = c
    BY <1>1, <1>5 DEF Entry, Group, Slice
  <2> HIDE DEF e
  <2>2. RefersTo(e, g, d, t, FALSE, W)
    BY <1>1, <1>3, <1>5, <1>6, <2>1 DEF RefersTo, b
  <2>3. QED
    BY <1>1, <2>1, <2>2 DEF EntryShows, d
<1>9. e.buf = c /\ e.name = g.name
  OBVIOUS
<1> HIDE DEF e
<1>10. R.heap = W /\ R = [heap |-> R.heap, out |-> R.out] /\ R.out = Append(acc.out, e)
  BY <1>2
<1>11. Adds(acc, R, e, g, gv, leaf, own, S)
  BY <1>5, <1>7, <1>8, <1>9, <1>10 DEF Adds, heap, b
<1>12. QED
  BY <1>11 DEF R

\* kvBuffer.KeyValues without room, or with nothing to add: the map has its own
\* values.
LEMMA KeyValuesCopied ==
  ASSUME NEW acc \in [heap : Heap, out : Seq(Entry)], NEW S, NEW gv \in Gift,
         NEW g \in S, SlotHolds(acc.heap, g, gv), NEW leaf, NEW own, NEW t, Follows(t, g.name, leaf, own),
         ~(t # <<>> /\ g.attrs # Log!Nil /\ Log!Room(acc.heap, g.attrs) >= Len(t))
  PROVE  \E e : Adds(acc, Log!KeyValues(acc, g, t), e, g, gv, leaf, own, S)
<1> DEFINE d == gv[g.name]
           e == [name |-> g.name, buf |-> Log!Nil, vals |-> Log!Data(acc.heap, g.attrs) \o t]
           R == Log!KeyValues(acc, g, t)
<1>1. g \in Group /\ g.name \in 0..MaxHandlers /\ Log!Data(acc.heap, g.attrs) = d /\ d \in Seq(Int) /\ t \in Seq(Int)
  <2>1. d \in Seq(Nat)
    BY DEF SlotHolds, Gift
  <2>2. QED
    BY <2>1, NatsAreInts DEF SlotHolds, Follows
<1>2. R = [heap |-> acc.heap, out |-> Append(acc.out, e)]
  <2>1. R = [acc EXCEPT !.out = Append(acc.out, e)]
    BY DEF Log!KeyValues
  <2> HIDE DEF e, R
  <2>2. QED
    BY <2>1
<1> HIDE DEF R
<1>3. e.name = g.name /\ e.buf = Log!Nil /\ e.vals = d \o t /\ e \in Entry
  <2>1. d \o t \in Seq(Int)
    BY <1>1, ConcatProperties
  <2>2. e = [name |-> g.name, buf |-> Log!Nil, vals |-> d \o t]
    BY <1>1
  <2> HIDE DEF e
  <2>3. QED
    BY <1>1, <2>1, <2>2, NilHolds DEF Entry, Group
<1> HIDE DEF e
<1>4. R.heap = acc.heap /\ R = [heap |-> R.heap, out |-> R.out] /\ R.out = Append(acc.out, e)
  BY <1>2
<1>5. EntryShows(e, gv, leaf, own, FALSE, R.heap, S)
  BY <1>1, <1>3 DEF EntryShows
<1>6. Keeps(acc.heap, R.heap, S, {e.buf.arr} \ {0})
  <2>1. acc.heap \in Heap
    OBVIOUS
  <2>2. Len(acc.heap) <= Len(acc.heap)
    BY <2>1 DEF Heap
  <2>3. QED
    BY <1>4, <2>1, <2>2 DEF Keeps
<1>7. Adds(acc, R, e, g, gv, leaf, own, S)
  BY <1>3, <1>4, <1>5, <1>6 DEF Adds
<1>8. QED
  BY <1>7 DEF R

\* In both cases there is one more map, of this slot.
LEMMA KeyValuesAdds ==
  ASSUME NEW acc \in [heap : Heap, out : Seq(Entry)], NEW S, Owners(S), NEW gv \in Gift,
         NEW g \in S, SlotHolds(acc.heap, g, gv), NEW leaf, NEW own, NEW t, Follows(t, g.name, leaf, own)
  PROVE  \E e : Adds(acc, Log!KeyValues(acc, g, t), e, g, gv, leaf, own, S)
  BY KeyValuesInPlace, KeyValuesCopied

-----------------------------------------------------------------------------
(* The loop of KeyValue.                                                   *)

\* The groups of a record, from the leaf on: slots of S with names of their own.
Listed(groups, S, gv, leaf) ==
    /\ groups \in Seq(Group)
    /\ \A k \in 1..Len(groups) : groups[k] \in S /\ groups[k].name # 0 /\ (k # 1 => groups[k].name # leaf)
    /\ \A j, k \in 1..Len(groups) : groups[j].name = groups[k].name => j = k

\* acc has maps for the first w groups, but for those without attributes.
BuiltUpTo(acc, w, groups, gv, leaf, own, heap, S) ==
    /\ acc \in [heap : Heap, out : Seq(Entry)]
    /\ Keeps(heap, acc.heap, S, Log!Arrays(acc.out)) /\ Len(acc.heap) = Len(heap)
    /\ \A k \in 1..Len(acc.out) : /\ EntryShows(acc.out[k], gv, leaf, own, FALSE, acc.heap, S)
                                  /\ \E j \in 1..w : acc.out[k].name = groups[j].name
    /\ \A j, k \in 1..Len(acc.out) : acc.out[j].name = acc.out[k].name => j = k
    /\ \A j \in 1..w : \/ \E k \in 1..Len(acc.out) : acc.out[k].name = groups[j].name
                       \/ groups[j].attrs.len = 0 /\ groups[j].name # leaf

\* No maps refer to no arrays.
LEMMA ArraysOfNone == Log!Arrays(<<>>) = {}
  BY DEF Log!Arrays

\* One more map refers to one more array, or to none.
LEMMA ArraysOfMore ==
  ASSUME NEW out \in Seq(Entry), NEW e \in Entry
  PROVE  Log!Arrays(Append(out, e)) = Log!Arrays(out) \cup ({e.buf.arr} \ {0})
<1> DEFINE n == Len(out)
           o == Append(out, e)
<1>1. DOMAIN out = 1..n /\ DOMAIN o = 1..(n + 1) /\ n \in Nat /\ o[n + 1] = e /\ \A k \in 1..n : o[k] = out[k]
  BY AppendProperties
<1>2. 1..(n + 1) = (1..n) \cup {n + 1}
  BY <1>1
<1> HIDE DEF n, o
<1>3. {o[k].buf.arr : k \in 1..(n + 1)} = {out[k].buf.arr : k \in 1..n} \cup {e.buf.arr}
  BY <1>1, <1>2
<1>4. Log!Arrays(o) = {o[k].buf.arr : k \in 1..(n + 1)} \ {0} /\ Log!Arrays(out) = {out[k].buf.arr : k \in 1..n} \ {0}
  BY <1>1, NilHolds DEF Log!Arrays
<1>5. QED
  BY <1>3, <1>4 DEF o

\* Before the first group there are no maps.
LEMMA BuiltNone ==
  ASSUME NEW heap \in Heap, NEW groups, NEW gv, NEW leaf, NEW own, NEW S
  PROVE  BuiltUpTo([heap |-> heap, out |-> <<>>], 0, groups, gv, leaf, own, heap, S)
<1> DEFINE acc == [heap |-> heap, out |-> <<>>]
<1>1. acc \in [heap : Heap, out : Seq(Entry)] /\ acc.heap = heap /\ acc.out = <<>> /\ Len(acc.out) = 0
  OBVIOUS
<1> HIDE DEF acc
<1>2. Len(heap) <= Len(heap)
  BY DEF Heap
<1>3. Keeps(heap, acc.heap, S, Log!Arrays(acc.out))
  BY <1>1, <1>2 DEF Keeps
<1>4. (\A k \in 1..0 : FALSE)
  OBVIOUS
<1>5. QED
  BY <1>1, <1>3, <1>4 DEF BuiltUpTo, acc

\* A group without attributes is passed over.
LEMMA BuiltSkip ==
  ASSUME NEW groups, NEW w \in Nat, NEW acc, NEW gv, NEW leaf, NEW own, NEW heap, NEW S,
         BuiltUpTo(acc, w, groups, gv, leaf, own, heap, S),
         groups[w + 1].attrs.len = 0, groups[w + 1].name # leaf
  PROVE  BuiltUpTo(acc, w + 1, groups, gv, leaf, own, heap, S)
<1>1. (\A j \in 1..w : j \in 1..(w + 1)) /\ \A j \in 1..(w + 1) : j \in 1..w \/ j = w + 1
  OBVIOUS
<1>2. \A k \in 1..Len(acc.out) : /\ EntryShows(acc.out[k], gv, leaf, own, FALSE, acc.heap, S)
                                 /\ \E j \in 1..(w + 1) : acc.out[k].name = groups[j].name
  BY <1>1 DEF BuiltUpTo
<1>3. \A j \in 1..(w + 1) : \/ \E k \in 1..Len(acc.out) : acc.out[k].name = groups[j].name
                            \/ groups[j].attrs.len = 0 /\ groups[j].name # leaf
  BY <1>1 DEF BuiltUpTo
<1>4. QED
  BY <1>2, <1>3 DEF BuiltUpTo

\* Two maps of different groups do not share an array.
LEMMA MapsApart ==
  ASSUME NEW S, Owners(S), NEW gv, NEW leaf, NEW own, NEW heap \in Heap, NEW f, EntryShows(f, gv, leaf, own, FALSE, heap, S),
         NEW g \in S, f.name # g.name, g.attrs # Log!Nil
  PROVE  f.buf = Log!Nil \/ f.buf.arr # g.attrs.arr
<1> SUFFICES ASSUME f.buf # Log!Nil PROVE f.buf.arr # g.attrs.arr
  OBVIOUS
<1>1. PICK t : \E s \in S : RefersTo(f, s, gv[f.name], t, FALSE, heap)
  BY DEF EntryShows
<1>2. PICK s \in S : RefersTo(f, s, gv[f.name], t, FALSE, heap)
  BY <1>1
<1>3. s.name = f.name /\ f.buf.arr = s.attrs.arr
  BY <1>2 DEF RefersTo
<1>4. QED
  BY <1>3 DEF Owners

\* A group with attributes gets its map, and the maps before it keep theirs.
LEMMA BuiltMore ==
  ASSUME NEW S, Owners(S), NEW gv, NEW leaf, NEW own, NEW heap \in Heap, NEW groups, Listed(groups, S, gv, leaf),
         NEW w \in Nat, w + 1 \in 1..Len(groups), NEW acc, BuiltUpTo(acc, w, groups, gv, leaf, own, heap, S),
         NEW acc2, NEW e, Adds(acc, acc2, e, groups[w + 1], gv, leaf, own, S)
  PROVE  BuiltUpTo(acc2, w + 1, groups, gv, leaf, own, heap, S)
<1> DEFINE g == groups[w + 1]
           n == Len(acc.out)
           T == {e.buf.arr} \ {0}
<1>1. (\A j \in 1..w : j \in 1..(w + 1)) /\ (\A j \in 1..(w + 1) : j \in 1..w \/ j = w + 1) /\ w + 1 \in 1..(w + 1)
  OBVIOUS
<1>2. \A j \in 1..w : j \in 1..Len(groups) /\ j # w + 1
  <2>1. Len(groups) \in Nat
    BY DEF Listed
  <2>2. QED
    BY <2>1
<1>3. g \in S /\ \A j \in 1..w : groups[j].name # g.name
  BY <1>2 DEF Listed
<1> HIDE DEF g
<1>4. /\ acc.heap \in Heap /\ acc.out \in Seq(Entry) /\ n \in Nat
      /\ acc2.out = Append(acc.out, e) /\ acc2 = [heap |-> acc2.heap, out |-> acc2.out]
      /\ e.name = g.name /\ e \in Entry /\ EntryShows(e, gv, leaf, own, FALSE, acc2.heap, S)
      /\ Keeps(acc.heap, acc2.heap, S, T) /\ Len(acc2.heap) = Len(acc.heap) /\ acc2.heap \in Heap
      /\ e.buf # Log!Nil => e.buf.arr = g.attrs.arr /\ g.attrs # Log!Nil
  <2>1. acc \in [heap : Heap, out : Seq(Entry)]
    BY DEF BuiltUpTo
  <2>3. /\ e.name = g.name /\ EntryShows(e, gv, leaf, own, FALSE, acc2.heap, S)
        /\ Keeps(acc.heap, acc2.heap, S, T) /\ Len(acc2.heap) = Len(acc.heap)
        /\ e.buf # Log!Nil => e.buf.arr = g.attrs.arr /\ g.attrs # Log!Nil
    BY DEF Adds, g
  <2>4. e \in Entry /\ acc2.heap \in Heap
    BY <2>3 DEF EntryShows, Keeps
  <2>5. acc2.out = Append(acc.out, e) /\ acc2 = [heap |-> acc2.heap, out |-> acc2.out]
    BY DEF Adds
  <2>6. acc.heap \in Heap /\ acc.out \in Seq(Entry) /\ n \in Nat
    BY <2>1
  <2>7. QED
    BY <2>3, <2>4, <2>5, <2>6
<1>5. Len(acc2.out) = n + 1 /\ acc2.out[n + 1] = e /\ (\A k \in 1..n : acc2.out[k] = acc.out[k]) /\ acc2.out \in Seq(Entry)
  BY <1>4, AppendProperties
<1> DEFINE o == acc2.out
<1>6. \A k \in 1..n : /\ EntryShows(acc.out[k], gv, leaf, own, FALSE, acc.heap, S)
                      /\ \E j \in 1..w : acc.out[k].name = groups[j].name
  BY DEF BuiltUpTo
<1>7. \A j, k \in 1..n : acc.out[j].name = acc.out[k].name => j = k
  BY DEF BuiltUpTo
<1>8. \A j \in 1..w : \/ \E k \in 1..n : acc.out[k].name = groups[j].name
                      \/ groups[j].attrs.len = 0 /\ groups[j].name # leaf
  BY DEF BuiltUpTo
<1>9. Keeps(heap, acc2.heap, S, Log!Arrays(o)) /\ Len(acc2.heap) = Len(heap)
  <2>1. Keeps(heap, acc.heap, S, Log!Arrays(acc.out)) /\ Len(acc.heap) = Len(heap)
    BY DEF BuiltUpTo
  <2>2. Log!Arrays(o) = Log!Arrays(acc.out) \cup T
    BY <1>4, ArraysOfMore
  <2>3. Keeps(heap, acc2.heap, S, Log!Arrays(acc.out) \cup T)
    BY <1>4, <2>1, KeepsOn
  <2>4. QED
    BY <1>4, <2>1, <2>2, <2>3
<1> HIDE DEF n, o, T
<1>10. \A k \in 1..(n + 1) : k \in 1..n \/ k = n + 1
  BY <1>4
<1>11. \A k \in 1..n : k \in 1..(n + 1) /\ k # n + 1
  BY <1>4
<1>12. n + 1 \in 1..(n + 1)
  BY <1>4
<1>13. ASSUME NEW k \in 1..n PROVE acc.out[k].name # g.name
  BY <1>3, <1>6
<1>14. ASSUME NEW k \in 1..n PROVE EntryShows(acc.out[k], gv, leaf, own, FALSE, acc2.heap, S)
  <2>1. EntryShows(acc.out[k], gv, leaf, own, FALSE, acc.heap, S) /\ acc.out[k].name # g.name
    BY <1>6, <1>13
  <2>2. acc.out[k].buf = Log!Nil \/ acc.out[k].buf.arr \notin T
    <3>1. CASE e.buf = Log!Nil
      BY <3>1, NilHolds DEF T
    <3>2. CASE e.buf # Log!Nil
      <4>1. acc.out[k].buf = Log!Nil \/ acc.out[k].buf.arr # g.attrs.arr
        BY <1>3, <1>4, <2>1, <3>2, MapsApart
      <4>2. QED
        BY <1>4, <3>2, <4>1 DEF T
    <3>3. QED
      BY <3>1, <3>2
  <2> DEFINE f == acc.out[k]
  <2> HIDE DEF f
  <2>3. EntryShows(f, gv, leaf, own, FALSE, acc2.heap, S)
    <3>1. acc.heap \in Heap /\ Keeps(acc.heap, acc2.heap, S, T) /\ S \subseteq S
      BY <1>4
    <3>2. EntryShows(f, gv, leaf, own, FALSE, acc.heap, S) /\ (f.buf = Log!Nil \/ f.buf.arr \notin T)
      BY <2>1, <2>2 DEF f
    <3>3. QED
      BY <3>1, <3>2, EntryLater
  <2>4. QED
    BY <2>3 DEF f
<1>15. \A k \in 1..(n + 1) : /\ EntryShows(o[k], gv, leaf, own, FALSE, acc2.heap, S)
                             /\ \E j \in 1..(w + 1) : o[k].name = groups[j].name
  <2> SUFFICES ASSUME NEW k \in 1..(n + 1)
               PROVE  EntryShows(o[k], gv, leaf, own, FALSE, acc2.heap, S) /\ \E j \in 1..(w + 1) : o[k].name = groups[j].name
    OBVIOUS
  <2>1. CASE k \in 1..n
    <3>1. o[k] = acc.out[k]
      BY <1>5, <2>1 DEF o
    <3>2. QED
      BY <1>1, <1>6, <1>14, <2>1, <3>1
  <2>2. CASE k = n + 1
    <3>1. o[k] = e
      BY <1>5, <2>2 DEF o
    <3>2. QED
      BY <1>1, <1>4, <3>1 DEF g
  <2>3. QED
    BY <1>10, <2>1, <2>2
<1>16. ASSUME NEW j \in 1..(n + 1), NEW k \in 1..(n + 1), o[j].name = o[k].name PROVE j = k
  <2>1. \A m \in 1..n : o[m] = acc.out[m] /\ o[m].name # g.name
    BY <1>5, <1>13 DEF o
  <2>2. o[n + 1] = e
    BY <1>5 DEF o
  <2>3. QED
    BY <1>4, <1>7, <1>10, <1>16, <2>1, <2>2
<1>17. ASSUME NEW j \in 1..(w + 1)
       PROVE  (\E k \in 1..(n + 1) : o[k].name = groups[j].name) \/ (groups[j].attrs.len = 0 /\ groups[j].name # leaf)
  <2>1. CASE j \in 1..w
    BY <1>5, <1>8, <1>11, <2>1 DEF o
  <2>2. CASE j = w + 1
    BY <1>4, <1>5, <1>12, <2>2 DEF o, g
  <2>3. QED
    BY <1>1, <2>1, <2>2
<1>18. acc2 \in [heap : Heap, out : Seq(Entry)]
  BY <1>4, <1>5
<1>19. Len(o) = n + 1
  BY <1>5 DEF o
<1>20. QED
  BY <1>9, <1>15, <1>16, <1>17, <1>18, <1>19 DEF BuiltUpTo, o

\* One turn of the loop in record n.
Around(acc, g, n) == IF g.attrs.len = 0 THEN acc ELSE Log!KeyValues(acc, g, <<Log!Inner(n)>>)

\* The fold in KeyValue as a recursive function on sets of positions.
LEMMA KeyValueUnfolds ==
  ASSUME NEW groups, NEW kvs
  PROVE  Log!KeyValue(groups, kvs) =
           (CHOOSE f : f = [s \in SUBSET (DOMAIN Tail(groups)) |->
              IF s = {} THEN Log!KeyValues([heap |-> cells, out |-> <<>>], Head(groups), kvs)
              ELSE Around(f[s \ {Log!Max(s)}], Tail(groups)[Log!Max(s)], records)])[DOMAIN Tail(groups)]
  BY Zenon DEF Log!KeyValue, Log!FoldLeft, Log!MapThenFoldSet, Around

\* The greatest of 1..k.
LEMMA MaxOfUpTo == ASSUME NEW k \in Nat \ {0} PROVE Log!Max(1..k) = k
<1>1. \A x \in 1..k : (\A y \in 1..k : x >= y) <=> x = k
  OBVIOUS
<1>2. \E x \in 1..k : \A y \in 1..k : x >= y
  BY <1>1
<1>3. QED
  BY <1>1, <1>2 DEF Log!Max

\* The greatest of some positions is one of them.
LEMMA MaxOfPart == ASSUME NEW M \in Nat, NEW s \in SUBSET (1..M), s # {} PROVE Log!Max(s) \in s
<1>1. s \in SUBSET (0..M)
  OBVIOUS
<1>2. \E x \in s : \A y \in s : x >= y
  BY <1>1, GreatestNumber
<1>3. QED
  BY <1>2 DEF Log!Max

\* The map of the group inside may follow the attributes of a group.
LEMMA InnerFollows ==
  ASSUME NEW n \in Nat, NEW name, NEW leaf, NEW own, name # leaf
  PROVE  Follows(<<Log!Inner(n)>>, name, leaf, own)
<1> DEFINE x == Log!Inner(n)
<1>1. x \in Int /\ x < 0
  BY DEF Log!Inner
<1> HIDE DEF x
<1>2. <<x>> \in Seq(Int) /\ Len(<<x>>) = 1 /\ <<x>>[1] = x
  BY <1>1
<1>3. Len(<<x>>) <= 1
  BY <1>2
<1>4. QED
  BY <1>1, <1>2, <1>3 DEF Follows, x

\* What the loop starts from.
Start(groups, gv, leaf, own, heap, S) ==
    /\ heap \in Heap /\ Owners(S) /\ gv \in Gift /\ Listed(groups, S, gv, leaf)
    /\ \A k \in 1..Len(groups) : SlotHolds(heap, groups[k], gv)

\* A slot still holds what it held.
LEMMA SlotStill ==
  ASSUME NEW heap \in Heap, NEW heap2, NEW S, NEW T, Keeps(heap, heap2, S, T), NEW s \in S, NEW gv, SlotHolds(heap, s, gv)
  PROVE  SlotHolds(heap2, s, gv)
<1>1. Good(heap2, s.attrs) /\ Log!Data(heap2, s.attrs) = Log!Data(heap, s.attrs)
  BY GoodKept DEF SlotHolds
<1>2. QED
  BY <1>1 DEF SlotHolds

\* Heaps that keep what the slots hold, with any maps.
Kept(heap, S) == {a \in [heap : Heap, out : Seq(Entry)] : Keeps(heap, a.heap, S, Nat) /\ Len(a.heap) = Len(heap)}

\* One more map keeps what the slots hold.
LEMMA AddsKept ==
  ASSUME NEW heap \in Heap, NEW S, NEW acc \in Kept(heap, S), NEW acc2, NEW e, NEW g, NEW gv, NEW leaf, NEW own,
         Adds(acc, acc2, e, g, gv, leaf, own, S)
  PROVE  acc2 \in Kept(heap, S)
<1>1. acc \in [heap : Heap, out : Seq(Entry)] /\ Keeps(heap, acc.heap, S, Nat) /\ Len(acc.heap) = Len(heap)
  BY DEF Kept
<1>2. acc2 = [heap |-> acc2.heap, out |-> acc2.out] /\ acc2.out = Append(acc.out, e)
  BY DEF Adds
<1>3. EntryShows(e, gv, leaf, own, FALSE, acc2.heap, S) /\ Keeps(acc.heap, acc2.heap, S, {e.buf.arr} \ {0}) /\ Len(acc2.heap) = Len(acc.heap)
  BY DEF Adds
<1>4. e \in Entry /\ acc2.heap \in Heap /\ e.buf.arr \in Nat
  BY <1>3 DEF EntryShows, Keeps, Entry, Buffer
<1>5. acc2.out \in Seq(Entry)
  BY <1>1, <1>2, <1>4, AppendProperties
<1>6. acc2 \in [heap : Heap, out : Seq(Entry)]
  BY <1>2, <1>4, <1>5
<1>7. Keeps(heap, acc2.heap, S, Nat \cup ({e.buf.arr} \ {0}))
  BY <1>1, <1>3, KeepsOn
<1>8. Nat \cup ({e.buf.arr} \ {0}) = Nat
  BY <1>4
<1>9. QED
  BY <1>1, <1>3, <1>6, <1>7, <1>8 DEF Kept

\* Each turn adds a map, from any heap that keeps what the slots hold.
LEMMA AroundAdds ==
  ASSUME NEW groups, NEW gv, NEW leaf, NEW own, NEW heap, NEW S, Start(groups, gv, leaf, own, heap, S),
         NEW acc \in Kept(heap, S), NEW k \in 1..Len(groups), NEW t, Follows(t, groups[k].name, leaf, own)
  PROVE  \E e : Adds(acc, Log!KeyValues(acc, groups[k], t), e, groups[k], gv, leaf, own, S)
<1> DEFINE g == groups[k]
<1>1. heap \in Heap /\ Owners(S) /\ gv \in Gift /\ g \in S /\ SlotHolds(heap, g, gv)
  BY DEF Start, Listed
<1>2. acc \in [heap : Heap, out : Seq(Entry)] /\ Keeps(heap, acc.heap, S, Nat)
  BY DEF Kept
<1> HIDE DEF g
<1>3. SlotHolds(acc.heap, g, gv)
  BY <1>1, <1>2, SlotStill
<1>4. Follows(t, g.name, leaf, own)
  BY DEF g
<1>5. \E e : Adds(acc, Log!KeyValues(acc, g, t), e, g, gv, leaf, own, S)
  BY <1>1, <1>2, <1>3, <1>4, KeyValuesAdds
<1>6. QED
  BY <1>5 DEF g

\* KeyValue goes through the groups one by one, from the leaf outwards.
LEMMA KeyValueLoops ==
  ASSUME NEW groups, NEW gv, NEW leaf, NEW own, NEW S, Start(groups, gv, leaf, own, cells, S), groups # <<>>,
         records \in Nat, NEW kvs, Follows(kvs, groups[1].name, leaf, own)
  PROVE  \E h : /\ h[{}] = Log!KeyValues([heap |-> cells, out |-> <<>>], groups[1], kvs)
                /\ \A k \in 1..(Len(groups) - 1) : h[1..k] = Around(h[1..(k - 1)], groups[k + 1], records)
                /\ Log!KeyValue(groups, kvs) = h[1..(Len(groups) - 1)]
<1> DEFINE M == Len(groups) - 1
           U == 1..M
           list == Tail(groups)
           m(s) == Log!Max(s)
           b == Log!KeyValues([heap |-> cells, out |-> <<>>], groups[1], kvs)
           IsLoop(f) == f = [s \in SUBSET U |-> IF s = {} THEN b ELSE Around(f[s \ {m(s)}], list[m(s)], records)]
           h == CHOOSE f : IsLoop(f)
           X == Kept(cells, S)
<1>0. groups \in Seq(Group) /\ Len(groups) \in Nat /\ Len(groups) # 0
  BY DEF Start, Listed
<1>1. M \in Nat /\ DOMAIN list = U /\ IsFiniteSet(U) /\ Head(groups) = groups[1] /\ \A k \in U : list[k] = groups[k + 1]
  <2>1. list \in Seq(Group) /\ Len(list) = Len(groups) - 1 /\ \A k \in 1..Len(list) : list[k] = groups[k + 1]
    BY <1>0, HeadTailProperties
  <2>2. M \in Nat
    BY <1>0
  <2>3. DOMAIN list = U
    BY <2>1
  <2>4. Head(groups) = groups[1]
    OBVIOUS
  <2>5. IsFiniteSet(U)
    BY <2>2, FS_Interval
  <2>6. \A k \in U : list[k] = groups[k + 1]
    BY <2>1
  <2>7. QED
    BY <2>2, <2>3, <2>4, <2>5, <2>6
<1>2. Log!KeyValue(groups, kvs) = h[U]
  BY <1>1, KeyValueUnfolds, ZenonT(60)
<1>3. \A k \in U : k + 1 \in 1..Len(groups) /\ k + 1 # 1
  BY <1>0
<1>4. 1 \in 1..Len(groups)
  BY <1>0
<1> HIDE DEF M, list
<1>5. b \in X
  <2> DEFINE a == [heap |-> cells, out |-> <<>>]
  <2>1. cells \in Heap
    BY DEF Start
  <2>2. a \in X
    <3>1. a \in [heap : Heap, out : Seq(Entry)] /\ a.heap = cells
      BY <2>1
    <3>2. Len(cells) <= Len(cells)
      BY <2>1 DEF Heap
    <3>3. Keeps(cells, a.heap, S, Nat)
      BY <2>1, <3>1, <3>2 DEF Keeps
    <3> HIDE DEF a
    <3>4. QED
      BY <3>1, <3>3 DEF Kept
  <2> HIDE DEF a
  <2>3. PICK e : Adds(a, Log!KeyValues(a, groups[1], kvs), e, groups[1], gv, leaf, own, S)
    BY <1>4, <2>2, AroundAdds
  <2>4. Log!KeyValues(a, groups[1], kvs) \in X
    BY <2>1, <2>2, <2>3, AddsKept
  <2>5. QED
    BY <2>4 DEF a
<1>6. ASSUME NEW v \in X, NEW k \in U PROVE Around(v, list[k], records) \in X
  <2> DEFINE g == groups[k + 1]
  <2>1. list[k] = g /\ k + 1 \in 1..Len(groups) /\ g.name # leaf
    BY <1>1, <1>3 DEF Start, Listed
  <2>2. CASE g.attrs.len = 0
    BY <2>1, <2>2 DEF Around
  <2>3. CASE g.attrs.len # 0
    <3>1. Follows(<<Log!Inner(records)>>, g.name, leaf, own)
      BY <2>1, InnerFollows
    <3>2. PICK e : Adds(v, Log!KeyValues(v, g, <<Log!Inner(records)>>), e, g, gv, leaf, own, S)
      BY <2>1, <3>1, AroundAdds
    <3>3. cells \in Heap
      BY DEF Start
    <3>4. Log!KeyValues(v, g, <<Log!Inner(records)>>) \in X
      BY <3>2, <3>3, AddsKept
    <3>5. QED
      BY <2>1, <2>3, <3>4 DEF Around
  <2>4. QED
    BY <2>2, <2>3
<1> HIDE DEF b, X
<1>7. \E f : IsLoop(f)
  <2> DEFINE p == [s \in SUBSET U |-> m(s)]
             G == [s \in SUBSET U |-> [v \in X |-> Around(v, list[m(s)], records)]]
  <2>1. \A s \in SUBSET U : s # {} => p[s] = m(s) /\ m(s) \in s
    BY <1>1, MaxOfPart
  <2>2. \A s \in SUBSET U : \A v \in X : G[s][v] = Around(v, list[m(s)], records)
    OBVIOUS
  <2> HIDE DEF p, G
  <2>3. Folding(U, p, b, G, X)
    BY <1>5, <1>6, <2>1, <2>2 DEF Folding
  <2>4. PICK g \in [SUBSET U -> X] : FoldsTo(U, p, b, G, g)
    BY <1>1, <2>3, FoldExists
  <2>5. ASSUME NEW s \in SUBSET U
        PROVE  g[s] = IF s = {} THEN b ELSE Around(g[s \ {m(s)}], list[m(s)], records)
    <3>1. CASE s = {}
      BY <3>1, <2>4 DEF FoldsTo
    <3>2. CASE s # {}
      <4>1. g[s] = G[s][g[s \ {m(s)}]]
        BY <3>2, <2>1, <2>4 DEF FoldsTo
      <4>2. g[s \ {m(s)}] \in X
        OBVIOUS
      <4>3. QED
        BY <3>2, <4>1, <4>2, <2>2
    <3>3. QED
      BY <3>1, <3>2
  <2>6. IsLoop(g)
    BY <2>5
  <2>7. QED
    BY <2>6
<1>8. IsLoop(h)
  BY <1>7, Zenon
<1> HIDE DEF h
<1>9. h[{}] = b
  BY <1>8
<1>10. ASSUME NEW k \in 1..M PROVE h[1..k] = Around(h[1..(k - 1)], groups[k + 1], records)
  <2>0. M \in Nat
    BY <1>1
  <2>1. 1..k \in SUBSET U /\ 1..k # {} /\ (1..k) \ {k} = 1..(k - 1) /\ k \in Nat \ {0}
    BY <2>0
  <2>2. m(1..k) = k
    BY <2>1, MaxOfUpTo
  <2>3. h[1..k] = Around(h[(1..k) \ {m(1..k)}], list[m(1..k)], records)
    BY <1>8, <2>1
  <2>4. QED
    BY <1>1, <2>1, <2>2, <2>3
<1>11. QED
  BY <1>2, <1>9, <1>10 DEF M, b

\* KeyValue has built the maps of all groups.
LEMMA KeyValueBuilds ==
  ASSUME NEW groups, NEW gv, NEW leaf, NEW own, NEW S, Start(groups, gv, leaf, own, cells, S), groups # <<>>,
         records \in Nat, NEW kvs, Follows(kvs, groups[1].name, leaf, own)
  PROVE  BuiltUpTo(Log!KeyValue(groups, kvs), Len(groups), groups, gv, leaf, own, cells, S)
<1> DEFINE M == Len(groups) - 1
<1>0. M \in Nat /\ Len(groups) = M + 1 /\ Len(groups) \in Nat /\ Listed(groups, S, gv, leaf) /\ Owners(S) /\ cells \in Heap /\ gv \in Gift
  <2>1. groups \in Seq(Group) /\ Listed(groups, S, gv, leaf) /\ Owners(S) /\ cells \in Heap /\ gv \in Gift
    BY DEF Start, Listed
  <2>2. Len(groups) \in Nat /\ Len(groups) # 0
    BY <2>1
  <2>3. QED
    BY <2>1, <2>2
<1>1. PICK h : /\ h[{}] = Log!KeyValues([heap |-> cells, out |-> <<>>], groups[1], kvs)
               /\ \A k \in 1..M : h[1..k] = Around(h[1..(k - 1)], groups[k + 1], records)
               /\ Log!KeyValue(groups, kvs) = h[1..M]
  BY KeyValueLoops
<1> DEFINE P(k) == BuiltUpTo(h[1..k], k + 1, groups, gv, leaf, own, cells, S)
           F == {k \in 0..M : ~P(k)}
<1> HIDE DEF M
<1>2. ASSUME NEW acc, NEW w, BuiltUpTo(acc, w, groups, gv, leaf, own, cells, S) PROVE acc \in Kept(cells, S)
  <2>1. acc \in [heap : Heap, out : Seq(Entry)] /\ Len(acc.heap) = Len(cells) /\ Keeps(cells, acc.heap, S, Log!Arrays(acc.out))
    BY <1>2 DEF BuiltUpTo
  <2>2. \A a \in 1..Len(cells) : a \in Nat
    BY <1>0 DEF Heap
  <2>3. Keeps(cells, acc.heap, S, Nat)
    BY <2>1, <2>2 DEF Keeps
  <2>4. QED
    BY <2>1, <2>3 DEF Kept
<1>3. P(0)
  <2> DEFINE a == [heap |-> cells, out |-> <<>>]
  <2>1. BuiltUpTo(a, 0, groups, gv, leaf, own, cells, S)
    BY <1>0, BuiltNone
  <2>2. 1..0 = {} /\ 0 + 1 = 1 /\ 1 \in 1..Len(groups)
    BY <1>0
  <2>3. h[1..0] = Log!KeyValues(a, groups[1], kvs)
    BY <1>1, <2>2
  <2> HIDE DEF a
  <2>4. a \in Kept(cells, S)
    BY <1>2, <2>1
  <2>5. PICK e : Adds(a, Log!KeyValues(a, groups[1], kvs), e, groups[1], gv, leaf, own, S)
    BY <2>2, <2>4, AroundAdds
  <2>6. BuiltUpTo(Log!KeyValues(a, groups[1], kvs), 0 + 1, groups, gv, leaf, own, cells, S)
    <3>1. Adds(a, Log!KeyValues(a, groups[1], kvs), e, groups[0 + 1], gv, leaf, own, S) /\ 0 + 1 \in 1..Len(groups) /\ 0 \in Nat
      BY <2>2, <2>5
    <3>2. QED
      BY <1>0, <2>1, <3>1, BuiltMore
  <2>7. QED
    BY <2>3, <2>6
<1>4. ASSUME NEW k \in 1..M, P(k - 1) PROVE P(k)
  <2> DEFINE acc == h[1..(k - 1)]
             g == groups[k + 1]
  <2>1. h[1..k] = Around(acc, g, records) /\ k + 1 \in 1..Len(groups) /\ k + 1 # 1 /\ (k - 1) + 1 = k /\ k \in Nat
    BY <1>0, <1>1
  <2>2. BuiltUpTo(acc, k, groups, gv, leaf, own, cells, S)
    BY <1>4, <2>1
  <2> HIDE DEF acc
  <2>3. g.name # leaf
    BY <1>0, <2>1 DEF Listed
  <2>4. CASE g.attrs.len = 0
    <3>1. BuiltUpTo(acc, k + 1, groups, gv, leaf, own, cells, S)
      BY <2>1, <2>2, <2>3, <2>4, BuiltSkip
    <3>2. QED
      BY <2>1, <2>4, <3>1 DEF Around
  <2>5. CASE g.attrs.len # 0
    <3> DEFINE acc2 == Log!KeyValues(acc, g, <<Log!Inner(records)>>)
    <3>1. Follows(<<Log!Inner(records)>>, g.name, leaf, own) /\ acc \in Kept(cells, S)
      BY <1>2, <2>2, <2>3, InnerFollows
    <3>2. PICK e : Adds(acc, acc2, e, g, gv, leaf, own, S)
      BY <2>1, <3>1, AroundAdds
    <3>3. h[1..k] = acc2
      BY <2>1, <2>5 DEF Around
    <3> HIDE DEF acc2
    <3>4. BuiltUpTo(acc2, k + 1, groups, gv, leaf, own, cells, S)
      BY <1>0, <2>1, <2>2, <3>2, BuiltMore
    <3>5. QED
      BY <3>3, <3>4
  <2>6. QED
    BY <2>4, <2>5
<1> HIDE DEF P
<1>5. F = {}
  <2> SUFFICES ASSUME F # {} PROVE FALSE
    OBVIOUS
  <2>1. F \in SUBSET Nat
    BY <1>0
  <2>2. PICK k \in F : \A y \in F : k <= y
    BY <2>1, LeastNumber
  <2>3. k \in 0..M /\ ~P(k) /\ k # 0
    BY <1>3
  <2>4. k \in 1..M /\ k - 1 \in 0..M /\ ~(k <= k - 1)
    BY <1>0, <2>3
  <2>5. P(k - 1)
    BY <2>2, <2>4
  <2>6. QED
    BY <1>4, <2>3, <2>4, <2>5
<1>6. P(M)
  BY <1>0, <1>5
<1>7. QED
  BY <1>0, <1>1, <1>6 DEF P

-----------------------------------------------------------------------------
(* Handlers and their slots.                                               *)

\* A handler, its slots and the name of the innermost.
Handler == [attrs : Buffer, group : Seq(Group)]
TopSlot(H) == [name |-> 0, attrs |-> H.attrs]
SlotsOf(H) == {TopSlot(H)} \cup {H.group[j] : j \in 1..Len(H.group)}
LeafName(H) == IF H.group = <<>> THEN 0 ELSE H.group[1].name

\* Handler H carries what gv says, and its groups are among the first n.
Carries(H, gv, heap, n) ==
    /\ H \in Handler /\ gv \in Gift
    /\ \A s \in SlotsOf(H) : SlotHolds(heap, s, gv) /\ s.name < n
    /\ \A j \in 1..Len(H.group) : H.group[j].name # 0
    /\ \A j, k \in 1..Len(H.group) : H.group[j].name = H.group[k].name => j = k
    /\ \A g \in 0..MaxHandlers : gv[g] # <<>> => \E s \in SlotsOf(H) : s.name = g

\* A handler carries the same in a heap that keeps its slots.
LEMMA CarriesLater ==
  ASSUME NEW heap \in Heap, NEW heap2, NEW S, NEW T, Keeps(heap, heap2, S, T), NEW n \in Nat, NEW n2 \in Nat, n <= n2,
         NEW H, NEW gv, SlotsOf(H) \subseteq S, Carries(H, gv, heap, n)
  PROVE  Carries(H, gv, heap2, n2)
<1>1. ASSUME NEW s \in SlotsOf(H) PROVE SlotHolds(heap2, s, gv) /\ s.name < n2
  <2>1. SlotHolds(heap, s, gv) /\ s.name < n /\ s \in S
    BY DEF Carries
  <2>2. SlotHolds(heap2, s, gv)
    BY <2>1, SlotStill
  <2>3. s.name \in Nat
    BY <2>1 DEF SlotHolds, Group
  <2>4. QED
    BY <2>1, <2>2, <2>3
<1>2. QED
  BY <1>1 DEF Carries

\* L is what is left of groups behind the first off.
Suffix(L, groups, off) ==
    /\ L \in Seq(Group) /\ off \in 0..Len(groups) /\ Len(L) = Len(groups) - off
    /\ \A k \in 1..Len(L) : L[k] = groups[off + k]

\* A sequence is its own suffix.
LEMMA WholeSuffix == ASSUME NEW groups \in Seq(Group) PROVE Suffix(groups, groups, 0)
<1> DEFINE n == Len(groups)
<1>1. n \in Nat
  OBVIOUS
<1> HIDE DEF n
<1>2. 0 \in 0..n /\ n = n - 0 /\ \A k \in 1..n : 0 + k = k
  BY <1>1
<1>3. QED
  BY <1>2 DEF Suffix, n

\* NextNonEmpty passes over groups without attributes only.
LEMMA NextNonEmptyIs ==
  ASSUME NEW groups \in Seq(Group)
  PROVE  \E off : Suffix(Log!NextNonEmpty(groups), groups, off) /\ \A j \in 1..off : groups[j].attrs.len = 0
<1> DEFINE n == Len(groups)
           full == {k \in DOMAIN groups : groups[k].attrs.len > 0}
           L == Log!NextNonEmpty(groups)
<1>1. n \in Nat /\ DOMAIN groups = 1..n
  OBVIOUS
<1>2. \A j \in 1..n : j \notin full => groups[j].attrs.len = 0
  <2> SUFFICES ASSUME NEW j \in 1..n, j \notin full PROVE groups[j].attrs.len = 0
    OBVIOUS
  <2>1. groups[j].attrs.len \in Nat
    <3>1. groups[j] \in Group
      BY <1>1
    <3>2. QED
      BY <3>1 DEF Group, Buffer
  <2>2. ~(groups[j].attrs.len > 0)
    BY <1>1
  <2>3. QED
    BY <2>1, <2>2
<1>3. CASE full = {}
  <2>1. L = <<>>
    BY <1>3, Zenon DEF Log!NextNonEmpty
  <2>2. Len(<<>>) = 0 /\ <<>> \in Seq(Group) /\ n \in 0..n /\ n - n = 0 /\ 1..0 = {}
    BY <1>1
  <2>3. Suffix(L, groups, n)
    BY <2>1, <2>2 DEF Suffix
  <2>4. QED
    BY <1>2, <1>3, <2>3
<1>4. CASE full # {}
  <2> DEFINE m == Log!Min(full)
             off == m - 1
  <2>1. m \in full /\ \A y \in full : m <= y
    <3>1. full \in SUBSET Nat
      BY <1>1
    <3>2. \E x \in full : \A y \in full : x <= y
      BY <1>4, <3>1, LeastNumber
    <3>3. QED
      BY <3>2 DEF Log!Min
  <2>2. L = SubSeq(groups, m, n)
    BY <1>4, Zenon DEF Log!NextNonEmpty
  <2>3. m \in 1..n
    BY <1>1, <2>1
  <2> HIDE DEF m, L
  <2>4. off \in 0..n /\ m <= n + 1 /\ (n - m) + 1 = n - off /\ \A k \in 1..(n - off) : (m + k) - 1 = off + k /\ k \in 1..((n - m) + 1)
    BY <1>1, <2>3
  <2>5. L \in Seq(Group) /\ Len(L) = (n - m) + 1 /\ \A k \in 1..((n - m) + 1) : L[k] = groups[(m + k) - 1]
    <3>1. \A k \in m..n : groups[k] \in Group
      BY <1>1, <2>3
    <3>2. SubSeq(groups, m, n) \in Seq(Group)
      BY <1>1, <2>3, SubSeqProperties
    <3>3. Len(SubSeq(groups, m, n)) = (n - m) + 1 /\ \A k \in 1..((n - m) + 1) : SubSeq(groups, m, n)[k] = groups[(m + k) - 1]
      BY <1>1, <2>3
    <3>4. QED
      BY <2>2, <3>2, <3>3
  <2> HIDE DEF off
  <2>6. Suffix(L, groups, off)
    BY <2>4, <2>5 DEF Suffix
  <2>7. \A j \in 1..off : j \in 1..n /\ j < m
    BY <1>1, <2>3 DEF off
  <2>8. \A j \in 1..off : j \notin full
    BY <2>1, <2>3, <2>7
  <2>9. QED
    BY <1>2, <2>6, <2>7, <2>8 DEF L
<1>5. QED
  BY <1>3, <1>4

\* The remaining groups of a handler can be listed in a record.
LEMMA SuffixListed ==
  ASSUME NEW H, NEW gv, NEW heap, NEW n, Carries(H, gv, heap, n), NEW S, SlotsOf(H) \subseteq S,
         NEW L, NEW off, Suffix(L, H.group, off)
  PROVE  Listed(L, S, gv, LeafName(H)) /\ \A k \in 1..Len(L) : L[k] \in SlotsOf(H) /\ SlotHolds(heap, L[k], gv)
<1> DEFINE m == Len(H.group)
           l == Len(L)
<1>1. L \in Seq(Group) /\ off \in 0..m /\ l = m - off /\ \A k \in 1..l : L[k] = H.group[off + k]
  BY DEF Suffix
<1>2. m \in Nat
  BY DEF Carries, Handler
<1>3. /\ \A j \in 1..m : H.group[j].name # 0 /\ H.group[j] \in SlotsOf(H)
      /\ \A j, k \in 1..m : H.group[j].name = H.group[k].name => j = k
  BY DEF Carries, SlotsOf
<1> HIDE DEF m, l
<1>4. \A k \in 1..l : off + k \in 1..m /\ (k # 1 => off + k # 1 /\ 1 \in 1..m) /\ m # 0
  BY <1>1, <1>2
<1>5. \A j, k \in 1..l : off + j = off + k => j = k
  BY <1>1, <1>2
<1>6. ASSUME NEW k \in 1..l, k # 1 PROVE L[k].name # LeafName(H)
  <2>1. H.group # <<>>
    BY <1>4 DEF m
  <2>2. LeafName(H) = H.group[1].name
    BY <2>1 DEF LeafName
  <2>3. off + k \in 1..m /\ off + k # 1 /\ 1 \in 1..m
    BY <1>4, <1>6
  <2>4. QED
    BY <1>1, <1>3, <2>2, <2>3
<1>7. \A k \in 1..l : L[k] \in SlotsOf(H) /\ L[k].name # 0
  BY <1>1, <1>3, <1>4
<1>8. \A j, k \in 1..l : L[j].name = L[k].name => j = k
  <2> SUFFICES ASSUME NEW j \in 1..l, NEW k \in 1..l, L[j].name = L[k].name PROVE j = k
    OBVIOUS
  <2>1. L[j] = H.group[off + j] /\ L[k] = H.group[off + k] /\ off + j \in 1..m /\ off + k \in 1..m
    BY <1>1, <1>4
  <2>2. off + j = off + k
    BY <1>3, <2>1
  <2>3. QED
    BY <1>5, <2>2
<1>9. Listed(L, S, gv, LeafName(H))
  BY <1>1, <1>6, <1>7, <1>8 DEF Listed, l
<1>10. QED
  BY <1>7, <1>9 DEF Carries, l

-----------------------------------------------------------------------------
(* Records.                                                                *)

\* A record on its way.
Record == [out : Seq(Entry), leaf : Nat, own : Seq(Nat), given : Gift, clash : BOOLEAN]

\* A record has one map per group, each showing what belongs there, and what it
\* has none for is empty.
RecShows(r, heap, S) ==
    /\ r \in Record
    /\ \A k \in 1..Len(r.out) : EntryShows(r.out[k], r.given, r.leaf, r.own, r.clash, heap, S)
    /\ \A j, k \in 1..Len(r.out) : r.out[j].name = r.out[k].name => j = k
    /\ \A g \in 0..MaxHandlers : (\A k \in 1..Len(r.out) : r.out[k].name # g) =>
           r.given[g] = <<>> /\ (g = r.leaf => r.own = <<>>)

\* A record keeps showing its attributes as the heap changes, unless it now
\* counts as crossed.
LEMMA RecordLater ==
  ASSUME NEW heap \in Heap, NEW heap2, NEW S, NEW S2, S \subseteq S2, NEW T, 0 \notin T, Keeps(heap, heap2, S, T),
         NEW r, RecShows(r, heap, S), NEW r2 \in Record,
         r2.out = r.out, r2.leaf = r.leaf, r2.own = r.own, r2.given = r.given,
         ~r2.clash => ~r.clash /\ Log!Arrays(r.out) \cap T = {}
  PROVE  RecShows(r2, heap2, S2)
<1>1. ASSUME NEW k \in 1..Len(r.out)
      PROVE  EntryShows(r.out[k], r.given, r.leaf, r.own, r2.clash, heap2, S2)
  <2> DEFINE e == r.out[k]
  <2>1. EntryShows(e, r.given, r.leaf, r.own, r.clash, heap, S)
    BY DEF RecShows
  <2>2. ~r2.clash => ~r.clash /\ e.buf.arr \notin T
    <3>1. DOMAIN r.out = 1..Len(r.out)
      BY DEF RecShows, Record
    <3>2. e.buf.arr \in Log!Arrays(r.out) \/ e.buf.arr = 0
      BY <3>1, NilHolds DEF Log!Arrays
    <3>3. QED
      BY <3>2
  <2> HIDE DEF e
  <2>3. EntryShows(e, r.given, r.leaf, r.own, r2.clash, heap2, S2)
    BY <2>1, <2>2, EntryLater
  <2>4. QED
    BY <2>3 DEF e
<1>2. QED
  BY <1>1 DEF RecShows

\* The record's map of group g, and what it shows there.
MapsFor(r, g) == {k \in DOMAIN r.out : r.out[k].name = g}
ShownIn(r, g, heap) ==
    IF MapsFor(r, g) = {} THEN <<>> ELSE ContentIn(r.out[CHOOSE k \in MapsFor(r, g) : TRUE], heap)

\* In one map, the attributes r was given for g, then its own if none crosses.
ShowsAt(r, g, heap) ==
    /\ \A j, k \in MapsFor(r, g) : j = k
    /\ Log!IsPrefix(r.given[g], ShownIn(r, g, heap))
    /\ ~r.clash => ShownIn(r, g, heap) = r.given[g] \o (IF g = r.leaf THEN r.own ELSE <<>>)

\* In each group a record shows what AttrsKept asks for.
LEMMA RecordKept ==
  ASSUME NEW heap \in Heap, NEW S, NEW r, RecShows(r, heap, S), NEW p \in 0..MaxHandlers
  PROVE  ShowsAt(r, p, heap)
<1> DEFINE Maps == {k \in DOMAIN r.out : r.out[k].name = p}
           Shown == IF Maps = {} THEN <<>> ELSE ContentIn(r.out[CHOOSE k \in Maps : TRUE], heap)
<1>0. Maps = MapsFor(r, p) /\ Shown = ShownIn(r, p, heap)
  BY Zenon DEF MapsFor, ShownIn
<1>1. r.out \in Seq(Entry) /\ DOMAIN r.out = 1..Len(r.out) /\ r.given \in Gift /\ r.own \in Seq(Nat) /\ r.clash \in BOOLEAN
  BY DEF RecShows, Record
<1>2. \A j, k \in Maps : j = k
  BY <1>1 DEF RecShows
<1>3. CASE Maps = {}
  <2>1. r.given[p] = <<>> /\ (p = r.leaf => r.own = <<>>) /\ Shown = <<>>
    BY <1>1, <1>3 DEF RecShows
  <2>2. <<>> \in Seq(Nat) /\ <<>> \in Seq(Int) /\ Len(<<>>) = 0 /\ Len(<<>>) \in {Len(<<>>), Len(<<>>) + 1} /\ 1..0 = {}
    OBVIOUS
  <2>3. <<>> \o <<>> = <<>>
    BY <2>2, NothingMore
  <2>4. Cut(<<>>) = <<>>
    BY DEF Cut
  <2>5. Log!IsPrefix(<<>>, <<>>)
    BY <2>2, <2>4, CutKeeps
  <2> HIDE DEF Maps, Shown
  <2>6. ~r.clash => Shown = r.given[p] \o (IF p = r.leaf THEN r.own ELSE <<>>)
    BY <2>1, <2>3
  <2>7. Log!IsPrefix(r.given[p], Shown)
    BY <2>1, <2>5
  <2>8. QED
    BY <1>0, <1>2, <2>6, <2>7 DEF ShowsAt
<1>4. CASE Maps # {}
  <2> DEFINE k == CHOOSE k \in Maps : TRUE
             e == r.out[k]
  <2>1. k \in Maps
    BY <1>4
  <2>2. k \in 1..Len(r.out) /\ e.name = p
    BY <1>1, <2>1
  <2>3. EntryShows(e, r.given, r.leaf, r.own, r.clash, heap, S)
    BY <2>2 DEF RecShows
  <2>4. Shown = ContentIn(e, heap)
    BY <1>4
  <2> HIDE DEF e, k, Maps, Shown
  <2>5. /\ Log!IsPrefix(r.given[e.name], ContentIn(e, heap))
        /\ ~r.clash => ContentIn(e, heap) = r.given[e.name] \o (IF e.name = r.leaf THEN r.own ELSE <<>>)
    <3>1. Displays(e, r.given, r.leaf, r.own, r.clash, heap)
      BY <1>1, <2>3, EntryContent
    <3>2. QED
      BY <3>1 DEF Displays
  <2>6. QED
    BY <1>0, <1>2, <2>2, <2>4, <2>5 DEF ShowsAt
<1>5. QED
  BY <1>3, <1>4

\* What Handle builds a record from.
GroupsOf(H, kvs) == IF kvs = <<>> THEN Log!NextNonEmpty(H.group) ELSE H.group
MapsOf(groups, kvs) == IF groups = <<>> THEN [heap |-> cells, out |-> <<>>] ELSE Log!KeyValue(groups, kvs)
TopMap(H, kvs) ==
    [name |-> 0, buf |-> Log!Nil, vals |-> Log!Data(cells, H.attrs) \o IF H.group = <<>> THEN kvs ELSE <<>>]

\* The record Handle builds shows what its handler carries and its own
\* attributes, and keeps what the slots hold.
LEMMA HandleShows ==
  ASSUME cells \in Heap, records \in Nat, NEW S, Owners(S), NEW H, SlotsOf(H) \subseteq S,
         NEW gv, NEW n, Carries(H, gv, cells, n), NEW kvs \in Seq(Nat), Len(kvs) <= 1,
         NEW groups, groups = GroupsOf(H, kvs), NEW g, g = MapsOf(groups, kvs), NEW top, top = TopMap(H, kvs)
  PROVE  /\ RecShows([out |-> Append(g.out, top), leaf |-> LeafName(H), own |-> kvs, given |-> gv, clash |-> FALSE],
                     g.heap, S)
         /\ Keeps(cells, g.heap, S, Log!Arrays(g.out))
<1> DEFINE leaf == LeafName(H)
           l == Len(groups)
           M == Len(H.group)
<1>1. H \in Handler /\ H.group \in Seq(Group) /\ gv \in Gift /\ M \in Nat
  BY DEF Carries, Handler
<1>2. PICK off : /\ Suffix(groups, H.group, off)
                 /\ \A j \in 1..off : H.group[j].attrs.len = 0 /\ kvs = <<>>
  <2>1. CASE kvs = <<>>
    BY <1>1, <2>1, NextNonEmptyIs DEF GroupsOf
  <2>2. CASE kvs # <<>>
    <3>1. groups = H.group /\ 1..0 = {}
      BY <2>2 DEF GroupsOf
    <3>2. Suffix(groups, H.group, 0)
      BY <1>1, <3>1, WholeSuffix
    <3>3. QED
      BY <3>1, <3>2
  <2>3. QED
    BY <2>1, <2>2
<1>3. groups \in Seq(Group) /\ l \in Nat /\ off \in 0..M /\ l = M - off /\ \A k \in 1..l : groups[k] = H.group[off + k]
  <2>1. groups \in Seq(Group) /\ off \in 0..M /\ l = M - off /\ \A k \in 1..l : groups[k] = H.group[off + k]
    BY <1>2 DEF Suffix
  <2>2. l \in Nat
    BY <2>1
  <2>3. QED
    BY <2>1, <2>2
<1>4. Listed(groups, S, gv, leaf) /\ \A k \in 1..l : groups[k] \in SlotsOf(H) /\ SlotHolds(cells, groups[k], gv)
  BY <1>2, SuffixListed
<1>5. Start(groups, gv, leaf, kvs, cells, S)
  BY <1>1, <1>4 DEF Start
<1>6. kvs \in Seq(Int) /\ Len(kvs) \in Nat
  BY NatsAreInts
<1>7. BuiltUpTo(g, l, groups, gv, leaf, kvs, cells, S)
  <2>1. CASE groups = <<>>
    <3>1. g = [heap |-> cells, out |-> <<>>] /\ l = 0
      BY <2>1 DEF MapsOf
    <3>2. QED
      BY <3>1, BuiltNone
  <2>2. CASE groups # <<>>
    <3>1. g = Log!KeyValue(groups, kvs)
      BY <2>2 DEF MapsOf
    <3>2. Follows(kvs, groups[1].name, leaf, kvs)
      <4>1. kvs # <<>> => groups[1].name = leaf
        <5> SUFFICES ASSUME kvs # <<>> PROVE groups[1].name = leaf
          OBVIOUS
        <5>1. groups = H.group
          BY DEF GroupsOf
        <5>2. QED
          BY <2>2, <5>1 DEF LeafName
      <4>2. Len(kvs) = 1 => kvs # <<>>
        OBVIOUS
      <4>3. QED
        BY <1>6, <4>1, <4>2 DEF Follows
    <3>3. QED
      BY <1>5, <2>2, <3>1, <3>2, KeyValueBuilds
  <2>3. QED
    BY <2>1, <2>2
<1> DEFINE o == Append(g.out, top)
           m == Len(g.out)
           t == IF H.group = <<>> THEN kvs ELSE <<>>
<1>8. /\ g \in [heap : Heap, out : Seq(Entry)]
      /\ Keeps(cells, g.heap, S, Log!Arrays(g.out))
      /\ \A k \in 1..m : /\ EntryShows(g.out[k], gv, leaf, kvs, FALSE, g.heap, S)
                         /\ \E j \in 1..l : g.out[k].name = groups[j].name
      /\ \A j, k \in 1..m : g.out[j].name = g.out[k].name => j = k
      /\ \A j \in 1..l : \/ \E k \in 1..m : g.out[k].name = groups[j].name
                         \/ groups[j].attrs.len = 0 /\ groups[j].name # leaf
  BY <1>7 DEF BuiltUpTo
<1>9. TopSlot(H) \in SlotsOf(H) /\ SlotHolds(cells, TopSlot(H), gv) /\ TopSlot(H).name = 0 /\ TopSlot(H).attrs = H.attrs
  <2>1. TopSlot(H) \in SlotsOf(H)
    BY DEF SlotsOf
  <2>2. QED
    BY <2>1 DEF Carries, TopSlot
<1>10. Log!Data(cells, H.attrs) = gv[0] /\ 0 \in 0..MaxHandlers /\ gv[0] \in Seq(Int)
  <2>1. Log!Data(cells, H.attrs) = gv[0] /\ 0 \in 0..MaxHandlers
    BY <1>9 DEF SlotHolds
  <2>2. gv[0] \in Seq(Nat)
    BY <1>1, <2>1 DEF Gift
  <2>3. QED
    BY <2>1, <2>2, NatsAreInts
<1>11. leaf \in Nat /\ (H.group = <<>> => leaf = 0) /\ (H.group # <<>> => leaf # 0 /\ 1 \in 1..M /\ leaf = H.group[1].name)
  <2>1. CASE H.group = <<>>
    BY <2>1 DEF LeafName
  <2>2. CASE H.group # <<>>
    <3>1. leaf = H.group[1].name /\ M # 0
      BY <1>1, <2>2 DEF LeafName
    <3>2. 1 \in 1..M
      BY <1>1, <3>1
    <3>3. H.group[1] \in Group /\ H.group[1].name # 0
      BY <1>1, <3>2 DEF Carries
    <3>4. QED
      BY <2>2, <3>1, <3>2, <3>3 DEF Group
  <2>3. QED
    BY <2>1, <2>2
<1>12. Follows(t, 0, leaf, kvs) /\ t \in Seq(Int)
  <2>1. CASE H.group = <<>>
    BY <1>6, <1>11, <2>1 DEF Follows
  <2>2. CASE H.group # <<>>
    <3>1. t = <<>> /\ <<>> \in Seq(Int) /\ Len(<<>>) = 0 /\ Len(<<>>) <= 1
      BY <2>2
    <3>2. QED
      BY <1>11, <2>2, <3>1 DEF Follows
  <2>3. QED
    BY <2>1, <2>2
<1> HIDE DEF t, leaf, l, M
<1>13. top.name = 0 /\ top.buf = Log!Nil /\ top.vals = gv[0] \o t /\ top \in Entry
  <2>1. gv[0] \o t \in Seq(Int)
    BY <1>10, <1>12, ConcatProperties
  <2>2. top = [name |-> 0, buf |-> Log!Nil, vals |-> gv[0] \o t]
    BY <1>10 DEF t, TopMap
  <2>3. QED
    <3> DEFINE x == gv[0] \o t
    <3>1. x \in Seq(Int) /\ top = [name |-> 0, buf |-> Log!Nil, vals |-> x] /\ Log!Nil \in Buffer
      BY <2>1, <2>2, NilHolds
    <3> HIDE DEF x
    <3>2. top.name = 0 /\ top.buf = Log!Nil /\ top.vals = x /\ top \in Entry
      BY <3>1 DEF Entry
    <3>3. QED
      BY <3>2 DEF x
<1>14. EntryShows(top, gv, leaf, kvs, FALSE, g.heap, S)
  BY <1>10, <1>12, <1>13 DEF EntryShows
<1>15. o \in Seq(Entry) /\ Len(o) = m + 1 /\ o[m + 1] = top /\ (\A k \in 1..m : o[k] = g.out[k]) /\ m \in Nat
  <2>1. g.out \in Seq(Entry)
    BY <1>8
  <2>2. QED
    BY <1>13, <2>1, AppendProperties
<1> HIDE DEF o, m
<1>16. (\A k \in 1..(m + 1) : k \in 1..m \/ k = m + 1) /\ (\A k \in 1..m : k \in 1..(m + 1)) /\ m + 1 \in 1..(m + 1)
  BY <1>15
<1>17. ASSUME NEW k \in 1..(m + 1) PROVE EntryShows(o[k], gv, leaf, kvs, FALSE, g.heap, S)
  BY <1>8, <1>14, <1>15, <1>16
<1>18. \A k \in 1..m : o[k].name # 0
  <2>1. \A k \in 1..m : \E j \in 1..l : g.out[k].name = groups[j].name
    BY <1>8
  <2>2. \A j \in 1..l : groups[j].name # 0
    BY <1>4 DEF Listed, l
  <2>3. QED
    BY <1>15, <2>1, <2>2
<1>19. ASSUME NEW j \in 1..(m + 1), NEW k \in 1..(m + 1), o[j].name = o[k].name PROVE j = k
  <2>1. \A w \in 1..m : o[w] = g.out[w] /\ o[w].name # 0
    BY <1>15, <1>18
  <2>2. o[m + 1].name = 0
    BY <1>13, <1>15
  <2>3. \A w, q \in 1..m : g.out[w].name = g.out[q].name => w = q
    BY <1>8
  <2>4. QED
    BY <1>16, <1>19, <2>1, <2>2, <2>3
<1>20. ASSUME NEW p \in 0..MaxHandlers, \A k \in 1..(m + 1) : o[k].name # p
       PROVE  gv[p] = <<>> /\ (p = leaf => kvs = <<>>)
  <2>1. p # 0 /\ \A k \in 1..m : g.out[k].name # p
    BY <1>13, <1>15, <1>16, <1>20
  <2>2. ASSUME NEW j \in 1..M, H.group[j].name = p PROVE H.group[j].attrs.len = 0 /\ (p = leaf => kvs = <<>>)
    <3>1. CASE j \in 1..off
      BY <1>2, <3>1
    <3>2. CASE j \notin 1..off
      <4>1. j - off \in 1..l /\ off + (j - off) = j
        BY <1>1, <1>3, <3>2
      <4>2. groups[j - off] = H.group[j]
        BY <1>3, <4>1
      <4>3. QED
        BY <1>8, <2>1, <2>2, <4>1, <4>2
    <3>3. QED
      BY <3>1, <3>2
  <2>3. gv[p] = <<>>
    <3> SUFFICES ASSUME gv[p] # <<>> PROVE FALSE
      OBVIOUS
    <3>1. PICK s \in SlotsOf(H) : s.name = p
      BY DEF Carries
    <3>2. PICK j \in 1..M : s = H.group[j]
      BY <1>9, <2>1, <3>1 DEF SlotsOf, M
    <3>3. s.attrs.len = 0
      BY <2>2, <3>1, <3>2
    <3>4. SlotHolds(cells, s, gv)
      BY DEF Carries
    <3>5. Log!Data(cells, s.attrs) = gv[p] /\ Good(cells, s.attrs)
      BY <3>1, <3>4 DEF SlotHolds
    <3>6. Log!Data(cells, s.attrs) = <<>>
      <4>1. CASE s.attrs = Log!Nil
        BY <4>1, NilHolds
      <4>2. CASE Slice(cells, s.attrs)
        <5>1. Log!Data(cells, s.attrs) \in Seq(Int) /\ Len(Log!Data(cells, s.attrs)) = 0
          BY <3>3, <4>2, DataIs
        <5>2. QED
          BY <5>1
      <4>3. QED
        BY <3>5, <4>1, <4>2 DEF Good
    <3>7. QED
      BY <3>5, <3>6
  <2>4. p = leaf => kvs = <<>>
    BY <1>11, <2>1, <2>2
  <2>5. QED
    BY <2>3, <2>4
<1> DEFINE r == [out |-> o, leaf |-> leaf, own |-> kvs, given |-> gv, clash |-> FALSE]
<1>21. r \in Record /\ r.out = o /\ r.leaf = leaf /\ r.own = kvs /\ r.given = gv /\ r.clash = FALSE
  BY <1>1, <1>11, <1>15 DEF Record
<1> HIDE DEF r
<1>22. RecShows(r, g.heap, S)
  BY <1>15, <1>17, <1>19, <1>20, <1>21 DEF RecShows
<1>23. QED
  BY <1>8, <1>22 DEF r, o, leaf

-----------------------------------------------------------------------------
(* Deriving handlers.                                                      *)

\* In a handler with the leaf's slot replaced by add.
Replaced(H, H2, add, leaf) ==
    /\ H2 \in Handler /\ Len(H2.group) = Len(H.group)
    /\ \A j \in 1..Len(H.group) : H2.group[j].name = H.group[j].name
    /\ add \in SlotsOf(H2) /\ add.name = leaf
    /\ \A s \in SlotsOf(H2) : s = add \/ (s \in SlotsOf(H) /\ s.name # leaf)
    /\ \A s \in SlotsOf(H) : \E s2 \in SlotsOf(H2) : s2.name = s.name

\* A slot is the top one or that of a group.
LEMMA SlotOf == ASSUME NEW H, NEW s \in SlotsOf(H) PROVE s = TopSlot(H) \/ \E j \in 1..Len(H.group) : s = H.group[j]
  BY DEF SlotsOf

\* WithLeaf replaces the leaf's slot and nothing else.
LEMMA WithLeafReplaces ==
  ASSUME NEW H, NEW gv, NEW heap, NEW n, Carries(H, gv, heap, n), NEW buf \in Buffer
  PROVE  /\ Replaced(H, Log!WithLeaf(H, buf), [name |-> LeafName(H), attrs |-> buf], LeafName(H))
         /\ \E s \in SlotsOf(H) : s.name = LeafName(H) /\ s.attrs = Log!Leaf(H)
<1> DEFINE leaf == LeafName(H)
           add == [name |-> leaf, attrs |-> buf]
           H2 == Log!WithLeaf(H, buf)
           m == Len(H.group)
<1>1. H \in Handler /\ H.group \in Seq(Group) /\ H.attrs \in Buffer /\ m \in Nat
  BY DEF Carries, Handler
<1>2. CASE H.group = <<>>
  <2>1. H2 = [H EXCEPT !.attrs = buf] /\ leaf = 0 /\ Log!Leaf(H) = H.attrs /\ m = 0 /\ 1..0 = {}
    BY <1>2 DEF Log!WithLeaf, LeafName, Log!Leaf
  <2> HIDE DEF H2
  <2>2. H2 \in Handler /\ H2.group = H.group /\ H2.attrs = buf
    BY <1>1, <2>1 DEF Handler
  <2>3. SlotsOf(H2) = {add}
    BY <2>1, <2>2 DEF SlotsOf, TopSlot
  <2>4. SlotsOf(H) = {TopSlot(H)} /\ TopSlot(H).name = 0 /\ TopSlot(H).attrs = H.attrs
    BY <2>1 DEF SlotsOf, TopSlot
  <2>5. add.name = leaf
    OBVIOUS
  <2> HIDE DEF add, leaf
  <2>6. Replaced(H, H2, add, leaf)
    BY <2>1, <2>2, <2>3, <2>4, <2>5 DEF Replaced
  <2>7. QED
    BY <2>1, <2>4, <2>6 DEF add, leaf, H2
<1>3. CASE H.group # <<>>
  <2>1. leaf = H.group[1].name /\ Log!Leaf(H) = H.group[1].attrs /\ 1 \in 1..m
    BY <1>1, <1>3 DEF LeafName, Log!Leaf
  <2>2. H.group[1] \in Group
    BY <1>1, <2>1
  <2>3. H2 = [H EXCEPT !.group = [H.group EXCEPT ![1] = [H.group[1] EXCEPT !.attrs = buf]]]
    BY <1>3 DEF Log!WithLeaf
  <2>4. [H.group[1] EXCEPT !.attrs = buf] = add /\ add \in Group /\ add.name = leaf
    BY <2>1, <2>2 DEF Group
  <2> DEFINE gs2 == [H.group EXCEPT ![1] = add]
  <2> HIDE DEF add, H2
  <2>5. gs2 \in Seq(Group) /\ Len(gs2) = m /\ gs2[1] = add /\ \A j \in 1..m : j # 1 => gs2[j] = H.group[j]
    BY <1>1, <2>1, <2>4, ExceptSeq
  <2>6. H2 = [H EXCEPT !.group = gs2]
    BY <2>3, <2>4
  <2> HIDE DEF gs2
  <2>7. H2 \in Handler /\ H2.group = gs2 /\ H2.attrs = H.attrs
    BY <1>1, <2>5, <2>6 DEF Handler
  <2>8. /\ \A j \in 1..m : H.group[j].name # 0
        /\ \A j, k \in 1..m : H.group[j].name = H.group[k].name => j = k
    BY DEF Carries
  <2> HIDE DEF leaf, m
  <2>9. \A j \in 1..m : H2.group[j].name = H.group[j].name
    BY <2>1, <2>4, <2>5, <2>7
  <2>10. TopSlot(H2) = TopSlot(H) /\ TopSlot(H).name = 0 /\ TopSlot(H) \in SlotsOf(H) /\ TopSlot(H2) \in SlotsOf(H2) /\ leaf # 0
    BY <2>1, <2>7, <2>8 DEF TopSlot, SlotsOf
  <2>11. Len(H2.group) = m /\ \A j \in 1..m : H2.group[j] \in SlotsOf(H2) /\ H.group[j] \in SlotsOf(H)
    BY <2>5, <2>7 DEF SlotsOf, m
  <2>12. ASSUME NEW s \in SlotsOf(H2) PROVE s = add \/ (s \in SlotsOf(H) /\ s.name # leaf)
    <3>1. CASE s = TopSlot(H2)
      BY <2>10, <3>1
    <3>2. CASE \E j \in 1..m : s = H2.group[j]
      <4>1. PICK j \in 1..m : s = H2.group[j]
        BY <3>2
      <4>2. CASE j = 1
        BY <2>5, <2>7, <4>1, <4>2
      <4>3. CASE j # 1
        BY <2>1, <2>5, <2>7, <2>8, <2>11, <4>1, <4>3
      <4>4. QED
        BY <4>2, <4>3
    <3>3. QED
      BY <2>11, <3>1, <3>2, SlotOf
  <2>13. ASSUME NEW s \in SlotsOf(H) PROVE \E s2 \in SlotsOf(H2) : s2.name = s.name
    <3>1. CASE s = TopSlot(H)
      BY <2>10, <3>1
    <3>2. CASE \E j \in 1..m : s = H.group[j]
      BY <2>9, <2>11, <3>2
    <3>3. QED
      BY <3>1, <3>2, SlotOf DEF m
  <2>14. add \in SlotsOf(H2)
    BY <2>1, <2>5, <2>7, <2>11
  <2>15. Replaced(H, H2, add, leaf)
    BY <2>4, <2>7, <2>9, <2>11, <2>12, <2>13, <2>14 DEF Replaced, m
  <2>16. \E s \in SlotsOf(H) : s.name = leaf /\ s.attrs = Log!Leaf(H)
    BY <2>1, <2>11
  <2>17. QED
    BY <2>15, <2>16 DEF add, leaf, H2
<1>4. QED
  BY <1>2, <1>3

\* A handler with a new buffer in its leaf carries what is in it there, and the
\* same as before elsewhere.
LEMMA ReplacedCarries ==
  ASSUME NEW heap \in Heap, NEW n \in Nat, NEW H, NEW gv, Carries(H, gv, heap, n), NEW s0 \in SlotsOf(H), s0.name = LeafName(H),
         NEW R, NEW d \in Seq(Nat), NewBuffer(heap, R, d),
         NEW H2, NEW add, add = [name |-> LeafName(H), attrs |-> R.buf], Replaced(H, H2, add, LeafName(H)),
         NEW gv2, gv2 = [gv EXCEPT ![LeafName(H)] = d]
  PROVE  Carries(H2, gv2, R.heap, n + 1)
<1> DEFINE leaf == LeafName(H)
<1>1. /\ s0 \in Group /\ leaf \in 0..MaxHandlers /\ leaf < n /\ leaf \in Nat /\ gv \in Gift
      /\ n < n + 1 /\ n <= n + 1 /\ n + 1 \in Nat
  <2>1. SlotHolds(heap, s0, gv) /\ s0.name < n /\ gv \in Gift
    BY DEF Carries
  <2>2. s0 \in Group /\ leaf \in 0..MaxHandlers /\ leaf < n /\ leaf \in Nat
    BY <2>1 DEF SlotHolds, Group
  <2>3. n < n + 1 /\ n <= n + 1 /\ n + 1 \in Nat
    OBVIOUS
  <2>4. QED
    BY <2>1, <2>2, <2>3
<1>2. leaf < n + 1
  BY <1>1
<1>3. gv2 \in Gift /\ gv2[leaf] = d /\ \A g \in 0..MaxHandlers : g # leaf => gv2[g] = gv[g]
  BY <1>1 DEF Gift
<1>4. R.heap \in Heap /\ Slice(R.heap, R.buf) /\ Log!Data(R.heap, R.buf) = d /\ R.buf \in Buffer
  BY DEF NewBuffer, Slice
<1>5. add.name = leaf /\ add.attrs = R.buf /\ add \in Group
  BY <1>1, <1>4 DEF Group
<1> DEFINE m == Len(H.group)
<1>6. /\ H2 \in Handler /\ Len(H2.group) = m /\ \A j \in 1..m : H2.group[j].name = H.group[j].name
  BY DEF Replaced
<1>7. add \in SlotsOf(H2) /\ (\A s \in SlotsOf(H2) : s = add \/ (s \in SlotsOf(H) /\ s.name # leaf))
  BY DEF Replaced
<1>8. \A s \in SlotsOf(H) : \E s2 \in SlotsOf(H2) : s2.name = s.name
  BY DEF Replaced
<1> HIDE DEF leaf, m
<1>9. Keeps(heap, R.heap, SlotsOf(H), {})
  BY NewKeeps
<1>10. Carries(H, gv, R.heap, n + 1)
  <2>1. SlotsOf(H) \subseteq SlotsOf(H)
    OBVIOUS
  <2>2. QED
    BY <1>1, <1>9, <2>1, CarriesLater
<1>11. ASSUME NEW s \in SlotsOf(H2) PROVE SlotHolds(R.heap, s, gv2) /\ s.name < n + 1
  <2>1. CASE s = add
    BY <1>1, <1>2, <1>3, <1>4, <1>5, <2>1 DEF SlotHolds, Good
  <2>2. CASE s \in SlotsOf(H) /\ s.name # leaf
    <3>1. SlotHolds(R.heap, s, gv) /\ s.name < n + 1
      BY <1>10, <2>2 DEF Carries
    <3>2. s.name \in 0..MaxHandlers
      BY <3>1 DEF SlotHolds
    <3>3. gv2[s.name] = gv[s.name]
      BY <1>3, <2>2, <3>2
    <3>4. QED
      BY <3>1, <3>3 DEF SlotHolds
  <2>3. QED
    BY <1>7, <2>1, <2>2
<1>12. \A j \in 1..m : H2.group[j].name # 0
  BY <1>6 DEF Carries, m
<1>13. \A j, k \in 1..m : H2.group[j].name = H2.group[k].name => j = k
  <2>1. \A j, k \in 1..m : H.group[j].name = H.group[k].name => j = k
    BY DEF Carries, m
  <2>2. QED
    BY <1>6, <2>1
<1>14. ASSUME NEW g \in 0..MaxHandlers, gv2[g] # <<>> PROVE \E s \in SlotsOf(H2) : s.name = g
  <2>1. CASE g = leaf
    BY <1>5, <1>7, <2>1
  <2>2. CASE g # leaf
    <3>1. gv[g] # <<>>
      BY <1>3, <1>14, <2>2
    <3>2. PICK s \in SlotsOf(H) : s.name = g
      BY <3>1 DEF Carries
    <3>3. QED
      BY <1>8, <3>2
  <2>3. QED
    BY <2>1, <2>2
<1>15. QED
  BY <1>3, <1>6, <1>11, <1>12, <1>13, <1>14 DEF Carries

\* A slot with an array of its own, or none, joins the others.
LEMMA OwnersMore ==
  ASSUME NEW heap, NEW S, Owners(S), \A s \in S : Good(heap, s.attrs), NEW add,
         add.attrs = Log!Nil \/ (add.attrs.arr \in Nat /\ add.attrs.arr > Len(heap)), Len(heap) \in Nat,
         NEW S2, \A s \in S2 : s \in S \/ s = add
  PROVE  Owners(S2)
<1> SUFFICES ASSUME NEW s \in S2, NEW u \in S2, s.attrs # Log!Nil, s.attrs.arr = u.attrs.arr, s # u PROVE FALSE
  BY DEF Owners
<1>1. ASSUME NEW x \in S, x.attrs # Log!Nil PROVE x.attrs.arr \in 1..Len(heap)
  BY <1>1 DEF Good, Slice
<1>2. Log!Nil.arr = 0
  BY NilHolds
<1>3. \A x \in S : x.attrs.arr \in 0..Len(heap)
  <2> SUFFICES ASSUME NEW x \in S PROVE x.attrs.arr \in 0..Len(heap)
    OBVIOUS
  <2>1. CASE x.attrs = Log!Nil
    BY <1>2, <2>1
  <2>2. CASE x.attrs # Log!Nil
    BY <1>1, <2>2
  <2>3. QED
    BY <2>1, <2>2
<1>4. CASE s \in S /\ u \in S
  BY <1>4 DEF Owners
<1>5. CASE s \in S /\ u = add
  <2>1. s.attrs.arr \in 1..Len(heap) /\ u.attrs.arr = s.attrs.arr
    BY <1>1, <1>5
  <2>2. add.attrs.arr = 0 \/ (add.attrs.arr \in Nat /\ add.attrs.arr > Len(heap))
    BY <1>2
  <2>3. QED
    BY <1>5, <2>1, <2>2
<1>6. CASE s = add /\ u \in S
  <2>1. add.attrs.arr \in Nat /\ add.attrs.arr > Len(heap)
    BY <1>6
  <2>2. u.attrs.arr \in 0..Len(heap) /\ u.attrs.arr = add.attrs.arr
    BY <1>3, <1>6
  <2>3. QED
    BY <2>1, <2>2
<1>7. QED
  BY <1>4, <1>5, <1>6

\* H2 is H inside of a new group n.
Inside(H, H2, add, n) ==
    add = [name |-> n, attrs |-> Log!Nil] /\ H2 = [H EXCEPT !.group = <<add>> \o H.group]

\* WithGroup adds an empty slot and carries the same.
LEMMA WithGroupCarries ==
  ASSUME NEW heap, NEW n \in Nat, n # 0, n < MaxHandlers, NEW H, NEW gv, Carries(H, gv, heap, n),
         NEW add, NEW H2, Inside(H, H2, add, n)
  PROVE  Carries(H2, gv, heap, n + 1) /\ SlotsOf(H2) = SlotsOf(H) \cup {add}
<1> DEFINE gs2 == <<add>> \o H.group
           m == Len(H.group)
<1>1. H \in Handler /\ H.group \in Seq(Group) /\ m \in Nat /\ gv \in Gift
  BY DEF Carries, Handler
<1>2. add \in Group /\ add.name = n /\ add.attrs = Log!Nil
  BY NilHolds DEF Group, Inside
<1>3. gs2 \in Seq(Group) /\ Len(gs2) = m + 1 /\ gs2[1] = add /\ \A j \in 1..m : gs2[j + 1] = H.group[j]
  <2> DEFINE one == <<add>>
  <2>1. one \in Seq(Group) /\ Len(one) = 1 /\ one[1] = add
    BY <1>2
  <2> HIDE DEF one
  <2>2. /\ one \o H.group \in Seq(Group) /\ Len(one \o H.group) = Len(one) + m
        /\ \A w \in 1..(Len(one) + m) : (one \o H.group)[w] = IF w <= Len(one) THEN one[w] ELSE H.group[w - Len(one)]
    BY <1>1, <2>1, ConcatProperties
  <2>3. 1 \in 1..(1 + m) /\ 1 <= 1 /\ 1 + m = m + 1 /\ \A j \in 1..m : j + 1 \in 1..(1 + m) /\ ~(j + 1 <= 1) /\ (j + 1) - 1 = j
    BY <1>1
  <2>4. one \o H.group = gs2
    BY DEF one
  <2> HIDE DEF gs2, m
  <2>5. gs2[1] = add
    BY <2>1, <2>2, <2>3, <2>4
  <2>6. \A j \in 1..m : gs2[j + 1] = H.group[j]
    BY <2>1, <2>2, <2>3, <2>4
  <2>7. QED
    BY <2>1, <2>2, <2>3, <2>4, <2>5, <2>6
<1>4. H2 = [H EXCEPT !.group = gs2]
  BY DEF Inside
<1> HIDE DEF gs2, m
<1>5. H2 \in Handler /\ H2.group = gs2 /\ H2.attrs = H.attrs
  BY <1>1, <1>3, <1>4 DEF Handler
<1>6. (\A j \in 1..(m + 1) : j = 1 \/ (j - 1 \in 1..m /\ (j - 1) + 1 = j)) /\ (\A j \in 1..m : j + 1 \in 1..(m + 1)) /\ 1 \in 1..(m + 1)
  BY <1>1
<1>7. \A j \in 1..(m + 1) : (j = 1 /\ gs2[j] = add) \/ (j - 1 \in 1..m /\ gs2[j] = H.group[j - 1])
  BY <1>3, <1>6
<1>8. SlotsOf(H2) = SlotsOf(H) \cup {add}
  <2>1. SlotsOf(H2) = {TopSlot(H2)} \cup {gs2[j] : j \in 1..(m + 1)} /\ TopSlot(H2) = TopSlot(H)
    BY <1>3, <1>5 DEF SlotsOf, TopSlot
  <2>2. SlotsOf(H) = {TopSlot(H)} \cup {H.group[j] : j \in 1..m}
    BY DEF SlotsOf, m
  <2>3. {gs2[j] : j \in 1..(m + 1)} = {H.group[j] : j \in 1..m} \cup {add}
    <3>1. ASSUME NEW x \in {gs2[j] : j \in 1..(m + 1)} PROVE x \in {H.group[j] : j \in 1..m} \cup {add}
      BY <1>7
    <3>2. ASSUME NEW x \in {H.group[j] : j \in 1..m} PROVE x \in {gs2[j] : j \in 1..(m + 1)}
      BY <1>3, <1>6
    <3>3. add \in {gs2[j] : j \in 1..(m + 1)}
      BY <1>3, <1>6
    <3>4. QED
      BY <3>1, <3>2, <3>3
  <2>4. QED
    BY <2>1, <2>2, <2>3
<1>9. \A s \in SlotsOf(H) : SlotHolds(heap, s, gv) /\ s.name < n /\ s.name \in Nat
  BY DEF Carries, SlotHolds, Group
<1>10. n \in 0..MaxHandlers /\ gv[n] = <<>>
  <2>1. n \in 0..MaxHandlers
    BY HandlersCounted
  <2>2. \A s \in SlotsOf(H) : s.name # n
    BY <1>9
  <2>3. QED
    BY <2>1, <2>2 DEF Carries
<1>11. ASSUME NEW s \in SlotsOf(H2) PROVE SlotHolds(heap, s, gv) /\ s.name < n + 1
  <2>1. CASE s \in SlotsOf(H)
    <3>1. SlotHolds(heap, s, gv) /\ s.name < n /\ s.name \in Nat
      BY <1>9, <2>1
    <3>2. s.name < n + 1
      BY <3>1
    <3>3. QED
      BY <3>1, <3>2
  <2>2. CASE s = add
    <3>1. SlotHolds(heap, s, gv)
      BY <1>2, <1>10, <2>2, NilHolds DEF SlotHolds, Good
    <3>2. n < n + 1
      OBVIOUS
    <3>3. QED
      BY <1>2, <2>2, <3>1, <3>2
  <2>3. QED
    BY <1>8, <2>1, <2>2
<1>12. \A j \in 1..m : H.group[j].name # 0 /\ H.group[j].name # n
  <2>1. \A j \in 1..m : H.group[j].name # 0 /\ H.group[j] \in SlotsOf(H)
    BY DEF Carries, SlotsOf, m
  <2>2. \A s \in SlotsOf(H) : s.name # n
    BY <1>9
  <2>3. QED
    BY <2>1, <2>2
<1>13. \A j \in 1..(m + 1) : gs2[j].name # 0
  BY <1>2, <1>7, <1>12
<1>14. ASSUME NEW j \in 1..(m + 1), NEW k \in 1..(m + 1), gs2[j].name = gs2[k].name PROVE j = k
  <2>1. CASE j = 1
    BY <1>2, <1>7, <1>12, <1>14, <2>1
  <2>2. CASE k = 1
    BY <1>2, <1>7, <1>12, <1>14, <2>2
  <2>3. CASE j # 1 /\ k # 1
    <3>1. j - 1 \in 1..m /\ k - 1 \in 1..m /\ gs2[j] = H.group[j - 1] /\ gs2[k] = H.group[k - 1]
      BY <1>7, <2>3
    <3>2. j - 1 = k - 1
      BY <1>14, <3>1 DEF Carries, m
    <3>3. QED
      BY <3>2
  <2>4. QED
    BY <2>1, <2>2, <2>3
<1>15. \A g \in 0..MaxHandlers : gv[g] # <<>> => \E s \in SlotsOf(H2) : s.name = g
  BY <1>8 DEF Carries
<1>16. Carries(H2, gv, heap, n + 1)
  <2>1. Len(H2.group) = m + 1
    BY <1>3, <1>5
  <2>2. \A j \in 1..Len(H2.group) : H2.group[j].name # 0
    BY <1>5, <1>13, <2>1
  <2>3. \A j, k \in 1..Len(H2.group) : H2.group[j].name = H2.group[k].name => j = k
    BY <1>5, <1>14, <2>1
  <2>4. H2 \in Handler /\ gv \in Gift
    BY <1>1, <1>5
  <2>5. QED
    BY <1>11, <1>15, <2>2, <2>3, <2>4, Zenon DEF Carries
<1>17. QED
  BY <1>8, <1>16

-----------------------------------------------------------------------------
(* The invariant.                                                          *)

\* The slots of all handlers.
AllSlots(hs) == UNION {SlotsOf(hs[h]) : h \in 1..Len(hs)}

\* The types of the variables.
LogTypes ==
    /\ handlers \in Seq(Handler) /\ given \in Seq(Gift) /\ Len(given) = Len(handlers) /\ Len(handlers) # 0
    /\ cells \in Heap /\ records \in Nat /\ DOMAIN recs = Loggers

\* Every handler carries what it was given, no two slots share an array, and
\* every record shows what its handler carried.
LogInv ==
    /\ LogTypes
    /\ \A h \in 1..Len(handlers) : Carries(handlers[h], given[h], cells, Len(handlers))
    /\ Owners(AllSlots(handlers))
    /\ \A p \in Loggers : RecShows(recs[p], cells, AllSlots(handlers))

\* The slots of a handler are among all slots.
LEMMA SlotsIn == ASSUME NEW hs, NEW h \in 1..Len(hs) PROVE SlotsOf(hs[h]) \subseteq AllSlots(hs)
  BY DEF AllSlots

\* One more handler adds its slots.
LEMMA SlotsGrow ==
  ASSUME NEW hs \in Seq(Handler), NEW H \in Handler
  PROVE  AllSlots(Append(hs, H)) = AllSlots(hs) \cup SlotsOf(H)
<1> DEFINE n == Len(hs)
           gs2 == Append(hs, H)
<1>1. n \in Nat /\ Len(gs2) = n + 1 /\ gs2[n + 1] = H /\ \A h \in 1..n : gs2[h] = hs[h]
  BY AppendProperties
<1> HIDE DEF gs2, n
<1>2. 1..(n + 1) = (1..n) \cup {n + 1}
  BY <1>1
<1>3. AllSlots(gs2) = UNION {SlotsOf(gs2[h]) : h \in 1..(n + 1)} /\ AllSlots(hs) = UNION {SlotsOf(hs[h]) : h \in 1..n}
  BY <1>1 DEF AllSlots, n
<1>4. {SlotsOf(gs2[h]) : h \in 1..(n + 1)} = {SlotsOf(hs[h]) : h \in 1..n} \cup {SlotsOf(H)}
  BY <1>1, <1>2
<1>5. QED
  BY <1>3, <1>4 DEF gs2

\* A logger between two records shows nothing.
LEMMA NoRecordShows == ASSUME NEW heap, NEW S PROVE RecShows(Log!NoRecord, heap, S)
<1> DEFINE r == Log!NoRecord
<1>1. Log!Nothing \in Gift /\ \A g \in 0..MaxHandlers : Log!Nothing[g] = <<>>
  BY DEF Gift, Log!Nothing
<1>2. r = [out |-> <<>>, leaf |-> 0, own |-> <<>>, given |-> Log!Nothing, clash |-> FALSE]
  BY DEF Log!NoRecord, Log!Top
<1> HIDE DEF r
<1>3. r \in Record /\ r.out = <<>> /\ r.own = <<>> /\ r.given = Log!Nothing /\ Len(r.out) = 0 /\ 1..0 = {}
  BY <1>1, <1>2 DEF Record
<1>4. QED
  BY <1>1, <1>3 DEF RecShows, r

\* The one handler at first has nothing.
LEMMA LogInvInit == AllInit => LogInv
<1> SUFFICES ASSUME AllInit PROVE LogInv
  OBVIOUS
<1> DEFINE H == [attrs |-> Log!Nil, group |-> <<>>]
<1>1. /\ handlers = <<H>> /\ cells = <<>> /\ records = 0 /\ given = <<Log!Nothing>>
      /\ recs = [p \in Loggers |-> Log!NoRecord]
  BY DEF AllInit, Log!Init
<1>2. Log!Nothing \in Gift /\ \A g \in 0..MaxHandlers : Log!Nothing[g] = <<>>
  BY DEF Gift, Log!Nothing
<1>3. H \in Handler /\ H.group = <<>> /\ H.attrs = Log!Nil /\ Len(H.group) = 0 /\ 1..0 = {}
  BY NilHolds DEF Handler
<1> HIDE DEF H
<1>4. LogTypes /\ Len(handlers) = 1 /\ handlers[1] = H /\ given[1] = Log!Nothing
  <2>1. handlers \in Seq(Handler) /\ Len(handlers) = 1 /\ handlers[1] = H
    BY <1>1, <1>3
  <2>2. given \in Seq(Gift) /\ Len(given) = 1 /\ given[1] = Log!Nothing
    <3> DEFINE x == Log!Nothing
    <3>1. x \in Gift /\ given = <<x>>
      BY <1>1, <1>2
    <3> HIDE DEF x
    <3>2. given \in Seq(Gift) /\ Len(given) = 1 /\ given[1] = x
      BY <3>1
    <3>3. QED
      BY <3>2 DEF x
  <2>3. cells \in Heap /\ records \in Nat /\ DOMAIN recs = Loggers
    BY <1>1 DEF Heap
  <2>4. Len(handlers) # 0
    BY <2>1
  <2>5. QED
    BY <2>1, <2>2, <2>3, <2>4 DEF LogTypes
<1>5. SlotsOf(H) = {TopSlot(H)} /\ TopSlot(H).name = 0 /\ TopSlot(H).attrs = Log!Nil /\ TopSlot(H) \in Group
  BY <1>3, NilHolds DEF SlotsOf, TopSlot, Group
<1>6. Carries(H, Log!Nothing, cells, 1)
  <2>1. 0 \in 0..MaxHandlers /\ 0 < 1
    BY HandlersCounted
  <2>2. SlotHolds(cells, TopSlot(H), Log!Nothing)
    BY <1>2, <1>5, <2>1, NilHolds DEF SlotHolds, Good
  <2>3. QED
    BY <1>2, <1>3, <1>5, <2>1, <2>2 DEF Carries
<1>7. AllSlots(handlers) = {TopSlot(H)}
  <2>1. 1..1 = {1}
    OBVIOUS
  <2>2. QED
    BY <1>4, <1>5, <2>1 DEF AllSlots
<1>8. Owners(AllSlots(handlers))
  BY <1>7 DEF Owners
<1>9. RecShows(Log!NoRecord, cells, AllSlots(handlers))
  BY NoRecordShows
<1>10. \A p \in Loggers : recs[p] = Log!NoRecord
  BY <1>1
<1>11. \A h \in 1..Len(handlers) : Carries(handlers[h], given[h], cells, Len(handlers))
  <2>1. 1..1 = {1}
    OBVIOUS
  <2>2. QED
    BY <1>4, <1>6, <2>1
<1>12. QED
  BY <1>4, <1>8, <1>9, <1>10, <1>11 DEF LogInv

\* The invariant is enough.
LEMMA LogInvKeeps == LogInv => Log!AttrsKept
<1> SUFFICES ASSUME LogInv, NEW p \in Loggers, NEW g \in 0..MaxHandlers
             PROVE  /\ \A j, k \in Log!Maps(recs[p], g) : j = k
                    /\ Log!IsPrefix(recs[p].given[g], Log!Shown(recs[p], g))
                    /\ ~recs[p].clash => Log!Shown(recs[p], g) = recs[p].given[g] \o Log!Own(recs[p], g)
  BY Zenon DEF Log!AttrsKept
<1> DEFINE r == recs[p]
           Maps == MapsFor(r, g)
           Shown == ShownIn(r, g, cells)
<1>1. cells \in Heap /\ RecShows(r, cells, AllSlots(handlers))
  BY DEF LogInv, LogTypes
<1>2. /\ \A j, k \in Maps : j = k
      /\ Log!IsPrefix(r.given[g], Shown)
      /\ ~r.clash => Shown = r.given[g] \o (IF g = r.leaf THEN r.own ELSE <<>>)
  <2>1. ShowsAt(r, g, cells)
    BY <1>1, RecordKept
  <2>2. QED
    BY <2>1, Zenon DEF ShowsAt
<1>3. Log!Maps(r, g) = Maps
  BY Zenon DEF Log!Maps, MapsFor
<1>4. Log!Own(r, g) = IF g = r.leaf THEN r.own ELSE <<>>
  BY DEF Log!Own
<1>6. Log!Shown(r, g) = Shown
  BY Zenon DEF Log!Shown, Log!Maps, Log!Content, ShownIn, MapsFor, ContentIn, Cut
<1>7. QED
  BY <1>2, <1>3, <1>4, <1>6, Zenon

\* What a new handler needs for the invariant.
LEMMA HandlerJoins ==
  ASSUME LogInv, NEW T, NEW H2 \in Handler, NEW gv2 \in Gift, NEW add, Keeps(cells, cells', AllSlots(handlers), {}),
         handlers' = Append(handlers, H2), given' = Append(given, gv2), records' = records, recs' = recs,
         Carries(H2, gv2, cells', Len(handlers) + 1),
         add.attrs = Log!Nil \/ (add.attrs.arr \in Nat /\ add.attrs.arr > Len(cells)),
         \A s \in SlotsOf(H2) : s \in AllSlots(handlers) \/ s = add
  PROVE  LogInv'
<1> DEFINE n == Len(handlers)
           S == AllSlots(handlers)
           S2 == AllSlots(handlers')
<1>1. /\ handlers \in Seq(Handler) /\ given \in Seq(Gift) /\ Len(given) = n /\ n \in Nat /\ cells \in Heap /\ records \in Nat
      /\ DOMAIN recs = Loggers
  BY DEF LogInv, LogTypes
<1>2. /\ handlers' \in Seq(Handler) /\ Len(handlers') = n + 1 /\ handlers'[n + 1] = H2
      /\ \A h \in 1..n : handlers'[h] = handlers[h]
  BY <1>1, AppendProperties
<1>3. given' \in Seq(Gift) /\ Len(given') = n + 1 /\ given'[n + 1] = gv2 /\ \A h \in 1..n : given'[h] = given[h]
  <2>1. given' \in Seq(Gift) /\ Len(given') = Len(given) + 1 /\ given'[Len(given) + 1] = gv2 /\ \A h \in 1..Len(given) : given'[h] = given[h]
    BY <1>1, AppendProperties
  <2>2. QED
    BY <1>1, <2>1
<1>4. S2 = S \cup SlotsOf(H2)
  BY <1>1, SlotsGrow
<1>5. cells' \in Heap
  BY DEF Keeps
<1>6. \A h \in 1..n : Carries(handlers[h], given[h], cells, n) /\ SlotsOf(handlers[h]) \subseteq S
  BY SlotsIn DEF LogInv
<1>7. \A h \in 1..(n + 1) : h \in 1..n \/ h = n + 1
  BY <1>1
<1>8. n <= n + 1 /\ n + 1 \in Nat /\ n + 1 # 0
  BY <1>1
<1> HIDE DEF n, S, S2
<1>9. LogTypes'
  BY <1>1, <1>2, <1>3, <1>5, <1>8 DEF LogTypes
<1>10. ASSUME NEW h \in 1..(n + 1) PROVE Carries(handlers'[h], given'[h], cells', n + 1)
  <2>1. CASE h \in 1..n
    <3>1. Carries(handlers[h], given[h], cells, n) /\ SlotsOf(handlers[h]) \subseteq S
      BY <1>6, <2>1
    <3>2. Keeps(cells, cells', S, {})
      BY DEF S
    <3>3. Carries(handlers[h], given[h], cells', n + 1)
      BY <1>1, <1>8, <3>1, <3>2, CarriesLater
    <3>4. QED
      BY <1>2, <1>3, <2>1, <3>3
  <2>2. CASE h = n + 1
    BY <1>2, <1>3, <2>2 DEF n
  <2>3. QED
    BY <1>7, <2>1, <2>2
<1>11. Owners(S2)
  <2>1. \A s \in S : Good(cells, s.attrs)
    <3> SUFFICES ASSUME NEW s \in S PROVE Good(cells, s.attrs)
      OBVIOUS
    <3>1. PICK h \in 1..n : s \in SlotsOf(handlers[h])
      BY DEF S, AllSlots, n
    <3>2. QED
      BY <1>6, <3>1 DEF Carries, SlotHolds
  <2>2. Owners(S)
    BY DEF LogInv, S
  <2>3. \A s \in S2 : s \in S \/ s = add
    BY <1>4 DEF S
  <2>4. Len(cells) \in Nat
    BY <1>1 DEF Heap
  <2>5. QED
    BY <2>1, <2>2, <2>3, <2>4, OwnersMore
<1>12. ASSUME NEW p \in Loggers PROVE RecShows(recs[p], cells', S2)
  <2> DEFINE r == recs[p]
  <2>1. RecShows(r, cells, S)
    BY DEF LogInv, S
  <2>2. Keeps(cells, cells', S, {}) /\ S \subseteq S2
    BY <1>4 DEF S
  <2>3. r \in Record
    BY <2>1 DEF RecShows
  <2> HIDE DEF r
  <2>4. RecShows(r, cells', S2)
    BY <1>1, <2>1, <2>2, <2>3, RecordLater
  <2>5. QED
    BY <2>4 DEF r
<1>13. QED
  BY <1>2, <1>9, <1>10, <1>11, <1>12 DEF LogInv, S2

\* What the invariant says of the handler a step starts from.
LEMMA HandlerIs ==
  ASSUME LogInv, NEW h \in DOMAIN handlers
  PROVE  /\ h \in 1..Len(handlers) /\ Len(handlers) \in Nat /\ cells \in Heap /\ given[h] \in Gift
         /\ Carries(handlers[h], given[h], cells, Len(handlers)) /\ SlotsOf(handlers[h]) \subseteq AllSlots(handlers)
         /\ Log!Innermost(h) = LeafName(handlers[h])
<1>1. handlers \in Seq(Handler) /\ cells \in Heap
  BY DEF LogInv, LogTypes
<1>2. h \in 1..Len(handlers) /\ Len(handlers) \in Nat
  BY <1>1
<1>3. Carries(handlers[h], given[h], cells, Len(handlers)) /\ SlotsOf(handlers[h]) \subseteq AllSlots(handlers)
  BY <1>2, SlotsIn DEF LogInv
<1>4. Log!Innermost(h) = LeafName(handlers[h])
  BY DEF Log!Innermost, Log!Top, LeafName
<1>5. given[h] \in Gift
  BY <1>3 DEF Carries
<1>6. QED
  BY <1>1, <1>2, <1>3, <1>4, <1>5

\* WithAttrs: the clone's leaf has an array of its own.
LEMMA WithAttrsStep ==
  ASSUME LogInv, NEW h \in DOMAIN handlers, NEW n \in Nat, NEW kvs \in Seq(Nat), NEW extra \in Nat,
         Log!WithAttrs(h, n, kvs, extra)
  PROVE  LogInv'
<1> DEFINE H == handlers[h]
           gv == given[h]
           leaf == LeafName(H)
           old == Log!Leaf(H)
           copy == IF old = Log!Nil THEN Log!Alloc(cells, <<>>, n) ELSE Log!Clone(cells, old, extra)
           R == Log!AddAttrs(copy.heap, copy.buf, n, kvs, extra)
           S == AllSlots(handlers)
           M == Len(handlers)
<1>1. /\ h \in 1..M /\ M \in Nat /\ cells \in Heap /\ gv \in Gift /\ Carries(H, gv, cells, M) /\ SlotsOf(H) \subseteq S
      /\ Log!Innermost(h) = leaf
  BY HandlerIs
<1>2. cells' = R.heap /\ handlers' = Append(handlers, Log!WithLeaf(H, R.buf))
  BY Zenon DEF Log!WithAttrs
<1>3. given' = Append(given, [gv EXCEPT ![Log!Innermost(h)] = gv[Log!Innermost(h)] \o kvs]) /\ recs' = recs /\ records' = records
  BY DEF Log!WithAttrs
<1> HIDE DEF R, H, gv, S, M
<1>4. PICK s0 \in SlotsOf(H) : s0.name = leaf /\ s0.attrs = old
  <2>1. Log!Nil \in Buffer
    BY NilHolds
  <2>2. QED
    BY <1>1, <2>1, WithLeafReplaces
<1>5. Good(cells, old) /\ Log!Data(cells, old) = gv[leaf] /\ leaf \in 0..MaxHandlers
  BY <1>1, <1>4 DEF Carries, SlotHolds
<1>6. gv[leaf] \in Seq(Nat) /\ gv[leaf] \in Seq(Int) /\ kvs \in Seq(Int) /\ gv[leaf] \o kvs \in Seq(Nat)
  <2>1. gv[leaf] \in Seq(Nat)
    BY <1>1, <1>5 DEF Gift
  <2>2. gv[leaf] \o kvs \in Seq(Nat)
    BY <2>1, ConcatProperties
  <2>3. QED
    BY <2>1, <2>2, NatsAreInts
<1> HIDE DEF leaf, old
<1>7. NewBuffer(cells, copy, gv[leaf])
  <2>1. CASE old = Log!Nil
    <3>1. copy = Log!Alloc(cells, <<>>, n) /\ gv[leaf] = <<>>
      BY <1>5, <2>1, NilHolds
    <3>2. <<>> \in Seq(Int) /\ Len(<<>>) <= n
      OBVIOUS
    <3>3. QED
      BY <1>1, <3>1, <3>2, AllocNew
  <2>2. CASE old # Log!Nil
    <3>1. Slice(cells, old)
      BY <1>5, <2>2 DEF Good
    <3>2. copy = Log!Alloc(cells, gv[leaf], old.len + extra)
      BY <1>5, <2>2 DEF Log!Clone
    <3>3. Len(gv[leaf]) = old.len /\ old.len \in Nat
      BY <1>1, <1>5, <3>1, DataIs DEF Slice, Buffer
    <3> DEFINE cap == old.len + extra
    <3>4. cap \in Nat /\ Len(gv[leaf]) <= cap
      BY <3>3
    <3> HIDE DEF cap, copy
    <3>5. NewBuffer(cells, Log!Alloc(cells, gv[leaf], cap), gv[leaf])
      BY <1>1, <1>6, <3>4, AllocNew
    <3>6. QED
      BY <3>2, <3>5 DEF cap
  <2>3. QED
    BY <2>1, <2>2
<1> HIDE DEF copy
<1> DEFINE d == gv[leaf] \o kvs
<1>8. NewBuffer(cells, R, d)
  BY <1>1, <1>6, <1>7, AddAttrsNew DEF R
<1> DEFINE add == [name |-> leaf, attrs |-> R.buf]
           H2 == Log!WithLeaf(H, R.buf)
           gv2 == [gv EXCEPT ![leaf] = d]
<1>9. R.buf \in Buffer /\ R.buf.arr \in Nat /\ R.buf.arr > Len(cells)
  BY <1>8 DEF NewBuffer, Slice, Buffer
<1>10. Replaced(H, H2, add, leaf)
  BY <1>1, <1>9, WithLeafReplaces DEF leaf
<1> HIDE DEF H2
<1>11. Carries(H2, gv2, R.heap, M + 1)
  <2> HIDE DEF d
  <2>1. d \in Seq(Nat)
    BY <1>6 DEF d
  <2>2. QED
    BY <1>1, <1>4, <1>8, <1>10, <2>1, ReplacedCarries DEF leaf
<1>12. Keeps(cells, R.heap, S, {})
  BY <1>1, <1>8, NewKeeps
<1>13. H2 \in Handler /\ gv2 \in Gift
  BY <1>11 DEF Carries
<1>14. \A s \in SlotsOf(H2) : s \in S \/ s = add
  BY <1>1, <1>10 DEF Replaced
<1>15. handlers' = Append(handlers, H2) /\ given' = Append(given, gv2)
  BY <1>1, <1>2, <1>3 DEF H2
<1>16. add.attrs = R.buf
  OBVIOUS
<1> HIDE DEF gv2, add
<1>17. QED
  BY <1>2, <1>3, <1>9, <1>11, <1>12, <1>13, <1>14, <1>15, <1>16, HandlerJoins DEF S, M

\* WithGroup: the new group has no array yet.
LEMMA WithGroupStep ==
  ASSUME LogInv, NEW h \in DOMAIN handlers, Log!WithGroup(h)
  PROVE  LogInv'
<1> DEFINE H == handlers[h]
           gv == given[h]
           M == Len(handlers)
           S == AllSlots(handlers)
           add == [name |-> M, attrs |-> Log!Nil]
           H2 == [H EXCEPT !.group = <<add>> \o H.group]
<1>1. M \in Nat /\ cells \in Heap /\ gv \in Gift /\ Carries(H, gv, cells, M) /\ SlotsOf(H) \subseteq S
  BY HandlerIs
<1>2. M < MaxHandlers /\ handlers' = Append(handlers, H2) /\ given' = Append(given, gv) /\ cells' = cells /\ recs' = recs /\ records' = records
  BY DEF Log!WithGroup
<1>3. M # 0
  BY DEF LogInv, LogTypes
<1>4. add.attrs = Log!Nil
  OBVIOUS
<1> HIDE DEF H, gv, S, M
<1>5. Carries(H2, gv, cells, M + 1) /\ SlotsOf(H2) = SlotsOf(H) \cup {add}
  <2>1. Inside(H, H2, add, M)
    BY DEF Inside
  <2> HIDE DEF add, H2
  <2>2. QED
    BY <1>1, <1>2, <1>3, <2>1, WithGroupCarries
<1> HIDE DEF add, H2
<1>6. Keeps(cells, cells', S, {})
  <2>1. Len(cells) <= Len(cells)
    BY <1>1 DEF Heap
  <2>2. QED
    BY <1>1, <1>2, <2>1 DEF Keeps
<1>7. H2 \in Handler
  BY <1>5 DEF Carries
<1>8. \A s \in SlotsOf(H2) : s \in S \/ s = add
  BY <1>1, <1>5
<1>9. QED
  BY <1>1, <1>2, <1>4, <1>5, <1>6, <1>7, <1>8, HandlerJoins DEF S, M

\* Handle: a record may write behind the attributes of a slot, never over them;
\* records that refer to the same array are marked as crossed.
LEMMA HandleStep ==
  ASSUME LogInv, NEW h \in DOMAIN handlers, NEW p \in Loggers, NEW kvs \in Seq(Nat), Len(kvs) <= 1, Log!Handle(p, h, kvs)
  PROVE  LogInv'
<1> DEFINE H == handlers[h]
           gv == given[h]
           S == AllSlots(handlers)
           groups == GroupsOf(H, kvs)
           g == MapsOf(groups, kvs)
           top == TopMap(H, kvs)
           leaf == LeafName(H)
           add == [out |-> Append(g.out, top), leaf |-> leaf, own |-> kvs, given |-> gv, clash |-> FALSE]
           T == Log!Arrays(g.out)
<1>1. /\ Len(handlers) \in Nat /\ cells \in Heap /\ gv \in Gift /\ Carries(H, gv, cells, Len(handlers)) /\ SlotsOf(H) \subseteq S
      /\ Log!Innermost(h) = leaf
  BY HandlerIs
<1>2. /\ cells' = g.heap /\ records' = records + 1 /\ handlers' = handlers /\ given' = given
      /\ recs' = [q \in Loggers |-> IF q = p THEN [out |-> Append(g.out, top), leaf |-> Log!Innermost(h), own |-> kvs,
                                                   given |-> gv, clash |-> FALSE]
                                    ELSE [recs[q] EXCEPT !.clash = @ \/ Log!Arrays(recs[q].out) \cap T # {}]]
  BY Zenon DEF Log!Handle, GroupsOf, MapsOf, TopMap, Log!Top
<1>3. records \in Nat /\ Owners(S) /\ LogTypes /\ DOMAIN recs = Loggers
  BY DEF LogInv, LogTypes
<1>4. RecShows(add, g.heap, S) /\ Keeps(cells, g.heap, S, T)
  <2> HIDE DEF H, gv, S, groups, g, top
  <2>1. groups = GroupsOf(H, kvs) /\ g = MapsOf(groups, kvs) /\ top = TopMap(H, kvs)
    BY DEF groups, g, top
  <2>2. QED
    BY <1>1, <1>3, <2>1, HandleShows
<1>5. recs'[p] = add
  BY <1>1, <1>2
<1> HIDE DEF add, g, S, H, gv
<1>6. ASSUME NEW q \in Loggers PROVE RecShows(recs'[q], cells', S)
  <2>1. CASE q = p
    BY <1>2, <1>4, <1>5, <2>1
  <2>2. CASE q # p
    <3> DEFINE r == recs[q]
               r2 == [r EXCEPT !.clash = r.clash \/ Log!Arrays(r.out) \cap T # {}]
    <3>1. recs'[q] = r2
      BY <1>2, <2>2
    <3>2. RecShows(r, cells, S) /\ r \in Record
      BY DEF LogInv, RecShows, S
    <3> HIDE DEF r, T
    <3>3. r2 \in Record /\ r2.out = r.out /\ r2.leaf = r.leaf /\ r2.own = r.own /\ r2.given = r.given
      BY <3>2 DEF Record
    <3>4. r2.clash = (r.clash \/ Log!Arrays(r.out) \cap T # {})
      BY <3>2 DEF Record
    <3>5. 0 \notin T
      BY NilHolds DEF T, Log!Arrays
    <3> HIDE DEF r2
    <3>6. ~r2.clash => ~r.clash /\ Log!Arrays(r.out) \cap T = {}
      BY <3>4
    <3>7. S \subseteq S
      OBVIOUS
    <3>8. RecShows(r2, cells', S)
      BY <1>1, <1>2, <1>4, <3>2, <3>3, <3>5, <3>6, <3>7, RecordLater
    <3>9. QED
      BY <3>1, <3>8
  <2>3. QED
    BY <2>1, <2>2
<1> HIDE DEF T
<1>7. \A w \in 1..Len(handlers) : Carries(handlers[w], given[w], cells', Len(handlers))
  <2> SUFFICES ASSUME NEW w \in 1..Len(handlers) PROVE Carries(handlers[w], given[w], cells', Len(handlers))
    OBVIOUS
  <2>1. Carries(handlers[w], given[w], cells, Len(handlers)) /\ SlotsOf(handlers[w]) \subseteq S
    BY SlotsIn DEF LogInv, S
  <2>2. Len(handlers) <= Len(handlers)
    BY <1>1
  <2>3. Keeps(cells, cells', S, T)
    BY <1>2, <1>4
  <2>4. QED
    BY <1>1, <2>1, <2>2, <2>3, CarriesLater
<1>8. LogTypes'
  <2>1. cells' \in Heap
    BY <1>2, <1>4 DEF Keeps
  <2>2. records' \in Nat
    BY <1>2, <1>3
  <2>3. DOMAIN recs' = Loggers
    BY <1>2
  <2>4. QED
    BY <1>2, <1>3, <2>1, <2>2, <2>3 DEF LogTypes
<1>9. AllSlots(handlers)' = S
  BY <1>2 DEF S
<1>10. QED
  BY <1>2, <1>3, <1>6, <1>7, <1>8, <1>9 DEF LogInv

\* Export only forgets a record.
LEMMA ExportStep ==
  ASSUME LogInv, NEW p \in Loggers, Log!Export(p)
  PROVE  LogInv'
<1>1. recs' = [recs EXCEPT ![p] = Log!NoRecord] /\ handlers' = handlers /\ cells' = cells /\ records' = records /\ given' = given
  BY DEF Log!Export
<1>2. LogTypes /\ DOMAIN recs = Loggers
  BY DEF LogInv, LogTypes
<1>3. DOMAIN recs' = Loggers /\ \A q \in Loggers : recs'[q] = IF q = p THEN Log!NoRecord ELSE recs[q]
  BY <1>1, <1>2
<1>4. LogTypes'
  BY <1>1, <1>2, <1>3 DEF LogTypes
<1>5. \A q \in Loggers : RecShows(recs'[q], cells, AllSlots(handlers))
  <2>1. \A q \in Loggers : RecShows(recs[q], cells, AllSlots(handlers))
    BY DEF LogInv
  <2>2. RecShows(Log!NoRecord, cells, AllSlots(handlers))
    BY NoRecordShows
  <2>3. QED
    BY <1>3, <2>1, <2>2
<1>6. QED
  BY <1>1, <1>4, <1>5 DEF LogInv

\* The attributes the actions choose from.
LEMMA ShortSeqs ==
  ASSUME NEW x \in Nat
  PROVE  /\ <<>> \in Seq(Nat) /\ Len(<<>>) <= 1 /\ <<x>> \in Seq(Nat) /\ Len(<<x>>) <= 1
         /\ <<x, x + 1>> \in Seq(Nat)
  OBVIOUS

\* Every step of the handlers keeps the invariant.
LEMMA LogInvStep == LogInv /\ [Log!Next]_logVars => LogInv'
<1> SUFFICES ASSUME LogInv, [Log!Next]_logVars PROVE LogInv'
  OBVIOUS
<1>1. CASE UNCHANGED logVars
  BY <1>1 DEF logVars, LogInv, LogTypes
<1>2. LogTypes
  BY DEF LogInv
<1>3. ASSUME NEW h \in DOMAIN handlers, NEW extra \in 0..1, NEW n \in {1, 2}, NEW kvs,
             kvs = <<2 * Len(handlers)>> \/ kvs = <<2 * Len(handlers), 2 * Len(handlers) + 1>>,
             Log!WithAttrs(h, n, kvs, extra)
      PROVE  LogInv'
  <2> DEFINE a == 2 * Len(handlers)
  <2>1. a \in Nat /\ a + 1 \in Nat
    <3>1. Len(handlers) \in Nat
      BY <1>2 DEF LogTypes
    <3>2. QED
      BY <3>1
  <2>2. n \in Nat /\ extra \in Nat
    OBVIOUS
  <2>3. kvs = <<a>> \/ kvs = <<a, a + 1>>
    BY <1>3
  <2> HIDE DEF a
  <2>4. kvs \in Seq(Nat)
    BY <2>1, <2>3, ShortSeqs
  <2>5. QED
    BY <1>3, <2>2, <2>4, WithAttrsStep
<1>4. ASSUME NEW h \in DOMAIN handlers, Log!WithGroup(h) PROVE LogInv'
  BY <1>4, WithGroupStep
<1>5. ASSUME NEW h \in DOMAIN handlers, NEW p \in Loggers, NEW kvs \in {<<>>, <<50 + records>>}, Log!Handle(p, h, kvs) PROVE LogInv'
  <2> DEFINE x == 50 + records
  <2>1. x \in Nat
    BY <1>2 DEF LogTypes
  <2>2. kvs = <<>> \/ kvs = <<x>>
    OBVIOUS
  <2> HIDE DEF x
  <2>3. kvs \in Seq(Nat) /\ Len(kvs) <= 1
    BY <2>1, <2>2, ShortSeqs
  <2>4. QED
    BY <1>5, <2>3, HandleStep
<1>6. ASSUME NEW p \in Loggers, Log!Export(p) PROVE LogInv'
  BY <1>6, ExportStep
<1>7. CASE Log!Next
  <2>1. \/ \E h \in DOMAIN handlers :
             \/ \E extra \in 0..1 : \/ Log!WithAttrs(h, 1, <<2 * Len(handlers)>>, extra)
                                    \/ Log!WithAttrs(h, 2, <<2 * Len(handlers)>>, extra)
                                    \/ Log!WithAttrs(h, 1, <<2 * Len(handlers), 2 * Len(handlers) + 1>>, extra)
             \/ Log!WithGroup(h)
             \/ \E p \in Loggers, kvs \in {<<>>, <<50 + records>>} : Log!Handle(p, h, kvs)
        \/ \E p \in Loggers : Log!Export(p)
    BY <1>7, Zenon DEF Log!Next
  <2>2. 1 \in {1, 2} /\ 2 \in {1, 2}
    OBVIOUS
  <2>3. QED
    BY <1>3, <1>4, <1>5, <1>6, <2>1, <2>2, Zenon
<1>8. QED
  BY <1>1, <1>7

\* For any number of handlers, groups, records and goroutines: a record shows,
\* in one map per group, the attributes its logger was given and its own.
THEOREM AttrsAlwaysKept == AllSpec => []Log!AttrsKept
<1>1. LogInv /\ [AllNext]_allVars => LogInv'
  BY PartsMove, LogInvStep
<1> QED
  BY <1>1, SafetyOfAll, LogInvInit, LogInvKeeps, PTL

-----------------------------------------------------------------------------
(* What operators see.                                                     *)

\* For any number of requests, loggers, handlers, groups and providers: span,
\* metric and answer of a request agree and so does the in-flight count, a log
\* record shows the attributes its logger was given wherever others were derived
\* from it, and what exports all this is owned by the runtime that shuts it down.
THEOREM TelemetryAlwaysHolds == AllSpec => []TelemetryHolds
  BY RecordsAlwaysAgree, AttrsAlwaysKept, ResourcesAlwaysOwned, PTL DEF TelemetryHolds
==============================================================================
