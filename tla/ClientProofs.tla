---------------------------- MODULE ClientProofs ----------------------------
(***************************************************************************)
(* The client's side, for any number of nodes, calls, addresses, moves and *)
(* faults.  Discovery: it is well typed, no node that stays put is         *)
(* misreported, and a push watcher with nothing unread is up to date, for  *)
(* every backend and client.  Selectors and BreakerRegistry: p2c's loads   *)
(* and the window of a named breaker are what their calls made of them,    *)
(* and the weighted draw gives each address the share of its weight.       *)
(***************************************************************************)
EXTENDS MCClient, DataLemmas

-----------------------------------------------------------------------------
(* Sequences and membership.                                               *)

LEMMA TailFacts ==
    ASSUME NEW S, NEW s \in Seq(S), s # <<>>
    PROVE  /\ Tail(s) \in Seq(S) /\ Head(s) \in S /\ Head(s) = s[1]
           /\ Len(s) \in Nat /\ Len(s) >= 1 /\ Len(Tail(s)) = Len(s) - 1
           /\ \A i \in 1..Len(Tail(s)) : Tail(s)[i] = s[i + 1]
  OBVIOUS

LEMMA AppendFacts ==
    ASSUME NEW S, NEW s \in Seq(S), NEW e \in S
    PROVE  /\ Append(s, e) \in Seq(S) /\ Append(s, e) # <<>>
           /\ Len(s) \in Nat /\ Len(Append(s, e)) = Len(s) + 1
           /\ \A i \in 1..Len(s) : Append(s, e)[i] = s[i]
           /\ Append(s, e)[Len(s) + 1] = e
  OBVIOUS

LEMMA EmptyFacts == ASSUME NEW S PROVE <<>> \in Seq(S) /\ Len(<<>>) = 0
  OBVIOUS

\* What a backend reports of a node depends on that node's health alone, and
\* whether a client can use it on its endpoints alone.
Reported(h) == IF backend \in {"etcd", "static"} THEN h # "absent" ELSE h = "up"
Speaks(n) == (IF client = "grpc" THEN "grpc" ELSE "http") \in EndpointSchemes(n)

LEMMA InstancesMember ==
    ASSUME TypeOK, NEW st, NEW n \in Nodes
    PROVE  n \in Instances(st) <=> Reported(st[n])
  BY DEF TypeOK, Backends, Instances, Reported, EtcdInstances, StaticInstances, ConsulInstances,
     EurekaInstances, fetch, NacosInstances, KubernetesInstances, PolarisInstances, Registered, Healthy

LEMMA InstancesType == ASSUME TypeOK, NEW st PROVE Instances(st) \subseteq Nodes
  BY DEF TypeOK, Backends, Instances, EtcdInstances, StaticInstances, ConsulInstances,
     EurekaInstances, fetch, NacosInstances, KubernetesInstances, PolarisInstances, Registered, Healthy

LEMMA UsableMember ==
    ASSUME TypeOK, NEW S, NEW n
    PROVE  n \in Usable(S) <=> n \in S /\ Speaks(n)
  BY DEF TypeOK, Clients, Usable, Speaks, GrpcAddrs, HttpNodes, RestNodes

-----------------------------------------------------------------------------
(* Types.                                                                  *)

\* The types of what does not depend on the subscription.
LEMMA UsableType == ASSUME TypeOK, NEW S, S \subseteq Nodes PROVE Usable(S) \subseteq Nodes
  BY UsableMember

LEMMA FailedType == ASSUME TypeOK, Failed PROVE faults' \in 0..MaxFaults
  BY DiscoveryAssumption DEF TypeOK, Failed, MayFail

LEMMA AppliedType ==
    ASSUME TypeOK, chan # <<>>
    PROVE  Applied(Head(chan)) \subseteq Nodes
  <1>1. Head(chan) \in Event
    BY TailFacts DEF TypeOK
  <1> QED
    BY <1>1 DEF TypeOK, Applied, Event

LEMMA SnapshotType == ASSUME TypeOK PROVE Snapshot \in Seq(Event) /\ Snapshot # <<>>
  <1>1. (CHOOSE n \in Nodes : TRUE) \in Nodes
    BY DiscoveryAssumption
  <1>2. [node |-> CHOOSE n \in Nodes : TRUE, status |-> status] \in Event
    BY <1>1 DEF TypeOK, Event
  <1> QED
    BY <1>2 DEF Snapshot

LEMMA InitType == Init => TypeOK
  <1> SUFFICES ASSUME Init PROVE TypeOK
    OBVIOUS
  <1>1. portName \in BOOLEAN /\ synced \in BOOLEAN /\ closed \in BOOLEAN
    BY Zenon DEF Init
  <1>2. status \in [Nodes -> Health] /\ pc \in Phase
    BY DEF Init, Health, Phase
  <1> QED
    BY <1>1, <1>2, DiscoveryAssumption DEF Init, TypeOK, Stream, Event

LEMMA StepType == TypeOK /\ [Next]_vars => TypeOK'
  <1> SUFFICES ASSUME TypeOK, [Next]_vars PROVE TypeOK'
    OBVIOUS
  <1> USE DEF kind, watcherVars
  <1>1. CASE ResolverSeed
    <2>1. faults' \in 0..MaxFaults /\ addrs' \subseteq Nodes
      BY <1>1, FailedType, UsableType, InstancesType
         DEF ResolverSeed, GetServiceOK, GetServiceErr, update, TypeOK
    <2> QED
      BY <1>1, <2>1 DEF ResolverSeed, TypeOK, Phase
  <1>2. CASE ResolverGivesUp
    BY <1>2 DEF ResolverGivesUp, TypeOK, Phase
  <1>3. CASE HttpSeed
    <2>1. faults' \in 0..MaxFaults /\ addrs' \subseteq Nodes
      BY <1>3, FailedType, UsableType, InstancesType
         DEF HttpSeed, GetServiceOK, GetServiceErr, update, TypeOK
    <2> QED
      BY <1>3, <2>1 DEF HttpSeed, TypeOK, Phase
  <1>4. CASE Watch
    <2>1. CASE WatchFails
      BY <1>4, <2>1, FailedType, EmptyFacts DEF WatchFails, Return, TypeOK, Phase, Stream
    <2>2. CASE WatchNacos \/ WatchKubernetes
      <3>1. chan' \in Seq(Event)
        BY <2>2, SnapshotType, EmptyFacts DEF WatchNacos, WatchKubernetes
      <3> QED
        BY <2>2, <3>1 DEF WatchNacos, WatchKubernetes, Watching, TypeOK, Phase, Stream
    <2>3. CASE WatchPolaris
      BY <2>3 DEF WatchPolaris, Watching, TypeOK, Phase, Stream, PolarisInstances, Healthy
    <2>4. CASE WatchEtcd \/ WatchConsul \/ WatchEureka \/ WatchStatic
      BY <2>4 DEF WatchEtcd, WatchConsul, WatchEureka, WatchStatic, Watching, TypeOK, Phase, Stream
    <2> QED
      BY <1>4, <2>1, <2>2, <2>3, <2>4 DEF Watch
  <1>5. CASE ReadNext
    <2>1. ASSUME NextFails \/ (Return /\ UNCHANGED faults) PROVE TypeOK'
      BY <2>1, FailedType, EmptyFacts DEF NextFails, Return, TypeOK, Phase, Stream
    <2>2. ASSUME NEW S, S \subseteq Nodes, Emit(S), UNCHANGED faults, pc = "next",
                 current' \subseteq Nodes,
                 Receive \/ ReceiveError \/ UNCHANGED <<stream, chan>>
          PROVE  TypeOK'
      <3>1. addrs' \subseteq Nodes
        BY <2>2, UsableType DEF Emit, update
      <3>2. chan' \in Seq(Event) /\ (chan' # <<>> => chan # <<>>) /\ stream' \in Stream
            /\ (stream # "none" => stream' # "none")
        BY <2>2, TailFacts DEF TypeOK, Receive, ReceiveError, Stream
      <3> QED
        BY <2>2, <3>1, <3>2 DEF Emit, TypeOK
    <2>3. CASE NextEtcd
      <3>1. EtcdInstances(status) \subseteq Nodes
        BY DEF EtcdInstances, Registered
      <3> QED
        BY <2>1, <2>2, <2>3, <3>1, AppliedType DEF NextEtcd, fullSnapshot, Receive, ReceiveError
    <2>4. CASE NextConsul \/ NextEureka
      <3>1. ConsulInstances(status) \subseteq Nodes /\ EurekaInstances(status) \subseteq Nodes
        BY DEF ConsulInstances, EurekaInstances, fetch, Registered, Healthy
      <3> QED
        BY <2>2, <2>4, <3>1 DEF NextConsul, NextEureka, TypeOK
    <2>5. CASE NextNacos
      <3>1. NacosInstances(Head(chan).status) \subseteq Nodes
        BY DEF NacosInstances, Healthy
      <3> QED
        BY <2>2, <2>5, <3>1 DEF NextNacos, TypeOK
    <2>6. CASE NextKubernetes
      <3>1. KubernetesInstances(status) \subseteq Nodes
        BY DEF KubernetesInstances, Healthy
      <3> QED
        BY <2>1, <2>2, <2>6, <3>1 DEF NextKubernetes, TypeOK
    <2>7. CASE NextPolaris
      BY <2>2, <2>7, AppliedType DEF NextPolaris, TypeOK, Receive
    <2> QED
      BY <1>5, <2>3, <2>4, <2>5, <2>6, <2>7 DEF ReadNext
  <1>6. CASE NextEnds
    BY <1>6, EmptyFacts DEF NextEnds, Return, TypeOK, Phase, Stream
  <1>7. CASE Do
    <2>1. faults' \in 0..MaxFaults /\ req' \subseteq Nodes
      BY <1>7, FailedType, InstancesType DEF Do, GetServiceOK, GetServiceErr, HttpNodes, TypeOK
    <2> QED
      BY <1>7, <2>1 DEF Do, TypeOK
  <1>8. CASE RoundTrip
    <2>1. faults' \in 0..MaxFaults /\ req' \subseteq Nodes
      BY <1>8, FailedType, InstancesType DEF RoundTrip, GetServiceOK, GetServiceErr, RestNodes, TypeOK
    <2> QED
      BY <1>8, <2>1 DEF RoundTrip, TypeOK
  <1>9. CASE Answered
    BY <1>9 DEF Answered, TypeOK
  <1>10. CASE Close
    BY <1>10 DEF Close, TypeOK
  <1>11. ASSUME NEW n \in Nodes, RegistryChange(n) PROVE TypeOK'
    <2>1. status' \in [Nodes -> Health]
      BY <1>11 DEF RegistryChange, TypeOK
    <2>2. chan' \in Seq(Event) /\ (chan' # <<>> => stream # "none")
      <3>1. [node |-> n, status |-> status'] \in Event
        BY <2>1 DEF Event
      <3> QED
        BY <1>11, <3>1, AppendFacts DEF RegistryChange, TypeOK
    <2>3. changes' \in 0..MaxChanges
      BY <1>11, DiscoveryAssumption DEF RegistryChange, TypeOK
    <2> QED
      BY <1>11, <2>1, <2>2, <2>3 DEF RegistryChange, TypeOK
  <1>12. CASE StreamBreaks
    BY <1>12, DiscoveryAssumption DEF StreamBreaks, TypeOK, Stream
  <1>13. CASE UNCHANGED vars
    BY <1>13 DEF vars, TypeOK
  <1> QED
    BY <1>1, <1>2, <1>3, <1>4, <1>5, <1>6, <1>7, <1>8, <1>9, <1>10, <1>11, <1>12, <1>13 DEF Next

\* Whatever ends the goroutine, its subscription and the events in it end with
\* it, and the model's counters stay within their bounds.
THEOREM TypeCorrect == Spec => []TypeOK
  BY InitType, StepType, PTL DEF Spec

-----------------------------------------------------------------------------
(* The inductive invariant: what the unread events still have to tell.      *)

Incremental == {"etcd", "polaris"}

\* Does the watcher's current mean anything yet?
Current == pc = "next" /\ ((backend = "etcd" /\ synced) \/ backend = "polaris")

SyncedPhase == synced => pc \in {"next", "ended"}

\* The client balances over what the incremental watcher last returned.
CurrentPublished ==
    Current /\ synced => \A n \in Nodes : n \in addrs <=> n \in current /\ Speaks(n)

\* No event disturbs a node that did not move.
CurrentStable == Current => \A n \in Nodes \ moved : n \in current <=> Reported(status[n])

\* A node that no unread event is about is as the registry has it, up to
\* polaris's view of its health.
Tracks(n) ==
    /\ Reported(status[n]) => n \in current
    /\ n \in current => status[n] # "absent"
CurrentDrained ==
    Current /\ stream = "live" =>
        \A n \in Nodes : (\A i \in 1..Len(chan) : chan[i].node # n) => Tracks(n)

\* Incremental events are about nodes that moved, and the last one about a
\* node has its present state.
EventsMoved == backend \in Incremental => \A i \in 1..Len(chan) : chan[i].node \in moved
IsLast(i) == \A j \in 1..Len(chan) : j > i => chan[j].node # chan[i].node
LastTells ==
    backend \in Incremental /\ stream = "live" =>
        \A i \in 1..Len(chan) : IsLast(i) => chan[i].status[chan[i].node] = status[chan[i].node]

\* Every unread event agrees with the registry on the nodes that stayed put,
\* and the last of all on every node.
EventsStable == \A i \in 1..Len(chan) : \A n \in Nodes \ moved : chan[i].status[n] = status[n]
LastIsNow == stream = "live" /\ chan # <<>> => chan[Len(chan)].status = status

\* A watcher of whole snapshots with nothing unread returned the present one.
DrainedPublished ==
    backend \in {"nacos", "kubernetes"} /\ pc = "next" /\ synced /\ stream = "live" /\ chan = <<>> =>
        \A n \in Nodes : n \in addrs <=> Reported(status[n]) /\ Speaks(n)

\* StableNodesServed, node by node.
StableServed ==
    synced => \A n \in Nodes \ moved : n \in addrs <=> Reported(status[n]) /\ Speaks(n)

EventsInv == EventsMoved /\ LastTells /\ EventsStable /\ LastIsNow
CurrentInv == CurrentPublished /\ CurrentStable /\ CurrentDrained
IInv == TypeOK /\ SyncedPhase /\ EventsInv /\ CurrentInv /\ DrainedPublished /\ StableServed

LEMMA InitIInv == Init => IInv
  <1> SUFFICES ASSUME Init PROVE IInv
    OBVIOUS
  <1>1. TypeOK
    BY InitType
  <1>2. ~synced /\ pc # "next" /\ chan = <<>> /\ Len(chan) = 0
    BY EmptyFacts DEF Init
  <1> QED
    BY <1>1, <1>2 DEF IInv, SyncedPhase, EventsInv, EventsMoved, LastTells, EventsStable, LastIsNow,
       CurrentInv, CurrentPublished, CurrentStable, CurrentDrained, Current, DrainedPublished,
       StableServed

\* What the kind of client decides does not change.
LEMMA KindFacts ==
    ASSUME UNCHANGED kind
    PROVE  /\ backend' = backend
           /\ \A n : Speaks(n)' <=> Speaks(n)
           /\ \A h : Reported(h)' <=> Reported(h)
  BY DEF kind, Speaks, Reported, EndpointSchemes

\* A snapshot that reaches the client.
LEMMA EmitFacts ==
    ASSUME TypeOK, NEW S, Emit(S)
    PROVE  /\ \A n \in Nodes : n \in addrs' <=> n \in S /\ Speaks(n)
           /\ UNCHANGED <<kind, status, pc, moved>> /\ synced'
  BY UsableMember DEF Emit, update

\* Steps that leave the watcher, the registry and the client's list alone.
LEMMA QuietStep ==
    ASSUME IInv, TypeOK', UNCHANGED <<kind, status, pc, watcherVars, addrs, moved>>
    PROVE  IInv'
  <1>1. /\ UNCHANGED <<backend, status, pc, stream, chan, current, synced, addrs, moved>>
        /\ \A n : Speaks(n)' <=> Speaks(n)
        /\ \A h : Reported(h)' <=> Reported(h)
    BY KindFacts DEF watcherVars
  <1> QED
    BY <1>1 DEF IInv, SyncedPhase, EventsInv, EventsMoved, LastTells, IsLast, EventsStable, LastIsNow,
       CurrentInv, CurrentPublished, CurrentStable, CurrentDrained, Current, Tracks, DrainedPublished,
       StableServed

\* Steps of a goroutine that is not in its loop, or leaves it: there is no
\* subscription afterwards.
LEMMA OutsideStep ==
    ASSUME IInv, TypeOK', UNCHANGED <<kind, status, moved, synced>>,
           pc' # "next", chan' = <<>>, stream' = "none",
           synced => pc' = "ended" /\ UNCHANGED addrs
    PROVE  IInv'
  <1>1. Len(chan') = 0
    BY EmptyFacts
  <1>2. StableServed'
    <2>1. CASE ~synced'
      BY <2>1 DEF StableServed
    <2>2. CASE synced'
      BY <2>2, KindFacts DEF IInv, StableServed, Reported
    <2> QED
      BY <2>1, <2>2
  <1> QED
    BY <1>1, <1>2 DEF IInv, SyncedPhase, EventsInv, EventsMoved, LastTells, EventsStable, LastIsNow,
       CurrentInv, CurrentPublished, CurrentStable, CurrentDrained, Current, DrainedPublished

\* A new subscription: nothing has moved, nothing was returned.
LEMMA WatchStep ==
    ASSUME IInv, TypeOK', Watch, ~WatchFails
    PROVE  IInv'
  <1>1. /\ UNCHANGED kind /\ backend' = backend /\ UNCHANGED <<status, synced>>
        /\ ~synced' /\ pc' = "next" /\ moved' = {}
    BY KindFacts DEF IInv, SyncedPhase, Watch, Watching, WatchEtcd, WatchConsul, WatchEureka,
       WatchStatic, WatchNacos, WatchKubernetes, WatchPolaris
  <1>2. chan = <<>> /\ Len(<<>>) = 0
    BY EmptyFacts DEF IInv, TypeOK, Watch, Watching, WatchEtcd, WatchConsul, WatchEureka,
       WatchStatic, WatchNacos, WatchKubernetes, WatchPolaris
  <1>3. /\ chan' = <<>> \/ chan' = Snapshot
        /\ backend \in Incremental => chan' = <<>>
    BY <1>2 DEF Watch, WatchEtcd, WatchConsul, WatchEureka, WatchStatic, WatchNacos,
       WatchKubernetes, WatchPolaris, Incremental
  <1>4. Len(Snapshot) = 1 /\ Snapshot[1].status = status
    BY DEF Snapshot
  <1>5. backend = "polaris" => \A n \in Nodes : n \in current' <=> status[n] = "up"
    BY DEF Watch, WatchEtcd, WatchConsul, WatchEureka, WatchStatic, WatchNacos,
       WatchKubernetes, WatchPolaris, PolarisInstances, Healthy
  <1>6. EventsInv'
    BY <1>1, <1>2, <1>3, <1>4 DEF EventsInv, EventsMoved, LastTells, EventsStable, LastIsNow, Incremental
  <1>7. CurrentInv'
    BY <1>1, <1>5 DEF CurrentInv, CurrentPublished, CurrentStable, CurrentDrained, Current, Tracks,
       Reported
  <1> QED
    BY <1>1, <1>6, <1>7 DEF IInv, SyncedPhase, DrainedPublished, StableServed

\* Next reads an event, or none, and leaves the rest of the channel as it was.
LEMMA EventsStep ==
    ASSUME IInv, TypeOK', UNCHANGED <<kind, status, moved>>,
           Receive \/ ReceiveError \/ UNCHANGED <<stream, chan>>
    PROVE  EventsInv'
  <1>1. CASE Receive
    <2>1. /\ Len(chan) \in Nat /\ Len(chan') = Len(chan) - 1
          /\ \A i \in 1..Len(chan') : chan'[i] = chan[i + 1]
      BY <1>1, TailFacts DEF IInv, TypeOK, Receive
    <2>2. chan' # <<>> => Len(chan') >= 1
      BY <2>1 DEF TypeOK
    <2>3. EventsMoved' /\ EventsStable'
      BY <2>1, KindFacts DEF IInv, EventsInv, EventsMoved, EventsStable
    <2>4. LastTells'
      <3> SUFFICES ASSUME backend \in Incremental, stream = "live",
                          NEW i \in 1..Len(chan'), IsLast(i)'
                   PROVE  chan'[i].status[chan'[i].node] = status[chan'[i].node]
        BY <1>1, KindFacts DEF LastTells, Receive
      <3>1. i + 1 \in 1..Len(chan) /\ chan'[i] = chan[i + 1]
        BY <2>1
      <3>2. IsLast(i + 1)
        <4> SUFFICES ASSUME NEW j \in 1..Len(chan), j > i + 1 PROVE chan[j].node # chan[i + 1].node
          BY DEF IsLast
        <4>1. j - 1 \in 1..Len(chan') /\ j - 1 > i /\ chan'[j - 1] = chan[j]
          BY <2>1
        <4> QED
          BY <3>1, <4>1 DEF IsLast
      <3> QED
        BY <3>1, <3>2 DEF IInv, EventsInv, LastTells
    <2>5. LastIsNow'
      <3> SUFFICES ASSUME stream = "live", chan' # <<>> PROVE chan'[Len(chan')].status = status
        BY <1>1 DEF LastIsNow, Receive
      <3>1. chan'[Len(chan')] = chan[Len(chan)]
        BY <2>1, <2>2
      <3> QED
        BY <1>1, <3>1 DEF IInv, EventsInv, LastIsNow, Receive
    <2> QED
      BY <2>3, <2>4, <2>5 DEF EventsInv
  <1>2. CASE ReceiveError
    <2>1. Len(chan') = 0 /\ stream' = "closed" /\ chan' = <<>>
      BY <1>2, EmptyFacts DEF ReceiveError
    <2> QED
      BY <2>1 DEF EventsInv, EventsMoved, LastTells, EventsStable, LastIsNow
  <1>3. CASE UNCHANGED <<stream, chan>>
    BY <1>3, KindFacts DEF IInv, EventsInv, EventsMoved, LastTells, IsLast, EventsStable, LastIsNow
  <1> QED
    BY <1>1, <1>2, <1>3

\* Next returns S.
LEMMA EmitStep ==
    ASSUME IInv, TypeOK', pc = "next", NEW S, Emit(S),
           Receive \/ ReceiveError \/ UNCHANGED <<stream, chan>>,
           \A n \in Nodes \ moved : n \in S <=> Reported(status[n]),
           backend \in {"nacos", "kubernetes"} /\ stream' = "live" /\ chan' = <<>> =>
               \A n \in Nodes : n \in S <=> Reported(status[n]),
           CurrentInv'
    PROVE  IInv'
  <1>1. /\ \A n \in Nodes : n \in addrs' <=> n \in S /\ Speaks(n)
        /\ UNCHANGED <<kind, status, pc, moved>> /\ synced'
    BY EmitFacts DEF IInv
  <1>2. EventsInv'
    BY <1>1, EventsStep
  <1>3. StableServed' /\ DrainedPublished'
    BY <1>1, KindFacts DEF StableServed, DrainedPublished, Reported
  <1> QED
    BY <1>1, <1>2, <1>3 DEF IInv, SyncedPhase

\* An incremental watcher returns its current.
LEMMA CurrentStep ==
    ASSUME IInv, TypeOK', pc = "next", backend \in Incremental, Emit(current'),
           Receive \/ ReceiveError \/ UNCHANGED <<stream, chan>>,
           \A n \in Nodes \ moved : n \in current' <=> Reported(status[n]),
           stream' = "live" =>
               \A n \in Nodes : (\A i \in 1..Len(chan') : chan'[i].node # n) =>
                   /\ Reported(status[n]) => n \in current'
                   /\ n \in current' => status[n] # "absent"
    PROVE  IInv'
  <1>1. /\ \A n \in Nodes : n \in addrs' <=> n \in current' /\ Speaks(n)
        /\ UNCHANGED <<kind, status, pc, moved>> /\ synced'
    BY EmitFacts DEF IInv
  <1>2. CurrentPublished'
    BY <1>1, KindFacts DEF CurrentPublished
  <1>3. CurrentStable' /\ CurrentDrained'
    BY <1>1, KindFacts DEF CurrentStable, CurrentDrained, Tracks, Reported
  <1> QED
    BY <1>2, <1>3, EmitStep DEF CurrentInv, Incremental

\* Reading an event keeps current right about every node without events left.
LEMMA AppliedFacts ==
    ASSUME IInv, Current, synced, Receive, UNCHANGED status, current' = Applied(Head(chan))
    PROVE  /\ \A n \in Nodes \ moved : n \in current' <=> Reported(status[n])
           /\ stream' = "live" =>
                \A n \in Nodes : (\A i \in 1..Len(chan') : chan'[i].node # n) =>
                   /\ Reported(status[n]) => n \in current'
                   /\ n \in current' => status[n] # "absent"
  <1> DEFINE ev == Head(chan)
  <1>1. /\ ev \in Event /\ ev = chan[1] /\ Len(chan) \in Nat /\ Len(chan) >= 1
        /\ Len(chan') = Len(chan) - 1 /\ \A i \in 1..Len(chan') : chan'[i] = chan[i + 1]
        /\ stream' = stream /\ backend \in Incremental
    BY TailFacts DEF IInv, TypeOK, Receive, Current, Incremental
  <1>2. ev.node \in moved
    BY <1>1 DEF IInv, EventsInv, EventsMoved
  <1>3. ASSUME NEW n \in Nodes, n # ev.node PROVE n \in current' <=> n \in current
    BY <1>3 DEF Applied
  <1>4. \A n \in Nodes \ moved : n \in current' <=> Reported(status[n])
    BY <1>2, <1>3 DEF IInv, CurrentInv, CurrentStable
  <1>5. ASSUME stream = "live", NEW n \in Nodes, \A i \in 1..Len(chan') : chan'[i].node # n
        PROVE  /\ Reported(status[n]) => n \in current'
               /\ n \in current' => status[n] # "absent"
    <2>1. \A i \in 1..Len(chan) : i > 1 => chan[i].node # n
      <3> SUFFICES ASSUME NEW i \in 1..Len(chan), i > 1 PROVE chan[i].node # n
        OBVIOUS
      <3>1. i - 1 \in 1..Len(chan') /\ chan'[i - 1] = chan[i]
        BY <1>1
      <3> QED
        BY <1>5, <3>1
    <2>2. CASE n = ev.node
      <3>1. IsLast(1)
        BY <1>1, <2>1, <2>2 DEF IsLast
      <3>2. ev.status[n] = status[n]
        BY <1>1, <1>5, <2>2, <3>1 DEF IInv, EventsInv, LastTells
      <3>3. IF status[n] = "absent" THEN n \notin current' ELSE n \in current'
        BY <2>2, <3>2 DEF Applied
      <3> QED
        BY <3>3 DEF Reported
    <2>3. CASE n # ev.node
      <3>1. \A i \in 1..Len(chan) : chan[i].node # n
        BY <1>1, <2>1, <2>3
      <3>2. Tracks(n)
        BY <1>5, <3>1 DEF IInv, CurrentInv, CurrentDrained
      <3> QED
        BY <1>3, <2>3, <3>2 DEF Tracks
    <2> QED
      BY <2>2, <2>3
  <1> QED
    BY <1>1, <1>4, <1>5

\* The goroutine returns.
LEMMA ReturnStep ==
    ASSUME IInv, TypeOK', Return
    PROVE  IInv'
  BY OutsideStep DEF Return

LEMMA NextStep ==
    ASSUME IInv, TypeOK', ReadNext
    PROVE  IInv'
  <1>1. CASE NextFails \/ Return
    BY <1>1, ReturnStep DEF NextFails
  <1>2. CASE NextEtcd /\ ~NextFails
    <2>1. CASE fullSnapshot
      <3>1. \A n \in Nodes : n \in current' <=> status[n] # "absent"
        BY <2>1 DEF fullSnapshot, EtcdInstances, Registered
      <3>2. backend = "etcd" /\ Emit(current') /\ pc = "next"
            /\ (ReceiveError \/ Receive \/ UNCHANGED <<stream, chan>>)
        BY <1>2, <2>1 DEF NextEtcd, fullSnapshot
      <3> QED
        BY <3>1, <3>2, CurrentStep DEF Reported, Incremental
    <2>2. CASE ~fullSnapshot
      <3>1. /\ backend = "etcd" /\ pc = "next" /\ synced /\ Receive
            /\ current' = Applied(Head(chan)) /\ Emit(current')
        BY <1>2, <2>2 DEF NextEtcd
      <3>2. Current /\ UNCHANGED status
        BY <3>1 DEF Current, Emit
      <3> QED
        BY <3>1, <3>2, AppliedFacts, CurrentStep DEF Incremental
    <2> QED
      BY <2>1, <2>2
  <1>3. CASE NextConsul \/ NextEureka
    <2>0. EurekaInstances(status) = Healthy(status)
      BY DEF EurekaInstances, fetch, Registered, Healthy
    <2>1. PICK S : /\ S = Healthy(status) /\ Emit(S) /\ pc = "next"
                   /\ UNCHANGED <<stream, chan, current>> /\ backend \in {"consul", "eureka"}
      BY <1>3, <2>0 DEF NextConsul, NextEureka, ConsulInstances
    <2>2. backend' = backend /\ pc' = pc
      BY <2>1, KindFacts DEF Emit
    <2>3. CurrentInv'
      BY <2>1, <2>2 DEF CurrentInv, CurrentPublished, CurrentStable, CurrentDrained, Current
    <2>4. \A n \in Nodes : n \in S <=> Reported(status[n])
      BY <2>1 DEF Healthy, Reported
    <2> QED
      BY <2>1, <2>3, <2>4, EmitStep
  <1>4. CASE NextNacos \/ (NextKubernetes /\ ~NextFails /\ ~Return)
    <2>1. backend \in {"nacos", "kubernetes"} /\ pc = "next" /\ UNCHANGED current
      BY <1>4 DEF NextNacos, NextKubernetes
    <2>2. ASSUME NEW S, Emit(S) PROVE CurrentInv'
      <3>1. backend' = backend
        BY <2>2, KindFacts DEF Emit
      <3> QED
        BY <2>1, <3>1 DEF CurrentInv, CurrentPublished, CurrentStable, CurrentDrained, Current
    <2>3. CASE NextNacos
      <3> DEFINE S == NacosInstances(Head(chan).status)
      <3>1. Receive /\ Emit(S)
        BY <2>3 DEF NextNacos
      <3>2. /\ Head(chan) = chan[1] /\ Len(chan) \in Nat /\ Len(chan) >= 1
            /\ Len(chan') = Len(chan) - 1
        BY <3>1, TailFacts DEF IInv, TypeOK, Receive
      <3>3. \A n \in Nodes : n \in S <=> Reported(Head(chan).status[n])
        BY <2>3 DEF NextNacos, NacosInstances, Healthy, Reported
      <3>4. \A n \in Nodes \ moved : n \in S <=> Reported(status[n])
        <4> SUFFICES ASSUME NEW n \in Nodes \ moved PROVE n \in S <=> Reported(status[n])
          OBVIOUS
        <4>1. Head(chan).status[n] = status[n]
          BY <3>2 DEF IInv, EventsInv, EventsStable
        <4> HIDE DEF S
        <4> QED
          BY <3>3, <4>1
      <3>5. ASSUME stream' = "live", chan' = <<>> PROVE \A n \in Nodes : n \in S <=> Reported(status[n])
        <4>1. Len(chan) = 1
          BY <3>2, <3>5, EmptyFacts
        <4>2. Head(chan).status = status
          BY <3>1, <3>2, <3>5, <4>1 DEF IInv, EventsInv, LastIsNow, Receive
        <4> HIDE DEF S
        <4> QED
          BY <3>3, <4>2
      <3>6. CurrentInv'
        BY <2>2, <3>1
      <3> HIDE DEF S
      <3> QED
        BY <2>1, <3>1, <3>4, <3>5, <3>6, EmitStep
    <2>4. CASE NextKubernetes /\ ~NextFails /\ ~Return
      <3>1. Emit(KubernetesInstances(status)) /\ (Receive \/ ReceiveError) /\ backend = "kubernetes"
        BY <2>4 DEF NextKubernetes
      <3>2. \A n \in Nodes : n \in KubernetesInstances(status) <=> Reported(status[n])
        BY <3>1 DEF KubernetesInstances, Healthy, Reported
      <3>3. CurrentInv'
        BY <2>2, <3>1
      <3> QED
        BY <2>1, <3>1, <3>2, <3>3, EmitStep
    <2> QED
      BY <1>4, <2>3, <2>4
  <1>5. CASE NextPolaris
    <2>1. backend = "polaris" /\ pc = "next" /\ Current /\ Emit(current')
      BY <1>5 DEF NextPolaris, Current
    <2>2. CASE ~synced
      <3>1. UNCHANGED <<stream, chan, current>>
        BY <1>5, <2>2 DEF NextPolaris
      <3> QED
        BY <2>1, <3>1, CurrentStep DEF Incremental, IInv, CurrentInv, CurrentStable, CurrentDrained, Tracks
    <2>3. CASE synced
      <3>1. Receive /\ current' = Applied(Head(chan)) /\ UNCHANGED status
        BY <1>5, <2>3 DEF NextPolaris, Emit
      <3> QED
        BY <2>1, <2>3, <3>1, AppliedFacts, CurrentStep DEF Incremental
    <2> QED
      BY <2>2, <2>3
  <1> QED
    BY <1>1, <1>2, <1>3, <1>4, <1>5 DEF ReadNext

LEMMA ChangeStep ==
    ASSUME IInv, TypeOK', NEW m \in Nodes, RegistryChange(m)
    PROVE  IInv'
  <1>1. /\ UNCHANGED <<kind, pc, stream, current, synced, addrs>> /\ moved' = moved \cup {m}
        /\ backend' = backend /\ status \in [Nodes -> Health]
        /\ \A n \in Nodes : n # m => status'[n] = status[n]
    BY KindFacts DEF RegistryChange, IInv, TypeOK
  <1> DEFINE ev == [node |-> m, status |-> status']
  <1>2. /\ Len(chan) \in Nat
        /\ \A i \in 1..Len(chan) : chan'[i] = chan[i] /\ chan[i].node \in Nodes
        /\ stream = "live" => /\ Len(chan') = Len(chan) + 1 /\ chan'[Len(chan) + 1] = ev
                              /\ chan' # <<>>
        /\ stream # "live" => chan' = chan
    <2>1. chan \in Seq(Event) /\ ev \in Event
      BY DEF IInv, TypeOK, Event
    <2>2. \A i \in 1..Len(chan) : chan[i].node \in Nodes
      <3>1. \A i \in 1..Len(chan) : chan[i] \in Event
        BY <2>1
      <3>2. \A e \in Event : e.node \in Nodes
        BY DEF Event
      <3> QED
        BY <3>1, <3>2
    <2> QED
      BY <2>1, <2>2, AppendFacts DEF RegistryChange
  <1>3. EventsMoved'
    BY <1>1, <1>2 DEF IInv, EventsInv, EventsMoved
  <1>4. EventsStable'
    <2> SUFFICES ASSUME NEW i \in 1..Len(chan'), NEW n \in Nodes, n \notin moved'
                 PROVE  chan'[i].status[n] = status'[n]
      BY DEF EventsStable
    <2>1. CASE i \in 1..Len(chan)
      BY <1>1, <1>2, <2>1 DEF IInv, EventsInv, EventsStable
    <2>2. CASE i \notin 1..Len(chan)
      BY <1>2, <2>2
    <2> QED
      BY <2>1, <2>2
  <1>5. LastIsNow'
    BY <1>1, <1>2 DEF LastIsNow
  <1>6. LastTells'
    <2> SUFFICES ASSUME backend \in Incremental, stream = "live",
                        NEW i \in 1..Len(chan'), IsLast(i)'
                 PROVE  chan'[i].status[chan'[i].node] = status'[chan'[i].node]
      BY <1>1 DEF LastTells
    <2>1. CASE i = Len(chan) + 1
      BY <1>2, <2>1
    <2>2. CASE i # Len(chan) + 1
      <3>1. i \in 1..Len(chan) /\ chan'[i] = chan[i] /\ chan[i].node \in Nodes
        BY <1>2, <2>2
      <3>2. chan'[Len(chan) + 1].node # chan'[i].node
        BY <1>2, <3>1 DEF IsLast
      <3>3. chan[i].node # m
        BY <1>2, <3>1, <3>2
      <3>4. IsLast(i)
        BY <1>2, <3>1 DEF IsLast
      <3> QED
        BY <1>1, <3>1, <3>3, <3>4 DEF IInv, EventsInv, LastTells
    <2> QED
      BY <2>1, <2>2
  <1>7. CurrentPublished' /\ CurrentStable'
    <2>1. \A n : Speaks(n)' <=> Speaks(n)
      BY <1>1, KindFacts
    <2> QED
      BY <1>1, <2>1 DEF IInv, CurrentInv, CurrentPublished, CurrentStable, Current, Reported
  <1>8. CurrentDrained'
    <2> SUFFICES ASSUME Current, stream = "live", NEW n \in Nodes,
                        \A i \in 1..Len(chan') : chan'[i].node # n
                 PROVE  Tracks(n)'
      BY <1>1 DEF CurrentDrained, Current
    <2>1. n # m
      BY <1>2
    <2>2. \A i \in 1..Len(chan) : chan[i].node # n
      BY <1>2
    <2>3. Tracks(n)
      BY <2>2 DEF IInv, CurrentInv, CurrentDrained
    <2> QED
      BY <1>1, <2>1, <2>3 DEF Tracks, Reported
  <1>9. DrainedPublished' /\ SyncedPhase'
    BY <1>1, <1>2 DEF DrainedPublished, IInv, SyncedPhase
  <1>10. StableServed'
    <2>1. \A n : Speaks(n)' <=> Speaks(n)
      BY <1>1, KindFacts
    <2> QED
      BY <1>1, <2>1 DEF IInv, StableServed, Reported
  <1> QED
    BY <1>3, <1>4, <1>5, <1>6, <1>7, <1>8, <1>9, <1>10 DEF IInv, EventsInv, CurrentInv

LEMMA BreakStep ==
    ASSUME IInv, TypeOK', StreamBreaks
    PROVE  IInv'
  <1>1. /\ UNCHANGED <<kind, backend, status, pc, chan, current, synced, addrs, moved>>
        /\ stream' # "live"
        /\ \A n : Speaks(n)' <=> Speaks(n)
        /\ \A h : Reported(h)' <=> Reported(h)
    BY KindFacts DEF StreamBreaks
  <1> QED
    BY <1>1 DEF IInv, SyncedPhase, EventsInv, EventsMoved, LastTells, EventsStable, LastIsNow,
       CurrentInv, CurrentPublished, CurrentStable, CurrentDrained, Current, DrainedPublished,
       StableServed, Reported

LEMMA StepIInv == IInv /\ [Next]_vars => IInv'
  <1> SUFFICES ASSUME IInv, [Next]_vars PROVE IInv'
    OBVIOUS
  <1>1. TypeOK'
    BY StepType DEF IInv
  <1>2. CASE ResolverSeed \/ ResolverGivesUp \/ HttpSeed
    <2>1. pc \notin {"next", "ended"}
      BY <1>2 DEF ResolverSeed, ResolverGivesUp, HttpSeed
    <2>2. ~synced /\ stream = "none" /\ chan = <<>>
      BY <2>1 DEF IInv, TypeOK, SyncedPhase
    <2> QED
      BY <1>1, <1>2, <2>2, OutsideStep DEF ResolverSeed, ResolverGivesUp, HttpSeed, watcherVars
  <1>3. CASE Watch
    BY <1>1, <1>3, WatchStep, ReturnStep DEF WatchFails
  <1>4. CASE ReadNext \/ NextEnds
    BY <1>1, <1>4, NextStep, ReturnStep DEF NextEnds
  <1>5. CASE Do \/ RoundTrip \/ Answered \/ Close \/ UNCHANGED vars
    BY <1>1, <1>5, QuietStep DEF Do, RoundTrip, Answered, Close, vars
  <1>6. CASE \E n \in Nodes : RegistryChange(n)
    BY <1>1, <1>6, ChangeStep
  <1>7. CASE StreamBreaks
    BY <1>1, <1>7, BreakStep
  <1> QED
    BY <1>2, <1>3, <1>4, <1>5, <1>6, <1>7 DEF Next

-----------------------------------------------------------------------------
(* The theorems.                                                           *)

LEMMA IInvStable == IInv => StableNodesServed
  BY InstancesMember, UsableMember DEF IInv, StableServed, StableNodesServed

LEMMA IInvCaughtUp == IInv => CaughtUp
  <1> SUFFICES ASSUME IInv, backend \in Pushing, pc = "next", synced, stream = "live", chan = <<>>
               PROVE  /\ Usable(Instances(status)) \subseteq addrs
                      /\ addrs \subseteq Usable(IF backend = "polaris" THEN Registered(status)
                                                 ELSE Instances(status))
    BY DEF CaughtUp
  <1>1. TypeOK /\ addrs \subseteq Nodes /\ Instances(status) \subseteq Nodes /\ Len(chan) = 0
    BY InstancesType, EmptyFacts DEF IInv, TypeOK
  <1>2. \A n \in Nodes : n \in Usable(Instances(status)) <=> Reported(status[n]) /\ Speaks(n)
    BY <1>1, InstancesMember, UsableMember
  <1>3. CASE backend \in {"nacos", "kubernetes"}
    BY <1>1, <1>2, <1>3, UsableMember DEF IInv, DrainedPublished
  <1>4. CASE backend \in Incremental
    <2>1. /\ \A n \in Nodes : n \in addrs <=> n \in current /\ Speaks(n)
          /\ \A n \in Nodes : Tracks(n)
      BY <1>1, <1>4 DEF IInv, CurrentInv, CurrentPublished, CurrentDrained, Current, Incremental
    <2>2. \A n \in Nodes : Reported(status[n]) => n \in current
      BY <2>1 DEF Tracks
    <2>3. \A n \in Nodes : n \in current => status[n] # "absent"
      BY <2>1 DEF Tracks
    <2>4. Usable(Instances(status)) \subseteq addrs
      BY <1>1, <1>2, <2>1, <2>2, UsableMember
    <2>5. CASE backend = "polaris"
      <3>1. \A n \in addrs : n \in Registered(status) /\ Speaks(n)
        BY <1>1, <2>1, <2>3 DEF Registered
      <3> QED
        BY <1>1, <2>4, <2>5, <3>1, UsableMember
    <2>6. CASE backend = "etcd"
      <3>1. \A n \in addrs : Reported(status[n]) /\ Speaks(n)
        BY <1>1, <2>1, <2>3, <2>6 DEF Reported
      <3> QED
        BY <1>1, <1>2, <2>4, <2>6, <3>1
    <2> QED
      BY <1>4, <2>5, <2>6 DEF Incremental
  <1> QED
    BY <1>3, <1>4 DEF Pushing, Incremental

LEMMA Invariance == Spec => []IInv
  BY InitIInv, StepIInv, PTL DEF Spec

\* For every backend, a node that has not moved since Watch is in the client's
\* list exactly if it should be, whatever else happened and however much of it
\* is unread: no event, resync or reordering of Get and watch disturbs it.
THEOREM StableNodesAreServed == Spec => []StableNodesServed
  BY Invariance, IInvStable, PTL

\* When the channel of an etcd, nacos, kubernetes or polaris watcher is drained,
\* the client's list is what the registry holds.
THEOREM DrainedIsCaughtUp == Spec => []CaughtUp
  BY Invariance, IInvCaughtUp, PTL

-----------------------------------------------------------------------------
(* The parts of MCClient share no variable: each is proved from its own    *)
(* steps.                                                                  *)

LEMMA PartsMove ==
  ASSUME [AllNext]_allVars
  PROVE  [Select!Next]_selectVars /\ [Named!Next]_namedVars
  BY DEF AllNext, allVars, vars, selectVars, namedVars

LEMMA SafetyOfAll == AllSpec => AllInit /\ [][AllNext]_allVars
  BY PTL DEF AllSpec

-----------------------------------------------------------------------------
(* BreakerRegistry: the results of a name are in one window.               *)

\* A request that began since the reset runs under the breaker of the name,
\* the others under one that was thrown away; a breaker not made yet, or made
\* since, has no result of theirs.
NamedInv ==
    /\ breaker \in 0..MaxBreakers /\ breakers \in 0..MaxBreakers /\ breaker <= breakers
    /\ user \in [Calls -> {"idle", "missed", "req"}]
    /\ forReq \in [Calls -> BOOLEAN] /\ owned \in [Calls -> BOOLEAN]
    /\ got \in [Calls -> 0..MaxBreakers] /\ recorded \in [1..MaxBreakers -> Nat] /\ ended \in Nat
    /\ \A c \in Calls :
         /\ owned[c] => user[c] = "req"
         /\ user[c] = "req" => got[c] \in 1..breakers /\ (owned[c] <=> (got[c] = breaker))
    /\ \A b \in 1..MaxBreakers : b > breakers => recorded[b] = 0
    /\ breaker = 0 => ended = 0
    /\ breaker # 0 => ended = recorded[breaker]

LEMMA NamedInvStep == NamedInv /\ [Named!Next]_namedVars => NamedInv'
<1> SUFFICES ASSUME NamedInv, [Named!Next]_namedVars
             PROVE  NamedInv'
  OBVIOUS
<1> USE CallsCountable DEF NamedInv, Named!None
<1>1. CASE UNCHANGED namedVars
  BY <1>1 DEF namedVars
<1>a. ASSUME NEW c \in Calls, NEW b \in 1..MaxBreakers, Named!Use(c, b, TRUE),
             breakers' \in b..MaxBreakers, breakers <= breakers', breaker' = b, forReq' \in [Calls -> BOOLEAN],
             UNCHANGED <<recorded, ended>>, breaker = b \/ (breaker = 0 /\ b > breakers)
      PROVE  NamedInv'
  <2>1. /\ user' = [user EXCEPT ![c] = "req"] /\ got' = [got EXCEPT ![c] = b]
        /\ owned' = [owned EXCEPT ![c] = TRUE]
    BY <1>a DEF Named!Use
  <2>2. \A d \in Calls : /\ owned'[d] => user'[d] = "req"
                         /\ user'[d] = "req" => got'[d] \in 1..breakers' /\ (owned'[d] <=> (got'[d] = breaker'))
    BY <1>a, <2>1
  <2> QED
    BY <1>a, <2>1, <2>2
<1>b. ASSUME NEW c \in Calls, NEW b \in 1..MaxBreakers, Named!Use(c, b, FALSE),
             breakers' \in b..MaxBreakers, breakers <= breakers', breaker' = b, forReq' \in [Calls -> BOOLEAN],
             UNCHANGED <<recorded, ended>>, breaker = b \/ (breaker = 0 /\ b > breakers)
      PROVE  NamedInv'
  <2>1. /\ user' = [user EXCEPT ![c] = "idle"] /\ got' = [got EXCEPT ![c] = 0]
        /\ owned' = [owned EXCEPT ![c] = FALSE]
    BY <1>b DEF Named!Use
  <2>2. \A d \in Calls : /\ owned'[d] => user'[d] = "req"
                         /\ user'[d] = "req" => got'[d] \in 1..breakers' /\ (owned'[d] <=> (got'[d] = breaker'))
    BY <1>b, <2>1
  <2> QED
    BY <1>b, <2>1, <2>2
<1>2. ASSUME NEW c \in Calls, Named!Get(c)
      PROVE  NamedInv'
  <2>1. PICK isDo \in BOOLEAN : /\ forReq' = [forReq EXCEPT ![c] = isDo]
                                /\ breaker # 0 => Named!Use(c, breaker, isDo)
                                /\ breaker = 0 => user' = [user EXCEPT ![c] = "missed"] /\ UNCHANGED <<got, owned>>
    BY <1>2 DEF Named!Get
  <2>2. user[c] = "idle" /\ UNCHANGED <<breaker, breakers, recorded, ended>> /\ forReq' \in [Calls -> BOOLEAN]
    BY <1>2, <2>1 DEF Named!Get
  <2>3. CASE breaker = 0
    BY <2>1, <2>2, <2>3, ZenonT(60)
  <2>4. CASE breaker # 0
    <3>1. breaker \in 1..MaxBreakers /\ breakers \in breaker..MaxBreakers
      BY <2>4
    <3>2. breaker' = breaker /\ breakers' \in breaker..MaxBreakers /\ breakers <= breakers'
      BY <2>2, <3>1
    <3>3. Named!Use(c, breaker, TRUE) \/ Named!Use(c, breaker, FALSE)
      BY <2>1, <2>4, Zenon
    <3> QED
      BY <1>a, <1>b, <2>2, <3>1, <3>2, <3>3
  <2> QED
    BY <2>3, <2>4
<1>3. ASSUME NEW c \in Calls, Named!GetLocked(c)
      PROVE  NamedInv'
  <2>1. UNCHANGED <<forReq, recorded, ended>> /\ forReq' \in [Calls -> BOOLEAN]
    BY <1>3 DEF Named!GetLocked
  <2>2. forReq[c] = TRUE \/ forReq[c] = FALSE
    OBVIOUS
  <2>3. CASE breaker # 0
    <3>1. breaker \in 1..MaxBreakers /\ breakers \in breaker..MaxBreakers
      BY <2>3
    <3>2. Named!Use(c, breaker, forReq[c]) /\ UNCHANGED <<breaker, breakers>>
      BY <1>3, <2>3 DEF Named!GetLocked
    <3>3. breaker' = breaker /\ breakers' \in breaker..MaxBreakers /\ breakers <= breakers'
      BY <3>1, <3>2
    <3> QED
      BY <1>a, <1>b, <2>1, <2>2, <3>1, <3>2, <3>3, ZenonT(60)
  <2>4. CASE breaker = 0
    <3> DEFINE b == breakers + 1
    <3>1. breakers < MaxBreakers /\ breakers' = b /\ breaker' = b /\ Named!Use(c, b, forReq[c])
      BY <1>3, <2>4 DEF Named!GetLocked, Named!Create
    <3>2. b \in 1..MaxBreakers /\ b > breakers /\ b \in b..MaxBreakers /\ breakers <= b
      BY <3>1
    <3>3. breakers' \in b..MaxBreakers /\ breakers <= breakers'
      BY <3>1, <3>2
    <3> HIDE DEF b
    <3> QED
      BY <1>a, <1>b, <2>1, <2>2, <2>4, <3>1, <3>2, <3>3, ZenonT(60)
  <2> QED
    BY <2>3, <2>4
<1>4. ASSUME NEW c \in Calls, Named!Mark(c)
      PROVE  NamedInv'
  BY <1>4, SMTT(60) DEF Named!Mark
<1>5. CASE Named!NoBreakerFor
  BY <1>5 DEF Named!NoBreakerFor
<1> QED
  BY <1>1, <1>2, <1>3, <1>4, <1>5 DEF Named!Next

-----------------------------------------------------------------------------
(* Selectors: p2c's loads are the calls under way.                         *)

\* The calls counted in object o.
HoldersOf(o) == {c \in Calls : obj[c] = o /\ call[c] \in {"prune", "calling"}}

SelectTypes ==
    /\ members \subseteq Addrs
    /\ state \in [Addrs -> 0..MaxObjects] /\ made \in 0..MaxObjects
    /\ inflight \in [1..MaxObjects -> Nat]
    /\ call \in [Calls -> {"idle", "pick", "miss", "count", "prune", "calling"}]
    /\ obj \in [Calls -> 0..MaxObjects] /\ kept \in [Calls -> BOOLEAN]
    /\ want \in [Calls -> Seq(Addrs)]
    /\ DOMAIN chosen = Calls /\ nodes \in [Calls -> SUBSET Addrs]

\* What a p2c call looks up last is the node it takes.
LooksUp(c) ==
    /\ call[c] \in {"pick", "miss"} => obj[c] = 0
    /\ call[c] = "idle" => obj[c] = 0
    /\ call[c] = "miss" => want[c] # <<>>
    /\ call[c] \notin {"pick", "miss"} => want[c] = <<>>
    /\ want[c] # <<>> => strategy = "p2c" /\ chosen[c] = want[c][Len(want[c])]

\* Until a prune hits its node, a call's object is the one of its address.
Holds(c) ==
    /\ call[c] \in {"count", "prune"} => obj[c] # 0
    /\ obj[c] # 0 => chosen[c] \in Addrs /\ (kept[c] => state[chosen[c]] = obj[c])

SelectInv ==
    /\ SelectTypes
    /\ \A c \in Calls : LooksUp(c) /\ Holds(c)
    /\ \A o \in 1..MaxObjects : inflight[o] = Cardinality(HoldersOf(o))

\* A step that leaves the loads, the objects of the counted and the phases of
\* all but a call that is not counted, leaves every count as it is.
LEMMA SameHolders ==
  ASSUME SelectInv, UNCHANGED inflight,
         \A d \in Calls : /\ (call'[d] \in {"prune", "calling"} /\ obj'[d] # 0)
                             <=> (call[d] \in {"prune", "calling"} /\ obj[d] # 0)
                          /\ call[d] \in {"prune", "calling"} /\ obj[d] # 0 => obj'[d] = obj[d]
  PROVE  \A o \in 1..MaxObjects : inflight'[o] = Cardinality(HoldersOf(o)')
<1> TAKE o \in 1..MaxObjects
<1>1. HoldersOf(o)' = HoldersOf(o)
  BY DEF HoldersOf
<1> QED
  BY <1>1 DEF SelectInv

LEMMA EmptyIsShort == ASSUME NEW S, NEW s \in Seq(S) PROVE (s = <<>>) <=> (Len(s) = 0)
  OBVIOUS

LEMMA LastOfTail ==
  ASSUME NEW s \in Seq(Addrs), s # <<>>
  PROVE  /\ Head(s) \in Addrs /\ Tail(s) \in Seq(Addrs) /\ Len(s) \in Nat
         /\ Len(s) = 1 => Tail(s) = <<>> /\ Head(s) = s[Len(s)]
         /\ Len(s) # 1 => Tail(s) # <<>> /\ Tail(s)[Len(Tail(s))] = s[Len(s)]
<1>1. Head(s) = s[1] /\ Len(s) \in Nat /\ Len(s) >= 1 /\ Len(Tail(s)) = Len(s) - 1 /\ Tail(s) \in Seq(Addrs)
      /\ Head(s) \in Addrs /\ \A i \in 1..Len(Tail(s)) : Tail(s)[i] = s[i + 1]
  BY TailFacts
<1>2. (Tail(s) = <<>>) <=> (Len(Tail(s)) = 0)
  BY <1>1, EmptyIsShort, Zenon
<1> DEFINE t == Tail(s)
           n == Len(s)
<1>3. Len(t) = n - 1 /\ n \in Nat /\ n >= 1 /\ ((t = <<>>) <=> (Len(t) = 0)) /\ Head(s) = s[1]
      /\ \A i \in 1..Len(t) : t[i] = s[i + 1]
  BY <1>1, <1>2
<1> HIDE DEF t, n
<1>4. CASE n = 1
  BY <1>1, <1>3, <1>4 DEF t, n
<1>5. CASE n # 1
  <2>1. Len(t) \in 1..Len(t) /\ Len(t) + 1 = n /\ Len(t) # 0
    BY <1>3, <1>5
  <2>2. t # <<>> /\ t[Len(t)] = s[n]
    BY <1>3, <2>1
  <2> QED
    BY <1>1, <1>5, <2>2 DEF t, n
<1> QED
  BY <1>4, <1>5

\* The last object looked up is the one everyone reads for the call's node.
LEMMA FoundStep ==
  ASSUME SelectInv, NEW c \in Calls, call[c] \in {"pick", "miss"}, want[c] # <<>>,
         NEW o \in 1..MaxObjects, Select!Found(c, o),
         state' \in [Addrs -> 0..MaxObjects], made' \in 0..MaxObjects,
         state'[Head(want[c])] = o,
         \A a \in Addrs : state[a] # 0 => state'[a] = state[a],
         UNCHANGED <<strategy, members, inflight, nodes, chosen>>
  PROVE  SelectInv'
<1> USE DEF SelectTypes
<1>0. SelectTypes /\ want[c] \in Seq(Addrs) /\ want' = [want EXCEPT ![c] = Tail(want[c])] /\ obj[c] = 0
  BY DEF SelectInv, LooksUp, Select!Found
<1>1. /\ Head(want[c]) \in Addrs /\ Tail(want[c]) \in Seq(Addrs) /\ Len(want[c]) \in Nat
      /\ Len(want[c]) = 1 => Tail(want[c]) = <<>> /\ Head(want[c]) = chosen[c]
      /\ Len(want[c]) # 1 => Tail(want[c]) # <<>> /\ chosen[c] = Tail(want[c])[Len(Tail(want[c]))]
      /\ strategy = "p2c"
  <2>1. strategy = "p2c" /\ chosen[c] = want[c][Len(want[c])]
    BY DEF SelectInv, LooksUp
  <2> QED
    BY <1>0, <2>1, LastOfTail
<1>2. CASE Len(want[c]) = 1
  <2>1. obj' = [obj EXCEPT ![c] = o] /\ kept' = [kept EXCEPT ![c] = TRUE] /\ call' = [call EXCEPT ![c] = "count"]
    BY <1>2 DEF Select!Found
  <2>2. SelectTypes'
    BY <1>0, <1>1, <2>1
  <2>3. \A d \in Calls : LooksUp(d)'
    BY <1>0, <1>1, <1>2, <2>1 DEF SelectInv, LooksUp
  <2>4. \A d \in Calls : Holds(d)'
    BY <1>0, <1>1, <1>2, <2>1 DEF SelectInv, Holds
  <2>5. \A p \in 1..MaxObjects : inflight'[p] = Cardinality(HoldersOf(p)')
    BY <1>0, <2>1, SameHolders
  <2> QED
    BY <2>2, <2>3, <2>4, <2>5 DEF SelectInv
<1>3. CASE Len(want[c]) # 1
  <2>1. call' = [call EXCEPT ![c] = "pick"] /\ UNCHANGED <<obj, kept>>
    BY <1>3 DEF Select!Found
  <2>2. SelectTypes'
    BY <1>0, <1>1, <2>1
  <2>3. \A d \in Calls : LooksUp(d)'
    BY <1>0, <1>1, <1>3, <2>1 DEF SelectInv, LooksUp
  <2>4. \A d \in Calls : Holds(d)'
    BY <1>0, <1>1, <1>3, <2>1, SMTT(60) DEF SelectInv, Holds
  <2>5. \A p \in 1..MaxObjects : inflight'[p] = Cardinality(HoldersOf(p)')
    BY <1>0, <2>1, SameHolders
  <2> QED
    BY <2>2, <2>3, <2>4, <2>5 DEF SelectInv
<1> QED
  BY <1>2, <1>3

\* A call joins its object's count once, and leaves it once.
LEMMA HoldersMove ==
  ASSUME SelectInv, NEW c \in Calls, NEW p \in 1..MaxObjects, obj[c] = p,
         \A d \in Calls \ {c} : call'[d] = call[d] /\ obj'[d] = obj[d]
  PROVE  /\ \A o \in (1..MaxObjects) \ {p} : obj'[c] \in {p, 0} => HoldersOf(o)' = HoldersOf(o)
         /\ call[c] = "count" /\ call'[c] = "prune" /\ obj'[c] = p =>
              Cardinality(HoldersOf(p)') = Cardinality(HoldersOf(p)) + 1
         /\ call[c] = "calling" /\ call'[c] = "idle" =>
              Cardinality(HoldersOf(p)') = Cardinality(HoldersOf(p)) - 1 /\ Cardinality(HoldersOf(p)) >= 1
<1>1. IsFiniteSet(HoldersOf(p)) /\ Cardinality(HoldersOf(p)) \in Nat
  BY CallsCountable, FS_Subset, FS_CardinalityType DEF HoldersOf
<1>2. \A o \in (1..MaxObjects) \ {p} : obj'[c] \in {p, 0} => HoldersOf(o)' = HoldersOf(o)
  BY CallsCountable DEF HoldersOf
<1>3. ASSUME call[c] = "count", call'[c] = "prune", obj'[c] = p
      PROVE  Cardinality(HoldersOf(p)') = Cardinality(HoldersOf(p)) + 1
  <2>1. c \notin HoldersOf(p) /\ HoldersOf(p)' = HoldersOf(p) \cup {c}
    BY <1>3 DEF HoldersOf
  <2> QED
    BY <1>1, <2>1, FS_AddElement
<1>4. ASSUME call[c] = "calling", call'[c] = "idle"
      PROVE  Cardinality(HoldersOf(p)') = Cardinality(HoldersOf(p)) - 1 /\ Cardinality(HoldersOf(p)) >= 1
  <2>1. c \in HoldersOf(p) /\ HoldersOf(p)' = HoldersOf(p) \ {c}
    BY <1>4 DEF HoldersOf
  <2>2. Cardinality(HoldersOf(p)') = Cardinality(HoldersOf(p)) - 1
    BY <1>1, <2>1, FS_RemoveElement
  <2>3. Cardinality(HoldersOf(p)) # 0
    BY <1>1, <2>1, FS_EmptySet
  <2> QED
    BY <1>1, <2>2, <2>3
<1> QED
  BY <1>2, <1>3, <1>4

LEMMA PickStep ==
  ASSUME SelectInv, NEW c \in Calls,
         Select!Snapshot(c) \/ Select!PickStateless(c) \/ Select!Draw(c)
  PROVE  SelectInv'
<1> USE DEF SelectTypes
<1>0. SelectTypes
  BY DEF SelectInv
<1>1. CASE Select!Snapshot(c)
  <2>1. nodes' = [nodes EXCEPT ![c] = Select!Candidates]
    BY <1>1 DEF Select!Snapshot
  <2>2. Select!Candidates \subseteq Addrs
    BY <1>0 DEF Select!Candidates
  <2>3. /\ call[c] = "idle" /\ call' = [call EXCEPT ![c] = "pick"]
        /\ UNCHANGED <<strategy, members, state, made, inflight, want, chosen, obj, kept>>
    BY <1>1 DEF Select!Snapshot, Select!config, Select!p2cVars
  <2>4. SelectTypes'
    BY <1>0, <2>1, <2>2, <2>3
  <2>5. \A d \in Calls : LooksUp(d)' /\ Holds(d)'
    BY <1>0, <2>3 DEF SelectInv, LooksUp, Holds
  <2>6. \A o \in 1..MaxObjects : inflight'[o] = Cardinality(HoldersOf(o)')
    BY <1>0, <2>3, SameHolders DEF SelectInv, LooksUp
  <2> QED
    BY <2>4, <2>5, <2>6 DEF SelectInv
<1>2. CASE Select!PickStateless(c)
  <2>1. \E x : chosen' = [chosen EXCEPT ![c] = x]
    BY <1>2 DEF Select!PickStateless
  <2>2. /\ call[c] = "pick" /\ strategy # "p2c" /\ call' = [call EXCEPT ![c] = "calling"]
        /\ UNCHANGED <<strategy, members, state, made, inflight, nodes, want, obj, kept>>
    BY <1>2 DEF Select!PickStateless, Select!config, Select!p2cVars
  <2>3. SelectTypes'
    BY <1>0, <2>1, <2>2
  <2>4. obj[c] = 0 /\ want[c] = <<>>
    BY <2>2 DEF SelectInv, LooksUp
  <2>5. \A d \in Calls : LooksUp(d)' /\ Holds(d)'
    BY <1>0, <2>1, <2>2, <2>4 DEF SelectInv, LooksUp, Holds
  <2>6. \A o \in 1..MaxObjects : inflight'[o] = Cardinality(HoldersOf(o)')
    BY <1>0, <2>2, <2>4, SameHolders
  <2> QED
    BY <2>3, <2>5, <2>6 DEF SelectInv
<1>3. CASE Select!Draw(c)
  <2>1. PICK a, b \in nodes[c] : \E t \in {a, b} :
          /\ chosen' = [chosen EXCEPT ![c] = t]
          /\ want' = [want EXCEPT ![c] = IF Select!Cardinality(nodes[c]) = 1 THEN <<t>> ELSE <<a, b, t>>]
    BY <1>3 DEF Select!Draw
  <2>2. PICK t \in {a, b} :
          /\ chosen' = [chosen EXCEPT ![c] = t]
          /\ want' = [want EXCEPT ![c] = IF Select!Cardinality(nodes[c]) = 1 THEN <<t>> ELSE <<a, b, t>>]
    BY <2>1
  <2>3. a \in Addrs /\ b \in Addrs /\ t \in Addrs
    BY <1>0
  <2>4. PICK w \in Seq(Addrs) : w # <<>> /\ w[Len(w)] = t /\ want' = [want EXCEPT ![c] = w]
    <3>1. <<t>> \in Seq(Addrs) /\ <<t>> # <<>> /\ <<t>>[Len(<<t>>)] = t
      BY <2>3
    <3>2. <<a, b, t>> \in Seq(Addrs) /\ <<a, b, t>> # <<>> /\ <<a, b, t>>[Len(<<a, b, t>>)] = t
      BY <2>3
    <3>3. CASE Select!Cardinality(nodes[c]) = 1
      BY <2>2, <3>1, <3>3
    <3>4. CASE Select!Cardinality(nodes[c]) # 1
      BY <2>2, <3>2, <3>4
    <3> QED
      BY <3>3, <3>4
  <2>5. /\ call[c] = "pick" /\ strategy = "p2c" /\ UNCHANGED <<strategy, members, state, made, inflight, call, nodes, obj, kept>>
    BY <1>3 DEF Select!Draw, Select!config, Select!p2cVars
  <2>6. SelectTypes'
    BY <1>0, <2>2, <2>4, <2>5
  <2>7. \A d \in Calls : LooksUp(d)' /\ Holds(d)'
    BY <1>0, <2>2, <2>4, <2>5 DEF SelectInv, LooksUp, Holds
  <2>8. \A o \in 1..MaxObjects : inflight'[o] = Cardinality(HoldersOf(o)')
    BY <1>0, <2>5, SameHolders
  <2> QED
    BY <2>6, <2>7, <2>8 DEF SelectInv
<1> QED
  BY <1>1, <1>2, <1>3

LEMMA SelectInvStep == SelectInv /\ [Select!Next]_selectVars => SelectInv'
<1> SUFFICES ASSUME SelectInv, [Select!Next]_selectVars
             PROVE  SelectInv'
  OBVIOUS
<1> USE DEF SelectTypes
<1>0. SelectTypes
  BY DEF SelectInv
<1>1. CASE UNCHANGED selectVars
  <2>1. UNCHANGED <<strategy, members, state, made, inflight, call, nodes, want, chosen, obj, kept>>
    BY <1>1 DEF selectVars
  <2>2. \A o \in 1..MaxObjects : HoldersOf(o)' = HoldersOf(o)
    BY <2>1 DEF HoldersOf
  <2> QED
    BY <2>1, <2>2 DEF SelectInv, LooksUp, Holds
<1>2. CASE Select!Build
  <2>1. UNCHANGED <<strategy, state, made, inflight, call, nodes, want, chosen, obj, kept>> /\ members' \subseteq Addrs
    BY <1>2 DEF Select!Build, Select!config, Select!p2cVars, Select!callVars
  <2>2. \A o \in 1..MaxObjects : HoldersOf(o)' = HoldersOf(o)
    BY <2>1 DEF HoldersOf
  <2> QED
    BY <2>1, <2>2 DEF SelectInv, LooksUp, Holds
<1>3. ASSUME NEW c \in Calls, Select!LookUp(c)
      PROVE  SelectInv'
  <2> DEFINE o == state[Head(want[c])]
  <2>1. /\ call[c] = "pick" /\ want[c] # <<>>
        /\ UNCHANGED <<strategy, members, state, made, inflight, nodes, chosen>>
    BY <1>3 DEF Select!LookUp, Select!config, Select!p2cVars
  <2>2. CASE o # 0
    <3>1. Select!Found(c, o) /\ o \in 1..MaxObjects
      BY <1>0, <1>3, <2>1, <2>2, CallsCountable, LastOfTail DEF Select!LookUp, Select!None
    <3> QED
      BY <1>0, <2>1, <3>1, FoundStep
  <2>3. CASE o = 0
    <3>1. call' = [call EXCEPT ![c] = "miss"] /\ UNCHANGED <<want, obj, kept>>
      BY <1>3, <2>3 DEF Select!LookUp, Select!None
    <3>2. \A d \in Calls : LooksUp(d)' /\ Holds(d)'
      BY <1>0, <2>1, <3>1 DEF SelectInv, LooksUp, Holds
    <3>3. \A p \in 1..MaxObjects : inflight'[p] = Cardinality(HoldersOf(p)')
      BY <1>0, <2>1, <3>1, SameHolders
    <3> QED
      BY <1>0, <2>1, <3>1, <3>2, <3>3 DEF SelectInv
  <2> QED
    BY <2>2, <2>3
<1>4. ASSUME NEW c \in Calls, Select!Create(c)
      PROVE  SelectInv'
  <2> DEFINE a == Head(want[c])
             o == state[a]
  <2>1. /\ call[c] = "miss" /\ want[c] # <<>> /\ a \in Addrs
        /\ UNCHANGED <<strategy, members, inflight, nodes, chosen>>
    BY <1>0, <1>4, LastOfTail DEF Select!Create, Select!config, SelectInv, LooksUp
  <2>2. CASE o # 0
    <3>1. Select!Found(c, o) /\ o \in 1..MaxObjects /\ UNCHANGED <<state, made>>
      BY <1>0, <1>4, <2>1, <2>2, CallsCountable DEF Select!Create, Select!None
    <3> QED
      BY <1>0, <2>1, <3>1, FoundStep
  <2>3. CASE o = 0
    <3> DEFINE n == made + 1
    <3>1. /\ made < MaxObjects /\ made' = n /\ Select!Found(c, n)
          /\ state' = [state EXCEPT ![a] = n]
      BY <1>4, <2>3 DEF Select!Create, Select!Make, Select!None
    <3>2. n \in 1..MaxObjects /\ n \in 0..MaxObjects
      BY <1>0, <3>1, CallsCountable
    <3> HIDE DEF n
    <3>3. state' \in [Addrs -> 0..MaxObjects] /\ state'[a] = n /\ \A x \in Addrs : state[x] # 0 => state'[x] = state[x]
      BY <1>0, <2>1, <2>3, <3>1, <3>2
    <3> QED
      BY <1>0, <2>1, <3>1, <3>2, <3>3, FoundStep
  <2> QED
    BY <2>2, <2>3
<1>5. ASSUME NEW c \in Calls, Select!Count(c)
      PROVE  SelectInv'
  <2> DEFINE p == obj[c]
  <2>1. /\ call[c] = "count" /\ call' = [call EXCEPT ![c] = "prune"]
        /\ inflight' = [inflight EXCEPT ![p] = inflight[p] + 1]
        /\ UNCHANGED <<strategy, members, state, made, nodes, want, chosen, obj, kept>>
    BY <1>5 DEF Select!Count, Select!config
  <2>2. p \in 1..MaxObjects
    BY <1>0, <2>1, CallsCountable DEF SelectInv, Holds
  <2>3. \A d \in Calls : LooksUp(d)' /\ Holds(d)'
    BY <1>0, <2>1 DEF SelectInv, LooksUp, Holds
  <2>4. \A o \in 1..MaxObjects : inflight'[o] = Cardinality(HoldersOf(o)')
    <3>1. \A d \in Calls \ {c} : call'[d] = call[d] /\ obj'[d] = obj[d]
      BY <1>0, <2>1
    <3>2. /\ \A o \in (1..MaxObjects) \ {p} : HoldersOf(o)' = HoldersOf(o)
          /\ Cardinality(HoldersOf(p)') = Cardinality(HoldersOf(p)) + 1
      BY <1>0, <2>1, <2>2, <3>1, HoldersMove
    <3> QED
      BY <1>0, <2>1, <2>2, <3>2 DEF SelectInv
  <2>5. SelectTypes'
    BY <1>0, <2>1, <2>2
  <2> QED
    BY <2>3, <2>4, <2>5 DEF SelectInv
<1>6. ASSUME NEW c \in Calls, Select!Prune(c)
      PROVE  SelectInv'
  <2>1. PICK drop : /\ state' = [a \in Addrs |-> IF a \in drop THEN 0 ELSE state[a]]
                    /\ kept' = [d \in Calls |-> kept[d] /\ chosen[d] \notin drop]
    BY <1>6 DEF Select!Prune, Select!None
  <2>2. /\ call[c] = "prune" /\ call' = [call EXCEPT ![c] = "calling"]
        /\ UNCHANGED <<strategy, members, made, inflight, nodes, want, chosen, obj>>
    BY <1>6 DEF Select!Prune, Select!config
  <2>3. \A d \in Calls : LooksUp(d)'
    BY <1>0, <2>2 DEF SelectInv, LooksUp
  <2>4. \A d \in Calls : Holds(d)'
    BY <1>0, <2>1, <2>2 DEF SelectInv, Holds
  <2>5. \A o \in 1..MaxObjects : inflight'[o] = Cardinality(HoldersOf(o)')
    BY <1>0, <2>2, SameHolders
  <2>6. SelectTypes'
    BY <1>0, <2>1, <2>2, CallsCountable
  <2> QED
    BY <2>3, <2>4, <2>5, <2>6 DEF SelectInv
<1>7. ASSUME NEW c \in Calls, Select!Done(c)
      PROVE  SelectInv'
  <2>1. /\ call[c] = "calling" /\ call' = [call EXCEPT ![c] = "idle"]
        /\ chosen' = [chosen EXCEPT ![c] = 0] /\ obj' = [obj EXCEPT ![c] = 0]
        /\ nodes' = [nodes EXCEPT ![c] = {}] /\ kept' = [kept EXCEPT ![c] = TRUE]
        /\ UNCHANGED <<strategy, members, state, made, want>>
    BY <1>7 DEF Select!Done, Select!config, Select!None
  <2>2. \A d \in Calls : LooksUp(d)' /\ Holds(d)'
    BY <1>0, <2>1 DEF SelectInv, LooksUp, Holds
  <2>3. inflight' \in [1..MaxObjects -> Nat] /\ \A o \in 1..MaxObjects : inflight'[o] = Cardinality(HoldersOf(o)')
    <3>1. CASE obj[c] = 0
      BY <1>0, <1>7, <2>1, <3>1, SameHolders DEF Select!Done, Select!None
    <3>2. CASE obj[c] # 0
      <4>p. PICK p \in 1..MaxObjects : p = obj[c]
        BY <1>0, <3>2, CallsCountable
      <4>1. \A d \in Calls \ {c} : call'[d] = call[d] /\ obj'[d] = obj[d]
        BY <1>0, <2>1
      <4>2. /\ \A o \in (1..MaxObjects) \ {p} : HoldersOf(o)' = HoldersOf(o)
            /\ Cardinality(HoldersOf(p)') = Cardinality(HoldersOf(p)) - 1
            /\ Cardinality(HoldersOf(p)) >= 1
        <5>1. obj[c] = p /\ obj'[c] \in {p, 0} /\ call[c] = "calling" /\ call'[c] = "idle"
          BY <1>0, <2>1, <4>p
        <5> QED
          BY <4>1, <5>1, HoldersMove
      <4>3. inflight' = [inflight EXCEPT ![p] = inflight[p] - 1]
        BY <1>7, <3>2, <4>p DEF Select!Done, Select!None
      <4>4. inflight[p] \in Nat /\ inflight[p] >= 1 /\ inflight[p] = Cardinality(HoldersOf(p))
        BY <1>0, <4>1, <4>2 DEF SelectInv
      <4>5. inflight' \in [1..MaxObjects -> Nat]
        BY <1>0, <4>1, <4>3, <4>4
      <4>6. inflight'[p] = Cardinality(HoldersOf(p)')
        BY <1>0, <4>1, <4>2, <4>3, <4>4
      <4>7. ASSUME NEW o \in (1..MaxObjects) \ {p}
            PROVE  inflight'[o] = Cardinality(HoldersOf(o)')
        <5>1. inflight'[o] = inflight[o] /\ inflight[o] = Cardinality(HoldersOf(o))
          BY <1>0, <4>1, <4>3, <4>7 DEF SelectInv
        <5> QED
          BY <4>2, <5>1
      <4> QED
        BY <4>5, <4>6, <4>7
    <3> QED
      BY <3>1, <3>2
  <2>4. SelectTypes'
    BY <1>0, <2>1, <2>3, CallsCountable, SMTT(30)
  <2> QED
    BY <2>2, <2>3, <2>4 DEF SelectInv
<1> QED
  BY <1>1, <1>2, <1>3, <1>4, <1>5, <1>6, <1>7, PickStep DEF Select!Next

LEMMA ClientInvInit == AllInit => SelectInv /\ NamedInv
<1> SUFFICES ASSUME AllInit
             PROVE  SelectInv /\ NamedInv
  OBVIOUS
<1>1. NamedInv
  BY CallsCountable DEF AllInit, Named!Init, Named!None, NamedInv
<1>2. SelectTypes
  BY CallsCountable DEF AllInit, Select!Init, Select!None, SelectTypes
<1>3. \A c \in Calls : LooksUp(c) /\ Holds(c)
  BY DEF AllInit, Select!Init, Select!None, LooksUp, Holds
<1>4. \A o \in 1..MaxObjects : inflight[o] = Cardinality(HoldersOf(o))
  <2>1. \A o \in 1..MaxObjects : HoldersOf(o) = {} /\ inflight[o] = 0
    BY DEF AllInit, Select!Init, HoldersOf
  <2> QED
    BY <2>1, FS_EmptySet
<1> QED
  BY <1>1, <1>2, <1>3, <1>4 DEF SelectInv

LEMMA ClientInvCounts == SelectInv /\ NamedInv => CallsCounted
<1> SUFFICES ASSUME SelectInv, NamedInv
             PROVE  CallsCounted
  OBVIOUS
<1>1. Named!SignalInOneWindow
  BY CallsCountable DEF NamedInv, Named!SignalInOneWindow, Named!None
<1>2. \A S : Select!Cardinality(S) = Cardinality(S)
  BY DEF Select!Cardinality, Cardinality
<1> DEFINE Counted == {c \in Calls : obj[c] # 0 /\ call[c] \in {"prune", "calling"}}
<1>3. \A o \in 1..MaxObjects : {c \in Counted : obj[c] = o} = HoldersOf(o)
  BY CallsCountable DEF HoldersOf
<1>4. Select!CallsCounted
  BY <1>2, <1>3 DEF SelectInv, Holds, Select!CallsCounted, Select!None
<1> QED
  BY <1>1, <1>4 DEF CallsCounted

\* For any number of concurrent calls, addresses and breakers: however lookups,
\* creations, prunes, updates and DoneFuncs cross, p2c's load of an object is
\* the number of calls that hold it and a call is counted where its address is
\* looked up until a prune; and the breaker under a name has exactly the results
\* of the requests since its last reset.
THEOREM CallsAlwaysCounted == AllSpec => []CallsCounted
<1>1. SelectInv /\ NamedInv /\ [AllNext]_allVars => SelectInv' /\ NamedInv'
  BY PartsMove, SelectInvStep, NamedInvStep
<1> QED
  BY <1>1, SafetyOfAll, ClientInvInit, ClientInvCounts, PTL

-----------------------------------------------------------------------------
(* Selectors: the weighted draw.                                           *)

\* The loop's state after a node.
Drawn(acc, a) ==
    IF acc.at # 0 THEN acc
    ELSE IF acc.r < Select!effectiveWeight(a) THEN [acc EXCEPT !.at = a]
    ELSE [acc EXCEPT !.r = @ - Select!effectiveWeight(a)]

LEMMA PickUnfolds ==
  ASSUME NEW list, NEW r
  PROVE  Select!weightedPick(list, r) =
           (CHOOSE f : f = [s \in SUBSET (DOMAIN list) |->
              IF s = {} THEN [r |-> r, at |-> 0]
              ELSE Drawn(f[s \ {Select!Max(s)}], list[Select!Max(s)])])[DOMAIN list].at
  BY Zenon DEF Select!weightedPick, Select!FoldLeft, Select!MapThenFoldSet, Select!None, Drawn

LEMMA TotalUnfolds ==
  ASSUME NEW list
  PROVE  Select!total(list) =
           (CHOOSE f : f = [s \in SUBSET (DOMAIN list) |->
              IF s = {} THEN 0
              ELSE Select!effectiveWeight(list[CHOOSE x \in s : TRUE]) + f[s \ {CHOOSE x \in s : TRUE}]])[DOMAIN list]
  BY Zenon DEF Select!total, Select!FoldSeq, Select!FoldFunction, Select!FoldFunctionOnSet, Select!MapThenFoldSet

LEMMA SelectCardinality == ASSUME NEW S PROVE Select!Cardinality(S) = Cardinality(S)
  BY Zenon DEF Select!Cardinality, Cardinality

\* The nodes in some order, each an address with a weight.
Order(list, N) == N \in Nat /\ list \in [1..N -> Addrs] /\ weight \in [Addrs -> Nat] /\ 0 \notin Addrs

WeightsOf(list, N) == [x \in 1..N |-> Select!effectiveWeight(list[x])]

\* P[k], the weights of the first k nodes.
Prefixes(list, N, P) ==
    /\ P \in [0..N -> Nat] /\ P[0] = 0 /\ Select!total(list) = P[N]
    /\ \A k \in 1..N : P[k] = P[k - 1] + Select!effectiveWeight(list[k]) /\ P[k] <= P[N]

LEMMA WeightPositive ==
  ASSUME NEW list, NEW N, Order(list, N), NEW k \in 1..N
  PROVE  Select!effectiveWeight(list[k]) \in Nat \ {0} /\ list[k] \in Addrs /\ list[k] # 0
<1>1. list[k] \in Addrs /\ weight[list[k]] \in Nat
  BY DEF Order
<1>2. QED
  BY <1>1 DEF Order, Select!effectiveWeight

LEMMA PrefixesExist ==
  ASSUME NEW list, NEW N, Order(list, N)
  PROVE  \E P : Prefixes(list, N, P)
<1> DEFINE S == 1..N
           n == WeightsOf(list, N)
           W(x) == Select!effectiveWeight(list[x])
<1>0. N \in Nat /\ DOMAIN list = S /\ IsFiniteSet(S)
  BY FS_Interval DEF Order
<1>1. \A x \in S : W(x) \in Nat /\ n[x] = W(x)
  BY WeightPositive DEF WeightsOf
<1> HIDE DEF n
<1>2. Counts(n, S)
  BY <1>1 DEF Counts
<1>3. PICK g \in [SUBSET S -> Nat] : Sums(n, S, g)
  BY <1>0, <1>2, SumsExist
<1> DEFINE IsTotal(f) == f = [s \in SUBSET S |->
               IF s = {} THEN 0 ELSE W(CHOOSE x \in s : TRUE) + f[s \ {CHOOSE x \in s : TRUE}]]
           h == CHOOSE f : IsTotal(f)
<1>4. Select!total(list) = h[S]
  <2>1. Select!total(list) =
           (CHOOSE f : f = [s \in SUBSET (DOMAIN list) |->
              IF s = {} THEN 0
              ELSE Select!effectiveWeight(list[CHOOSE x \in s : TRUE]) + f[s \ {CHOOSE x \in s : TRUE}]])[DOMAIN list]
    BY TotalUnfolds
  <2>2. QED
    BY <1>0, <2>1, Zenon
<1>5. \A s \in SUBSET S : s # {} => n[CHOOSE x \in s : TRUE] = W(CHOOSE x \in s : TRUE)
  BY <1>1
<1>6. IsTotal(g)
  <2>1. \A s \in SUBSET S : g[s] = IF s = {} THEN 0 ELSE W(CHOOSE x \in s : TRUE) + g[s \ {CHOOSE x \in s : TRUE}]
    BY <1>3, <1>5 DEF Sums, Pick
  <2>2. QED
    BY <2>1
<1>7. IsTotal(h)
  BY <1>6, Zenon
<1>8. Sums(n, S, h)
  <2> HIDE DEF h
  <2>1. \A s \in SUBSET S : h[s] = IF s = {} THEN 0 ELSE W(CHOOSE x \in s : TRUE) + h[s \ {CHOOSE x \in s : TRUE}]
    BY <1>7
  <2>2. QED
    BY <2>1, <1>5 DEF Sums, Pick
<1> HIDE DEF h
<1>9. h[S] = g[S]
  <2>1. S \in SUBSET S
    OBVIOUS
  <2>2. QED
    BY <1>0, <1>3, <1>8, <2>1, SumsAgree
<1>10. AnyOrder(n, S, g)
  BY <1>0, <1>2, <1>3, SumsAnyOrder
<1> DEFINE P == [k \in 0..N |-> g[1..k]]
<1>11. P \in [0..N -> Nat] /\ P[0] = 0 /\ P[N] = g[S]
  <2>1. \A k \in 0..N : 1..k \in SUBSET S
    BY <1>0
  <2>e. 1..0 = {}
    OBVIOUS
  <2>f. g[{}] = 0
    <3>1. {} \in SUBSET S
      OBVIOUS
    <3>2. QED
      BY <1>3, <3>1, Zenon DEF Sums
  <2>2. g[1..0] = 0
    BY <2>e, <2>f
  <2>3. P \in [0..N -> Nat]
    BY <2>1
  <2>4. P[0] = g[1..0] /\ P[N] = g[1..N]
    BY <1>0
  <2>5. QED
    BY <2>2, <2>3, <2>4
<1>12. ASSUME NEW k \in 1..N PROVE P[k] = P[k - 1] + W(k) /\ P[k] <= P[N]
  <2>1. k \in 0..N /\ k - 1 \in 0..N /\ 1..k \in SUBSET S /\ k \in 1..k /\ (1..k) \ {k} = 1..(k - 1)
    BY <1>0
  <2>2. g[1..k] = n[k] + g[(1..k) \ {k}]
    BY <1>10, <2>1 DEF AnyOrder
  <2>3. P[k] = g[1..k] /\ P[k - 1] = g[1..(k - 1)]
    BY <2>1
  <2>4. g[1..k] <= g[S]
    <3>1. \A t \in SUBSET S : \A s \in SUBSET t : g[s] <= g[t]
      BY <1>0, <1>2, <1>3, SumsGrow
    <3>2. QED
      BY <2>1, <3>1
  <2>5. P[k] \in Nat /\ P[k - 1] \in Nat /\ n[k] = W(k) /\ W(k) \in Nat
    BY <1>1, <1>11, <2>1
  <2>6. P[k] = n[k] + P[k - 1]
    BY <2>1, <2>2, <2>3
  <2> HIDE DEF P, W
  <2>7. QED
    BY <1>11, <2>3, <2>4, <2>5, <2>6
<1>13. Prefixes(list, N, P)
  <2> HIDE DEF P
  <2>1. QED
    BY <1>4, <1>9, <1>11, <1>12 DEF Prefixes
<1>14. QED
  BY <1>13

LEMMA MaxOfUpTo == ASSUME NEW k \in Nat \ {0} PROVE Select!Max(1..k) = k
<1>1. \A x \in 1..k : (\A y \in 1..k : x >= y) <=> x = k
  OBVIOUS
<1>2. \E x \in 1..k : \A y \in 1..k : x >= y
  BY <1>1
<1>3. QED
  BY <1>1, <1>2 DEF Select!Max

LEMMA MaxOfPart == ASSUME NEW N \in Nat, NEW s \in SUBSET (1..N), s # {} PROVE Select!Max(s) \in s
<1>1. s \in SUBSET (0..N)
  OBVIOUS
<1>2. \E x \in s : \A y \in s : x >= y
  BY <1>1, GreatestNumber
<1>3. QED
  BY <1>2 DEF Select!Max

\* The loop over the nodes: where it is after the first k.
LoopStates == [r : Int, at : Addrs \cup {0}]

LEMMA PickLoops ==
  ASSUME NEW list, NEW N, Order(list, N), NEW r \in Nat
  PROVE  \E h : /\ h[{}] = [r |-> r, at |-> 0]
                /\ \A k \in 1..N : h[1..k] = Drawn(h[1..(k - 1)], list[k])
                /\ Select!weightedPick(list, r) = h[1..N].at
<1> DEFINE S == 1..N
           m(s) == Select!Max(s)
           IsLoop(f) == f = [s \in SUBSET S |-> IF s = {} THEN [r |-> r, at |-> 0]
                                                ELSE Drawn(f[s \ {m(s)}], list[m(s)])]
           h == CHOOSE f : IsLoop(f)
<1>0. N \in Nat /\ DOMAIN list = S /\ IsFiniteSet(S)
  BY FS_Interval DEF Order
<1>1. Select!weightedPick(list, r) = h[S].at
  BY <1>0, PickUnfolds, Zenon
<1>2. \E f : IsLoop(f)
  <2> DEFINE p == [s \in SUBSET S |-> m(s)]
             G == [s \in SUBSET S |-> [v \in LoopStates |-> Drawn(v, list[m(s)])]]
  <2>1. \A s \in SUBSET S : s # {} => p[s] = m(s) /\ m(s) \in s
    BY <1>0, MaxOfPart
  <2>2. \A s \in SUBSET S : \A v \in LoopStates : G[s][v] = Drawn(v, list[m(s)])
    OBVIOUS
  <2>3. \A v \in LoopStates, k \in 1..N : Drawn(v, list[k]) \in LoopStates
    <3> SUFFICES ASSUME NEW v \in LoopStates, NEW k \in 1..N PROVE Drawn(v, list[k]) \in LoopStates
      OBVIOUS
    <3>1. Select!effectiveWeight(list[k]) \in Nat /\ list[k] \in Addrs
      BY WeightPositive
    <3>2. QED
      BY <3>1 DEF Drawn, LoopStates
  <2> HIDE DEF p, G
  <2>4. [r |-> r, at |-> 0] \in LoopStates
    BY DEF LoopStates
  <2>5. Folding(S, p, [r |-> r, at |-> 0], G, LoopStates)
    BY <2>1, <2>2, <2>3, <2>4 DEF Folding
  <2>6. PICK g \in [SUBSET S -> LoopStates] : FoldsTo(S, p, [r |-> r, at |-> 0], G, g)
    BY <1>0, <2>5, FoldExists
  <2>7. ASSUME NEW s \in SUBSET S
        PROVE  g[s] = IF s = {} THEN [r |-> r, at |-> 0] ELSE Drawn(g[s \ {m(s)}], list[m(s)])
    <3>1. CASE s = {}
      BY <3>1, <2>6 DEF FoldsTo
    <3>2. CASE s # {}
      <4>1. g[s] = G[s][g[s \ {m(s)}]]
        BY <3>2, <2>1, <2>6 DEF FoldsTo
      <4>2. g[s \ {m(s)}] \in LoopStates
        OBVIOUS
      <4>3. QED
        BY <3>2, <4>1, <4>2, <2>2
    <3>3. QED
      BY <3>1, <3>2
  <2>8. IsLoop(g)
    BY <2>7
  <2>9. QED
    BY <2>8
<1>3. IsLoop(h)
  BY <1>2, Zenon
<1> HIDE DEF h
<1>4. h[{}] = [r |-> r, at |-> 0]
  BY <1>3
<1>5. ASSUME NEW k \in 1..N PROVE h[1..k] = Drawn(h[1..(k - 1)], list[k])
  <2>1. 1..k \in SUBSET S /\ 1..k # {} /\ (1..k) \ {k} = 1..(k - 1) /\ k \in Nat \ {0}
    BY <1>0
  <2>2. m(1..k) = k
    BY <2>1, MaxOfUpTo
  <2>3. h[1..k] = Drawn(h[(1..k) \ {m(1..k)}], list[m(1..k)])
    BY <1>3, <2>1
  <2>4. QED
    BY <2>1, <2>2, <2>3
<1>6. QED
  BY <1>1, <1>4, <1>5

\* The loop after the first k nodes: all of them passed, or r fell to one.
LoopAt(list, P, h, r, k) ==
    /\ r >= P[k] => h[1..k] = [r |-> r - P[k], at |-> 0]
    /\ \A j \in 1..k : P[j - 1] <= r /\ r < P[j] => h[1..k].at = list[j]

LEMMA LoopNext ==
  ASSUME NEW list, NEW N, Order(list, N), NEW r \in Nat, NEW P, Prefixes(list, N, P),
         NEW h, NEW k \in 1..N, h[1..k] = Drawn(h[1..(k - 1)], list[k]), LoopAt(list, P, h, r, k - 1)
  PROVE  LoopAt(list, P, h, r, k)
<1> DEFINE w == Select!effectiveWeight(list[k])
           a == P[k - 1]
           b == P[k]
           before == h[1..(k - 1)]
<1>0. N \in Nat /\ k - 1 \in 0..N /\ k \in 0..N
  BY DEF Order
<1>1. w \in Nat \ {0} /\ list[k] # 0
  BY WeightPositive
<1>2. a \in Nat /\ b \in Nat /\ b = a + w
  BY <1>0 DEF Prefixes
<1>3. h[1..k] = Drawn(before, list[k])
  OBVIOUS
<1>4. r >= a => before = [r |-> r - a, at |-> 0]
  BY DEF LoopAt
<1> HIDE DEF w, a, b, before
<1>5. ASSUME r >= b PROVE h[1..k] = [r |-> r - b, at |-> 0]
  <2>1. r >= a /\ ~(r - a < w) /\ (r - a) - w = r - b
    BY <1>1, <1>2, <1>5
  <2>2. before = [r |-> r - a, at |-> 0]
    BY <1>4, <2>1
  <2>3. Drawn(before, list[k]) = [before EXCEPT !.r = before.r - w]
    BY <2>1, <2>2 DEF Drawn, w
  <2>4. [before EXCEPT !.r = before.r - w] = [r |-> (r - a) - w, at |-> 0]
    BY <2>2
  <2>5. QED
    BY <1>3, <2>1, <2>3, <2>4
<1>6. ASSUME NEW j \in 1..k, P[j - 1] <= r, r < P[j] PROVE h[1..k].at = list[j]
  <2>1. CASE j = k
    <3>1. r >= a /\ r < b
      BY <1>2, <1>6, <2>1 DEF a, b
    <3>2. r - a < w
      BY <1>1, <1>2, <3>1
    <3>3. before = [r |-> r - a, at |-> 0]
      BY <1>4, <3>1
    <3>4. Drawn(before, list[k]) = [before EXCEPT !.at = list[k]]
      BY <3>2, <3>3 DEF Drawn, w
    <3>5. QED
      BY <1>3, <2>1, <3>3, <3>4
  <2>2. CASE j # k
    <3>1. j \in 1..(k - 1) /\ j \in 1..N
      BY <1>0, <2>2
    <3>2. before.at = list[j]
      BY <1>6, <3>1 DEF LoopAt, before
    <3>3. list[j] # 0
      BY <3>1, WeightPositive
    <3>4. QED
      BY <1>3, <3>2, <3>3 DEF Drawn
  <2>3. QED
    BY <2>1, <2>2
<1>7. QED
  BY <1>5, <1>6 DEF LoopAt, b

\* r falls to the node whose stretch of the numbers holds it.
LEMMA PickIsStretch ==
  ASSUME NEW list, NEW N, Order(list, N), NEW r \in Nat, NEW P, Prefixes(list, N, P),
         NEW j \in 1..N, P[j - 1] <= r, r < P[j]
  PROVE  Select!weightedPick(list, r) = list[j]
<1>0. N \in Nat
  BY DEF Order
<1>1. PICK h : /\ h[{}] = [r |-> r, at |-> 0]
               /\ \A k \in 1..N : h[1..k] = Drawn(h[1..(k - 1)], list[k])
               /\ Select!weightedPick(list, r) = h[1..N].at
  BY PickLoops
<1> DEFINE F == {k \in 0..N : ~LoopAt(list, P, h, r, k)}
<1>2. F = {}
  <2> SUFFICES ASSUME F # {} PROVE FALSE
    OBVIOUS
  <2>1. F \in SUBSET Nat
    BY <1>0
  <2>2. PICK k \in F : \A y \in F : k <= y
    BY <2>1, LeastNumber
  <2>3. k \in 0..N /\ ~LoopAt(list, P, h, r, k)
    OBVIOUS
  <2>4. LoopAt(list, P, h, r, 0)
    <3>1. 1..0 = {} /\ P[0] = 0 /\ r - 0 = r
      BY DEF Prefixes
    <3>2. h[1..0] = [r |-> r - P[0], at |-> 0]
      BY <1>1, <3>1
    <3>3. \A i \in 1..0 : FALSE
      OBVIOUS
    <3>4. QED
      BY <3>2, <3>3 DEF LoopAt
  <2>5. k \in 1..N /\ k - 1 \in 0..N /\ ~(k <= k - 1)
    BY <1>0, <2>3, <2>4
  <2>6. LoopAt(list, P, h, r, k - 1)
    BY <2>2, <2>5
  <2>7. h[1..k] = Drawn(h[1..(k - 1)], list[k])
    BY <1>1, <2>5
  <2>8. QED
    BY <2>3, <2>5, <2>6, <2>7, LoopNext
<1>3. LoopAt(list, P, h, r, N)
  BY <1>0, <1>2
<1>4. h[1..N].at = list[j]
  BY <1>3 DEF LoopAt
<1>5. QED
  BY <1>1, <1>4

\* Every number below the total is in the stretch of some node.
LEMMA StretchExists ==
  ASSUME NEW list, NEW N, Order(list, N), NEW P, Prefixes(list, N, P), NEW r \in Nat, r < P[N]
  PROVE  \E j \in 1..N : P[j - 1] <= r /\ r < P[j]
<1> DEFINE T == {k \in 0..N : r < P[k]}
<1>0. N \in Nat /\ N \in 0..N
  BY DEF Order
<1>1. T \in SUBSET Nat /\ T # {}
  BY <1>0
<1>2. PICK j \in T : \A y \in T : j <= y
  BY <1>1, LeastNumber
<1>3. j # 0 /\ j \in 0..N /\ r < P[j]
  BY <1>2 DEF Prefixes
<1>4. j \in 1..N /\ j - 1 \in 0..N /\ ~(j <= j - 1)
  BY <1>0, <1>3
<1>5. ~(r < P[j - 1]) /\ P[j - 1] \in Nat
  BY <1>2, <1>4 DEF Prefixes
<1>6. P[j - 1] <= r
  BY <1>5
<1>7. QED
  BY <1>3, <1>4, <1>6

\* Every node of a candidate list, and the weights it is drawn by.
LEMMA ListOf ==
  ASSUME NEW S \in SUBSET Addrs, IsFiniteSet(S), weight \in [Addrs -> Nat], 0 \notin Addrs,
         NEW list \in Select!SetToSeqs(S)
  PROVE  /\ Order(list, Cardinality(S))
         /\ \A a \in S : \E m \in 1..Cardinality(S) : list[m] = a
         /\ \A i, j \in 1..Cardinality(S) : i # j => list[i] # list[j]
         /\ \A i \in 1..Cardinality(S) : list[i] \in S
<1> DEFINE N == Cardinality(S)
<1>0. N \in Nat /\ Select!Cardinality(S) = N
  BY SelectCardinality, FS_CardinalityType
<1>1. list \in [1..N -> S] /\ \A i, j \in 1..N : i # j => list[i] # list[j]
  BY <1>0 DEF Select!SetToSeqs
<1> HIDE DEF N
<1>2. list \in Injection(1..N, S)
  BY <1>1 DEF Injection, IsInjective
<1>3. IsFiniteSet(1..N) /\ Cardinality(1..N) = N
  BY <1>0, FS_Interval
<1>4. list \in Surjection(1..N, S)
  BY <1>2, <1>3, FS_Injection DEF N
<1>5. \A a \in S : \E m \in 1..N : list[m] = a
  BY <1>4 DEF Surjection
<1>6. Order(list, N)
  BY <1>0, <1>1 DEF Order
<1>7. QED
  BY <1>1, <1>5, <1>6 DEF N

\* A node is drawn for as many numbers as its weight.
LEMMA DrawnByWeight ==
  ASSUME NEW S \in SUBSET Addrs, IsFiniteSet(S), weight \in [Addrs -> Nat], 0 \notin Addrs,
         NEW list \in Select!SetToSeqs(S), NEW a \in S
  PROVE  Cardinality({r \in 0..(Select!total(list) - 1) : Select!weightedPick(list, r) = a}) = Select!effectiveWeight(a)
<1> DEFINE N == Cardinality(S)
<1>1. Order(list, N) /\ \A i, j \in 1..N : i # j => list[i] # list[j]
  BY ListOf
<1>2. PICK m \in 1..N : list[m] = a
  BY ListOf
<1>3. PICK P : Prefixes(list, N, P)
  BY <1>1, PrefixesExist
<1> DEFINE w == Select!effectiveWeight(a)
           l == P[m - 1]
           u == P[m]
           t == P[N]
<1>4. w \in Nat \ {0} /\ N \in Nat
  BY <1>1, <1>2, WeightPositive DEF Order
<1> HIDE DEF N
<1>5. l \in Nat /\ u \in Nat /\ t \in Nat /\ u = l + w /\ u <= t /\ Select!total(list) = t
  <2>1. m - 1 \in 0..N /\ m \in 0..N /\ N \in 0..N
    BY <1>4
  <2>2. QED
    BY <1>2, <1>3, <2>1 DEF Prefixes
<1> HIDE DEF w
<1>6. \A r \in 0..(t - 1) : (Select!weightedPick(list, r) = a) <=> (l <= r /\ r < u)
  <2> SUFFICES ASSUME NEW r \in 0..(t - 1) PROVE (Select!weightedPick(list, r) = a) <=> (l <= r /\ r < u)
    OBVIOUS
  <2>1. r \in Nat /\ r < P[N]
    BY <1>5
  <2>2. ASSUME l <= r, r < u PROVE Select!weightedPick(list, r) = a
    <3>1. P[m - 1] <= r /\ r < P[m]
      BY <2>2
    <3>2. Select!weightedPick(list, r) = list[m]
      BY <1>1, <1>3, <2>1, <3>1, PickIsStretch
    <3>3. QED
      BY <1>2, <3>2
  <2>3. ASSUME Select!weightedPick(list, r) = a PROVE l <= r /\ r < u
    <3>1. PICK j \in 1..N : P[j - 1] <= r /\ r < P[j]
      BY <1>1, <1>3, <2>1, StretchExists
    <3>2. Select!weightedPick(list, r) = list[j]
      BY <1>1, <1>3, <2>1, <3>1, PickIsStretch
    <3>3. j = m
      BY <1>1, <1>2, <2>3, <3>2
    <3>4. QED
      BY <3>1, <3>3
  <2>4. QED
    BY <2>2, <2>3
<1> HIDE DEF l, u, t
<1>7. \A r : r \in 0..(t - 1) /\ l <= r /\ r < u <=> r \in l..(u - 1)
  BY <1>5
<1>8. {r \in 0..(t - 1) : Select!weightedPick(list, r) = a} = l..(u - 1)
  BY <1>6, <1>7
<1>9. Cardinality(l..(u - 1)) = w
  <2>1. l \in Int /\ u - 1 \in Int /\ ~(l > u - 1) /\ ((u - 1) - l) + 1 = w
    BY <1>4, <1>5
  <2>2. Cardinality(l..(u - 1)) = ((u - 1) - l) + 1
    BY <2>1, FS_Interval
  <2>3. QED
    BY <2>1, <2>2
<1>10. QED
  BY <1>5, <1>8, <1>9 DEF w

\* A call that is under way has candidates, and was given one of them if any.
SharesInv ==
    /\ members \subseteq Addrs /\ weight \in [Addrs -> Nat] /\ counter \in Nat
    /\ DOMAIN call = Calls /\ DOMAIN chosen = Calls /\ nodes \in [Calls -> SUBSET Addrs]
    /\ \A c \in Calls :
         /\ chosen[c] \in nodes[c] \cup {0}
         /\ call[c] = "idle" => chosen[c] = 0
         /\ call[c] # "idle" => nodes[c] # {}

LEMMA SharesInvInit == AllInit => SharesInv
<1> SUFFICES ASSUME AllInit PROVE SharesInv
  OBVIOUS
<1>1. weight \in [Addrs -> 0..MaxWeight] \/ weight \in [Addrs -> {1}]
  BY DEF AllInit, Select!Init
<1>2. weight \in [Addrs -> Nat]
  BY <1>1, AddressesNamed
<1>3. QED
  BY <1>2 DEF AllInit, Select!Init, Select!None, SharesInv

\* What a stateless strategy picks is a candidate.
LEMMA PickIsCandidate ==
  ASSUME SharesInv, NEW c \in Calls, Select!PickStateless(c)
  PROVE  counter' \in Nat /\ \E a \in nodes[c] : chosen' = [chosen EXCEPT ![c] = a]
<1> DEFINE S == nodes[c]
           N == Cardinality(S)
<1>0. S \in SUBSET Addrs /\ IsFiniteSet(S) /\ S # {} /\ N \in Nat /\ N # 0
  <2>1. S \in SUBSET Addrs /\ S # {}
    BY DEF SharesInv, Select!PickStateless
  <2>2. IsFiniteSet(S)
    BY <2>1, AddressesNamed, FS_Subset
  <2>3. QED
    BY <2>1, <2>2, FS_CardinalityType, FS_EmptySet
<1>1. weight \in [Addrs -> Nat] /\ 0 \notin Addrs /\ counter \in Nat
  BY AddressesNamed DEF SharesInv
<1>2. CASE strategy = "random"
  <2>1. chosen' \in {[chosen EXCEPT ![c] = a] : a \in S} /\ counter' = counter
    BY <1>2 DEF Select!PickStateless
  <2>2. QED
    BY <1>1, <2>1
<1>3. CASE strategy = "weighted"
  <2>1. counter' = counter /\ \E list \in Select!SetToSeqs(S) : \E r \in 0..(Select!total(list) - 1) :
            chosen' = [chosen EXCEPT ![c] = Select!weightedPick(list, r)]
    BY <1>3 DEF Select!PickStateless
  <2>a. PICK list \in Select!SetToSeqs(S) : \E r \in 0..(Select!total(list) - 1) :
            chosen' = [chosen EXCEPT ![c] = Select!weightedPick(list, r)]
    BY <2>1
  <2>2. PICK r \in 0..(Select!total(list) - 1) : chosen' = [chosen EXCEPT ![c] = Select!weightedPick(list, r)]
    BY <2>a
  <2>3. Order(list, N) /\ \A i \in 1..N : list[i] \in S
    BY <1>0, <1>1, ListOf
  <2>4. PICK P : Prefixes(list, N, P)
    BY <2>3, PrefixesExist
  <2>5. r \in Nat /\ r < P[N]
    <3>1. Select!total(list) = P[N] /\ P[N] \in Nat
      BY <1>0, <2>4 DEF Prefixes
    <3>2. QED
      BY <3>1
  <2>6. PICK j \in 1..N : P[j - 1] <= r /\ r < P[j]
    BY <2>3, <2>4, <2>5, StretchExists
  <2>7. Select!weightedPick(list, r) = list[j]
    BY <2>3, <2>4, <2>5, <2>6, PickIsStretch
  <2>8. QED
    BY <1>1, <2>1, <2>2, <2>3, <2>7
<1>4. CASE strategy = "round_robin"
  <2>1. /\ counter' = (counter + 1) % CounterLimit
        /\ \E list \in Select!SetToSeqs(S) : chosen' = [chosen EXCEPT ![c] = Select!roundRobinPick(list, counter)]
    BY <1>4 DEF Select!PickStateless
  <2>2. PICK list \in Select!SetToSeqs(S) : chosen' = [chosen EXCEPT ![c] = Select!roundRobinPick(list, counter)]
    BY <2>1
  <2>3. Order(list, N) /\ \A i \in 1..N : list[i] \in S
    BY <1>0, <1>1, ListOf
  <2>4. Len(list) = N
    BY <2>3, <1>0 DEF Order
  <2>5. counter % N \in Nat /\ counter % N < N
    BY <1>0, <1>1, DivMod
  <2>6. (counter % N) + 1 \in 1..N
    BY <1>0, <2>5
  <2>7. Select!roundRobinPick(list, counter) = list[(counter % N) + 1]
    BY <2>4 DEF Select!roundRobinPick
  <2>8. counter' \in Nat
    <3>1. counter + 1 \in Nat /\ CounterLimit \in Nat \ {0}
      BY <1>1, AddressesNamed
    <3>2. (counter + 1) % CounterLimit \in Nat
      BY <3>1, DivMod
    <3>3. QED
      BY <2>1, <3>2
  <2>9. QED
    BY <2>2, <2>3, <2>6, <2>7, <2>8
<1>5. QED
  BY <1>2, <1>3, <1>4 DEF Select!PickStateless

LEMMA SharesInvStep == SharesInv /\ [Select!Next]_selectVars => SharesInv'
<1> SUFFICES ASSUME SharesInv, [Select!Next]_selectVars PROVE SharesInv'
  OBVIOUS
<1> USE DEF SharesInv
<1>1. CASE UNCHANGED selectVars
  BY <1>1 DEF selectVars
<1>2. CASE Select!Build
  BY <1>2 DEF Select!Build, Select!config, Select!callVars
<1>3. ASSUME NEW c \in Calls, Select!Snapshot(c) PROVE SharesInv'
  <2>1. Select!Candidates \subseteq Addrs /\ Select!Candidates # {}
    BY <1>3 DEF Select!Snapshot, Select!Candidates
  <2>2. /\ call[c] = "idle" /\ call' = [call EXCEPT ![c] = "pick"]
        /\ nodes' = [nodes EXCEPT ![c] = Select!Candidates]
        /\ UNCHANGED <<members, weight, counter, chosen>>
    BY <1>3 DEF Select!Snapshot, Select!config
  <2>3. QED
    BY <2>1, <2>2
<1>4. ASSUME NEW c \in Calls, Select!PickStateless(c) PROVE SharesInv'
  <2>1. counter' \in Nat /\ \E a \in nodes[c] : chosen' = [chosen EXCEPT ![c] = a]
    BY <1>4, PickIsCandidate
  <2>2. /\ call[c] = "pick" /\ call' = [call EXCEPT ![c] = "calling"] /\ UNCHANGED <<members, weight, nodes>>
    BY <1>4 DEF Select!PickStateless, Select!config
  <2>3. QED
    BY <2>1, <2>2
<1>5. ASSUME NEW c \in Calls, Select!Draw(c) PROVE SharesInv'
  <2>1. \E a \in nodes[c] : chosen' = [chosen EXCEPT ![c] = a]
    BY <1>5 DEF Select!Draw
  <2>2. call[c] = "pick" /\ UNCHANGED <<members, weight, counter, call, nodes>>
    BY <1>5 DEF Select!Draw, Select!config
  <2>3. QED
    BY <2>1, <2>2
<1>6. ASSUME NEW c \in Calls, Select!LookUp(c) \/ Select!Create(c) \/ Select!Count(c) \/ Select!Prune(c)
      PROVE  SharesInv'
  <2>1. call[c] # "idle" /\ UNCHANGED <<members, weight, counter, nodes, chosen>>
    BY <1>6 DEF Select!LookUp, Select!Create, Select!Count, Select!Prune, Select!config
  <2>2. \E p \in {"pick", "miss", "count", "prune", "calling"} : call' = [call EXCEPT ![c] = p]
    BY <1>6 DEF Select!LookUp, Select!Create, Select!Count, Select!Prune, Select!Make, Select!Found
  <2>3. QED
    BY <2>1, <2>2
<1>7. ASSUME NEW c \in Calls, Select!Done(c) PROVE SharesInv'
  <2>1. /\ call' = [call EXCEPT ![c] = "idle"] /\ chosen' = [chosen EXCEPT ![c] = 0]
        /\ nodes' = [nodes EXCEPT ![c] = {}] /\ UNCHANGED <<members, weight, counter>>
    BY <1>7 DEF Select!Done, Select!None, Select!config
  <2>2. QED
    BY <2>1
<1>8. QED
  BY <1>1, <1>2, <1>3, <1>4, <1>5, <1>6, <1>7 DEF Select!Next

LEMMA SharesInvShares == SharesInv => SharesByWeight
<1> SUFFICES ASSUME SharesInv, NEW c \in Calls
             PROVE  /\ chosen[c] \in nodes[c] \cup {0}
                    /\ \A list \in Select!SetToSeqs(nodes[c]) : \A a \in nodes[c] :
                         Select!Cardinality({r \in 0..(Select!total(list) - 1) : Select!weightedPick(list, r) = a})
                           = Select!effectiveWeight(a)
  BY Zenon DEF SharesByWeight, Select!SharesByWeight, Select!None
<1>1. nodes[c] \in SUBSET Addrs /\ weight \in [Addrs -> Nat] /\ chosen[c] \in nodes[c] \cup {0}
  BY DEF SharesInv
<1>2. IsFiniteSet(nodes[c]) /\ 0 \notin Addrs
  BY <1>1, AddressesNamed, FS_Subset
<1>3. ASSUME NEW list \in Select!SetToSeqs(nodes[c]), NEW a \in nodes[c]
      PROVE  Select!Cardinality({r \in 0..(Select!total(list) - 1) : Select!weightedPick(list, r) = a})
               = Select!effectiveWeight(a)
  BY <1>1, <1>2, <1>3, SelectCardinality, DrawnByWeight, Zenon
<1>4. QED
  BY <1>1, <1>3

\* For any addresses, weights and number of concurrent calls: in whatever order
\* the candidates come, a draw below their total weight gives each of them for
\* exactly as many numbers as its weight, and no strategy gives a call a node
\* that was not among its candidates, whatever updates and trips cross it.
THEOREM SharesAlwaysByWeight == AllSpec => []SharesByWeight
<1>1. SharesInv /\ [AllNext]_allVars => SharesInv'
  BY PartsMove, SharesInvStep
<1> QED
  BY <1>1, SafetyOfAll, SharesInvInit, SharesInvShares, PTL

=============================================================================
