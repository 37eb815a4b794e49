------------------------------ MODULE Discovery ------------------------------
(***************************************************************************)
(* How a client of one service follows the registry: the seven Discovery   *)
(* backends (pkg/registry/etcd, consul, eureka, nacos, kubernetes, polaris *)
(* and static, each in its discovery.go) and the three clients that use    *)
(* them, the gRPC resolver (pkg/client/resolver.go), the HTTP client       *)
(* (pkg/client/http.go) and the client-go round tripper                    *)
(* (pkg/client/rest/roundtripper.go).                                      *)
(*                                                                         *)
(* An instance is a node; the registry holds it as "up", as "sick" (not    *)
(* passing, not UP, not ready, unhealthy or isolated) or not at all.  What *)
(* a subscription pushes is a queue of events, each with the node that     *)
(* moved and the registry's state after the move; each backend's watcher   *)
(* uses the part of it that its own messages carry.                        *)
(***************************************************************************)
EXTENDS Naturals, Sequences

CONSTANTS
    Nodes,        \* the instances of the service
    Schemes,      \* the schemes of the endpoints each node registers
    MaxChanges,   \* bound on the moves of the registry's nodes
    MaxFaults     \* bound on failed registry calls and broken subscriptions

ASSUME DiscoveryAssumption ==
    /\ Schemes \in [Nodes -> SUBSET {"grpc", "http"}]
    /\ Nodes # {} /\ MaxChanges \in Nat /\ MaxFaults \in Nat

VARIABLES
    backend, client,   \* which backend and which client this is
    protocol,          \* Options.Protocol of consul, eureka and nacos
    portName,          \* kubernetes: does the ServiceRef name a port?
    status,            \* what the registry holds for each node
    pc,                \* the client's watch goroutine, see Phase
    stream,            \* the watcher's subscription, see Stream
    chan,              \* what the subscription pushed and Next has not read
    current,           \* etcd, polaris: watcher.current
    synced,            \* has Next returned a snapshot? (etcd, polaris: watcher.init)
    addrs,             \* what the client balances over: the resolver.State, HTTPClient.nodes
    req,               \* HTTP, REST: the nodes a call in progress may go to
    closed,            \* was the client's Close called?
    changes, faults,   \* counters for the bounds
    moved              \* ghost: the nodes that moved since Watch was called

kind == <<backend, client, protocol, portName>>
watcherVars == <<stream, chan, current, synced>>
vars == <<kind, status, pc, watcherVars, addrs, req, closed, changes, faults, moved>>

Backends == {"etcd", "consul", "eureka", "nacos", "kubernetes", "polaris", "static"}
Pushing == {"etcd", "nacos", "kubernetes", "polaris"}
Clients == {"grpc", "http", "rest"}
Health == {"absent", "sick", "up"}

\* GetService, the gRPC client's backoff, Watch, the loop around Next, and
\* after the goroutine; the round tripper has none.
Phase == {"seed", "retry", "watch", "next", "ended"}

\* No subscription, one that pushes, and one that stopped: behind what is in
\* chan there is an error response before the end of the channel, or only
\* the end.
Stream == {"none", "live", "error", "closed"}

Event == [node : Nodes, status : [Nodes -> Health]]

\* The model's types; a subscription and what it pushed belong to a goroutine
\* that is in its loop around Next, whatever way it left the loop before.
TypeOK ==
    /\ backend \in Backends /\ client \in Clients
    /\ protocol \in {"grpc", "http"} /\ portName \in BOOLEAN
    /\ status \in [Nodes -> Health]
    /\ pc \in Phase /\ stream \in Stream /\ chan \in Seq(Event)
    /\ synced \in BOOLEAN /\ closed \in BOOLEAN
    /\ current \in SUBSET Nodes /\ addrs \in SUBSET Nodes
    /\ req \in SUBSET Nodes /\ moved \in SUBSET Nodes
    /\ changes \in 0..MaxChanges /\ faults \in 0..MaxFaults
    /\ stream # "none" => pc = "next"
    /\ chan # <<>> => stream # "none"

-----------------------------------------------------------------------------
(* What the backends report and what the clients make of it.               *)

Registered(st) == {n \in Nodes : st[n] # "absent"}
Healthy(st) == {n \in Nodes : st[n] = "up"}

\* etcd keeps a key per instance and knows nothing of its health; a static
\* list is served as it was configured.
EtcdInstances(st) == Registered(st)
StaticInstances(st) == Registered(st)
\* What eureka lists, whatever its health; nothing is the fingerprint "".
fetch(st) == Registered(st)
emptyFingerprint(st) == fetch(st) = {}
\* Health().Service with passingOnly; Status = "UP"; HealthyOnly, and Valid and
\* Enable on the pushed list; ready endpoints; healthy and not isolated.
ConsulInstances(st) == Healthy(st)
EurekaInstances(st) == {n \in fetch(st) : st[n] = "up"}
NacosInstances(st) == Healthy(st)
KubernetesInstances(st) == Healthy(st)
PolarisInstances(st) == Healthy(st)

Instances(st) ==
    CASE backend = "etcd" -> EtcdInstances(st)
      [] backend = "consul" -> ConsulInstances(st)
      [] backend = "eureka" -> EurekaInstances(st)
      [] backend = "nacos" -> NacosInstances(st)
      [] backend = "kubernetes" -> KubernetesInstances(st)
      [] backend = "polaris" -> PolarisInstances(st)
      [] backend = "static" -> StaticInstances(st)

\* The scheme in an instance's endpoints: what the node registered, except that
\* kubernetes writes grpc:// and consul, eureka and nacos write their Protocol.
EndpointSchemes(n) ==
    CASE backend = "kubernetes" -> {"grpc"}
      [] backend \in {"consul", "eureka", "nacos"} -> {protocol}
      [] OTHER -> Schemes[n]

\* The clients drop the endpoints they cannot speak.
GrpcAddrs(insts) == {n \in insts : "grpc" \in EndpointSchemes(n)}
HttpNodes(insts) == {n \in insts : "http" \in EndpointSchemes(n)}
RestNodes(insts) == {n \in insts : "http" \in EndpointSchemes(n)}

Usable(insts) ==
    CASE client = "grpc" -> GrpcAddrs(insts)
      [] client = "http" -> HttpNodes(insts)
      [] client = "rest" -> RestNodes(insts)

\* A registry call may fail; with the client's context cancelled it may always.
MayFail == closed \/ faults < MaxFaults
Failed == MayFail /\ faults' = IF closed THEN faults ELSE faults + 1

\* endpointSlicesToInstances fails when a port was asked for and nothing is ready.
NoReadyPort(st) == backend = "kubernetes" /\ portName /\ KubernetesInstances(st) = {}

\* What GetService answers: TRUE with the instances, or FALSE.
GetServiceOK == ~NoReadyPort(status) /\ UNCHANGED faults
GetServiceErr ==
    \/ NoReadyPort(status) /\ UNCHANGED faults
    \/ backend # "static" /\ Failed

-----------------------------------------------------------------------------
(* The client's goroutine up to Watch.                                      *)

Init ==
    /\ backend \in Backends /\ client \in Clients
    /\ protocol \in {"grpc", "http"}
    /\ portName \in BOOLEAN
    /\ backend \notin {"consul", "eureka", "nacos"} => protocol = "grpc"
    /\ backend # "kubernetes" => ~portName
    /\ status \in IF backend = "static" THEN [Nodes -> {"up"}] ELSE [Nodes -> {"absent", "up"}]
    /\ pc = IF client = "rest" THEN "ended" ELSE "seed"
    /\ stream = "none" /\ chan = <<>> /\ current = {} /\ synced = FALSE
    /\ addrs = {} /\ req = {} /\ closed = FALSE
    /\ changes = 0 /\ faults = 0 /\ moved = {}

\* Faulty variant: an empty list is not published.
updateNonEmpty(insts) == addrs' = IF Usable(insts) = {} THEN addrs ELSE Usable(insts)

\* resolver.update, also with an empty list, and the HTTP client's nodes.Store.
update(insts) == addrs' = Usable(insts)

\* The first GetService of the gRPC resolver and, after the backoff, the next.
ResolverSeed ==
    /\ client = "grpc" /\ pc \in {"seed", "retry"}
    /\ \/ GetServiceOK /\ update(Instances(status)) /\ pc' = "watch"
       \/ GetServiceErr /\ pc' = "retry" /\ UNCHANGED addrs
    /\ UNCHANGED <<kind, status, watcherVars, req, closed, changes, moved>>

\* The backoff is left when the resolver is closed.
ResolverGivesUp ==
    /\ pc = "retry" /\ closed
    /\ pc' = "ended"
    /\ UNCHANGED <<kind, status, watcherVars, addrs, req, closed, changes, faults, moved>>

\* The HTTP client goes on to Watch whether or not GetService answered.
HttpSeed ==
    /\ client = "http" /\ pc = "seed"
    /\ \/ GetServiceOK /\ update(Instances(status))
       \/ GetServiceErr /\ UNCHANGED addrs
    /\ pc' = "watch"
    /\ UNCHANGED <<kind, status, watcherVars, req, closed, changes, moved>>

-----------------------------------------------------------------------------
(* Discovery.Watch.                                                         *)

\* A watcher that has not returned a snapshot.
Watching ==
    /\ pc = "watch" /\ pc' = "next"
    /\ moved' = {}
    /\ UNCHANGED <<kind, status, synced, addrs, req, closed, changes, faults>>

\* The watch is open before the first Get; the snapshot waits for Next.
WatchEtcd == backend = "etcd" /\ Watching /\ stream' = "live" /\ UNCHANGED <<chan, current>>

\* Watchers that poll, or that have nothing to report.
WatchConsul == backend = "consul" /\ Watching /\ UNCHANGED <<stream, chan, current>>
WatchEureka == backend = "eureka" /\ Watching /\ UNCHANGED <<stream, chan, current>>
WatchStatic == backend = "static" /\ Watching /\ UNCHANGED <<stream, chan, current>>

\* The state the registry is in, as an event that names no move.
Snapshot == <<[node |-> CHOOSE n \in Nodes : TRUE, status |-> status]>>

\* Subscribe; the SDK may call back at once with what it holds.
WatchNacos ==
    /\ backend = "nacos" /\ Watching
    /\ stream' = "live" /\ chan' \in {<<>>, Snapshot} /\ UNCHANGED current

\* A watch without a resource version starts with the slices there are.
WatchKubernetes ==
    /\ backend = "kubernetes" /\ Watching
    /\ stream' = "live" /\ UNCHANGED current
    /\ chan' \in {Snapshot} \cup (IF Registered(status) = {} THEN {<<>>} ELSE {})

\* The response carries all instances; the first Next returns them.
WatchPolaris ==
    /\ backend = "polaris" /\ Watching
    /\ stream' = "live" /\ current' = PolarisInstances(status) /\ UNCHANGED chan

\* The goroutine returns: its deferred watcher.Stop ends the subscription.
Return ==
    /\ pc' = "ended" /\ stream' = "none" /\ chan' = <<>>
    /\ UNCHANGED <<kind, status, current, synced, addrs, req, closed, changes, moved>>

\* Both clients give up for good when Watch fails.
WatchFails ==
    /\ pc = "watch" /\ backend \in {"nacos", "kubernetes", "polaris"}
    /\ Failed /\ Return

-----------------------------------------------------------------------------
(* Watcher.Next, once per snapshot it returns or error it ends with.        *)

\* A snapshot reaches the client.
Emit(insts) ==
    /\ update(insts) /\ synced' = TRUE
    /\ UNCHANGED <<kind, status, pc, req, closed, changes, moved>>

\* The registry call inside Next fails and the client's goroutine returns.
NextFails == Failed /\ Return

\* Something in the channel, and Next reads it.
Receive == chan # <<>> /\ chan' = Tail(chan) /\ UNCHANGED stream

\* An error response, behind which the channel ends.
ReceiveError == chan = <<>> /\ stream = "error" /\ stream' = "closed" /\ UNCHANGED chan

\* etcd.watcher.fullSnapshot: the prefix Get replaces current.
fullSnapshot ==
    /\ current' = EtcdInstances(status)
    /\ Emit(EtcdInstances(status)) /\ UNCHANGED faults

\* Faulty variants: the index is built anew for every event; DELETE is ignored.
AppliedAlone(ev) == IF ev.status[ev.node] = "absent" THEN {} ELSE {ev.node}
AppliedPutOnly(ev) == current \cup {ev.node}

\* One PUT or DELETE applied to current.
Applied(ev) == IF ev.status[ev.node] = "absent" THEN current \ {ev.node} ELSE current \cup {ev.node}

NextEtcd ==
    /\ pc = "next" /\ backend = "etcd"
    /\ \/ ~synced /\ fullSnapshot /\ UNCHANGED <<stream, chan>>
       \/ synced /\ Receive /\ current' = Applied(Head(chan)) /\ Emit(current') /\ UNCHANGED faults
       \/ synced /\ ReceiveError /\ fullSnapshot
       \/ (~synced \/ (chan = <<>> /\ stream = "error")) /\ NextFails

\* The index to compare with is a variable of the call, so the first poll that
\* succeeds is returned; one that fails is tried again at the next tick.
NextConsul ==
    /\ pc = "next" /\ backend = "consul"
    /\ Emit(ConsulInstances(status))
    /\ UNCHANGED <<stream, chan, current, faults>>

\* So is the fingerprint, and the one of an empty list is its initial value.
NextEureka ==
    /\ pc = "next" /\ backend = "eureka"
    /\ ~emptyFingerprint(status)
    /\ Emit(EurekaInstances(status))
    /\ UNCHANGED <<stream, chan, current, faults>>

NextNacos ==
    /\ pc = "next" /\ backend = "nacos"
    /\ Receive /\ Emit(NacosInstances(Head(chan).status))
    /\ UNCHANGED <<current, faults>>

\* Whatever the event is, it only says that it is time to list again.
NextKubernetes ==
    /\ pc = "next" /\ backend = "kubernetes"
    /\ \/ /\ Receive \/ ReceiveError
          /\ ~NoReadyPort(status) /\ Emit(KubernetesInstances(status))
          /\ UNCHANGED <<current, faults>>
       \/ /\ (chan # <<>> \/ stream = "error")
          /\ (NextFails \/ (NoReadyPort(status) /\ Return /\ UNCHANGED faults))

\* The events are applied without the filter of the first snapshot.
NextPolaris ==
    /\ pc = "next" /\ backend = "polaris"
    /\ \/ ~synced /\ Emit(current) /\ UNCHANGED <<stream, chan, current, faults>>
       \/ synced /\ Receive /\ current' = Applied(Head(chan)) /\ Emit(current') /\ UNCHANGED faults

\* Faulty variant: Next does not look at the context.
NextEndsWithChannel ==
    /\ pc = "next" /\ chan = <<>> /\ stream = "closed"
    /\ Return /\ UNCHANGED faults

\* Next returns an error when the client's context is done (for static there is
\* nothing else), or when the channel ended.
NextEnds ==
    /\ pc = "next"
    /\ \/ closed /\ (backend \in {"etcd", "polaris"} => synced)
       \/ synced /\ chan = <<>> /\ stream = "closed"
       \/ backend = "kubernetes" /\ chan = <<>> /\ stream = "closed"
    /\ Return /\ UNCHANGED faults

Watch ==
    \/ WatchEtcd \/ WatchConsul \/ WatchEureka \/ WatchStatic
    \/ WatchNacos \/ WatchKubernetes \/ WatchPolaris
    \/ WatchFails

ReadNext ==
    \/ NextEtcd \/ NextConsul \/ NextEureka \/ NextNacos
    \/ NextKubernetes \/ NextPolaris

-----------------------------------------------------------------------------
(* Calls, Close, and the registry.                                          *)

\* Faulty variant: only the nodes of the watch count.
DoWatched ==
    /\ client = "http" /\ ~closed /\ req = {}
    /\ req' = addrs
    /\ UNCHANGED <<kind, status, pc, watcherVars, addrs, closed, changes, faults, moved>>

\* HTTPClient.Do takes the nodes of the watch, and asks the registry whenever
\* they are none: an empty node list is stored as a nil slice.
Do ==
    /\ client = "http" /\ ~closed /\ req = {}
    /\ \/ addrs # {} /\ req' = addrs /\ UNCHANGED faults
       \/ addrs = {} /\ GetServiceOK /\ req' = HttpNodes(Instances(status))
       \/ addrs = {} /\ GetServiceErr /\ UNCHANGED req
    /\ UNCHANGED <<kind, status, pc, watcherVars, addrs, closed, changes, moved>>

\* The round tripper asks the registry for every request.
RoundTrip ==
    /\ client = "rest" /\ req = {}
    /\ \/ GetServiceOK /\ req' = RestNodes(Instances(status))
       \/ GetServiceErr /\ UNCHANGED req
    /\ UNCHANGED <<kind, status, pc, watcherVars, addrs, closed, changes, moved>>

\* The call is made, once or as often as the resilience chain wants, to nodes
\* of the set it started with.
Answered ==
    /\ req # {} /\ req' = {}
    /\ UNCHANGED <<kind, status, pc, watcherVars, addrs, closed, changes, faults, moved>>

\* Close cancels the goroutine's context and closes the discovery.
Close ==
    /\ client # "rest" /\ ~closed
    /\ closed' = TRUE
    /\ UNCHANGED <<kind, status, pc, watcherVars, addrs, req, changes, faults, moved>>

\* A node comes, goes or changes its health; a live subscription is told.
RegistryChange(n) ==
    /\ backend # "static" /\ changes < MaxChanges
    /\ \E h \in Health \ {status[n]} :
          /\ backend = "etcd" => h # "sick"
          /\ status' = [status EXCEPT ![n] = h]
    /\ chan' = IF stream = "live" THEN Append(chan, [node |-> n, status |-> status']) ELSE chan
    /\ changes' = changes + 1 /\ moved' = moved \cup {n}
    /\ UNCHANGED <<kind, pc, stream, current, synced, addrs, req, closed, faults>>

\* etcd and the API server may end a watch, after an error response or without.
StreamBreaks ==
    /\ backend \in {"etcd", "kubernetes"} /\ stream = "live" /\ faults < MaxFaults
    /\ stream' \in {"error", "closed"} /\ faults' = faults + 1
    /\ UNCHANGED <<kind, status, pc, chan, current, synced, addrs, req, closed, changes, moved>>

Next ==
    \/ ResolverSeed \/ ResolverGivesUp \/ HttpSeed \/ Watch \/ ReadNext \/ NextEnds
    \/ Do \/ RoundTrip \/ Answered \/ Close
    \/ \E n \in Nodes : RegistryChange(n)
    \/ StreamBreaks

Spec == Init /\ [][Next]_vars

\* The client's goroutine and its callers keep running; the registry and Close
\* owe nothing.
FairSpec ==
    /\ Spec
    /\ WF_vars(ResolverSeed \/ HttpSeed \/ Watch) /\ WF_vars(ResolverGivesUp)
    /\ WF_vars(ReadNext) /\ WF_vars(NextEnds)
    /\ WF_vars(Do \/ RoundTrip) /\ WF_vars(Answered)

-----------------------------------------------------------------------------
(* Properties.                                                              *)

\* A node that has not moved since Watch was called is in the client's list
\* exactly if its backend reports it and the client can speak to it, however
\* many events about other nodes are still unread: opening the watch before the
\* snapshot loses nothing, and an event disturbs no other node.
StableNodesServed ==
    synced => \A n \in Nodes \ moved : n \in addrs <=> n \in Usable(Instances(status))

\* A push watcher that has emitted and has nothing unread is up to date, except
\* that polaris may keep nodes whose events said they are sick.
CaughtUp ==
    (backend \in Pushing /\ pc = "next" /\ synced /\ stream = "live" /\ chan = <<>>) =>
        /\ Usable(Instances(status)) \subseteq addrs
        /\ addrs \subseteq Usable(IF backend = "polaris" THEN Registered(status) ELSE Instances(status))

\* Whether the client's list is what the registry holds now, as far as the
\* backends' watchers can tell: eureka reports no empty list (against
\* EurekaChangesEmitted), polaris no change of health, and nacos and kubernetes
\* nothing before the first event.
Agrees ==
    \/ addrs = Usable(Instances(status))
    \/ backend = "eureka" /\ emptyFingerprint(status)
    \/ backend = "polaris" /\ Usable(Healthy(status)) \subseteq addrs
                           /\ addrs \subseteq Usable(Registered(status))
    \/ backend \in {"nacos", "kubernetes"} /\ ~synced

\* Once the registry is left alone, the client's list agrees with it for good,
\* unless the watch goroutine has ended, as it may for good (http.go:187-188).
Converges == <>[](pc = "ended" \/ Agrees)

\* eureka/discovery.go:103: the watcher emits a snapshot when the instance set
\* changes, so the client gets to what there is, also when that is nothing
\* (resolver.go:121-122: stale addresses are dropped).  (Violated: an empty set
\* has the fingerprint that every Next starts from.)
EurekaChangesEmitted ==
    backend = "eureka" => <>[](pc = "ended" \/ addrs = Usable(Instances(status)))

\* The goroutine of a closed client ends, and with it the subscription,
\* wherever Close met it.
CloseEndsWatch == []<>(~closed \/ (pc = "ended" /\ stream = "none"))

\* An HTTP or REST caller that keeps calling is not left without nodes for ever
\* while the registry has some it can speak to, not even after the watch
\* ended with an empty list.
CallsFindNodes ==
    []<>(closed \/ Usable(Instances(status)) = {}) \/ []<>(client = "grpc" \/ req # {})
=============================================================================
