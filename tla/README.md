# onexmesh: TLA+ models, checks and proofs

onexmesh is a Go library for building micro-services: servers with a common
life cycle, service registration and discovery over several registries,
clients with load balancing and resilience policies, rate limiting, brokers,
configuration, telemetry, and a set of concurrency tools (`pkg/core`) the rest
is built on.  This directory keeps TLA+ models of the parts whose correctness
depends on interleavings, failures and time, the TLC runs that check them on
small instances, and TLAPS proofs of safety properties for every value of the
constants.

`PROJECT.json` is the index: components, runs, the lines each definition
models (`map`), faulty variants that break each checked property (`mutants`),
hazards, findings and theorems.

    tlc -workers 2 -config Resilience.cfg MCResilience     # a run
    tlapm ResilienceProofs.tla                             # its proofs

## 1. The system

Paths are below `src/pkg`.  "Hard" names what makes the part hard to test;
"right" what has to hold.

| Part | State | Operations | Hard | Right |
|---|---|---|---|---|
| circuit breaker `resiliency/breaker.go` | state, failures in a row, half-open counter, opening time; one breaker for all callers of an endpoint | `Execute` = `beforeRequest`, the request, `afterRequest` | the request runs without the lock: results of one period arrive in another; panics | counters and state agree, probes are bounded, an outage ends |
| policy provider, runner `resiliency/provider.go`, `policy.go` | bounded cache of breakers per endpoint | `EndpointPolicy`, `Runner`, `runRetry` | cache at its bound, retries around a breaker others use | cached endpoints have one breaker each |
| client chain `client/resilience.go`, `resilience/{bulkhead,breaker,retry}.go` | slots, rolling window, last pass | deadline, bulkhead, adaptive breaker, retry | slots over every exit, probabilities | slots are the calls inside, requests keep reaching the endpoint |
| rolling window `core/collection/rollingwindow.go` | ring of buckets, last time | `Add`, `Reduce` | lazy rotation | sums of the last intervals |
| retry budget, hedging, shedder `resilience/*` | counters and windows | limiter, hedge, `Allow` | check-then-act, losers of a race, cool-off | bounded excess, nobody is left behind, shedding ends |
| discovery cache `registry/cache/cache.go` | snapshot, two TTLs, last refresh, flight group | `GetService` | concurrent misses, a failing registry | one refresh at a time, last snapshot survives, converges |
| discovery backends `registry/*/discovery.go` | a subscription or a poll, the watchers' current set | `GetService`, `Watch`, `Next`, `Stop` | missed, replayed and unread changes, broken streams | nothing unread means nothing missed |
| clients `client/resolver.go`, `http.go`, `rest/roundtripper.go` | addresses, node cache | resolver updates, `Do`, `RoundTrip`, `Close` | a watcher that ends, a seed that races a watch | the list follows the registry, the goroutine ends |
| selectors `selector/*`, `client/balancer` | weights, in-flight counts, tripped nodes | `Select`, done, `Pick` | state objects made and pruned under concurrent picks | fair shares, calls counted once |
| etcd registrar `registry/etcd/registrar.go` | registered, lease, keepalive; etcd's leases and key | `Register`, `monitorLease`, `Deregister` | lease lost at any point, Deregister racing re-registration | one goroutine tends the key, it comes back, Deregister removes it |
| other registrars `registry/{consul,eureka,nacos,polaris,static}` | heartbeat goroutine, the server's entry | `Register`, heartbeat, `Deregister` | Register again, failed beats, calls and local state out of step | one heartbeat, and it keeps the entry |
| mesh server `server/*.go` | run hooks, stop Once, group, per-server serve loop | `Run`, `GracefulStop`, `Start`, `Stop` | stop during start, one server failing, second run | the run ends and leaves nothing behind |
| request pipeline `middleware/*`, `transport/*`, `options/compose.go` | pooled transporters, chain, what is recorded | bridges, `Chain`, recovery, metrics, tracing | refusals, panics, reuse of pooled objects | answer, span, metric and in-flight count agree |
| telemetry runtime `options/{otel,slog,server}_options.go` | providers, files, default logger | `Apply`, rollback, `Shutdown` | failures halfway, Apply twice | whatever was started has an owner |
| log handler `otelslog/handler.go` | attribute buffers of derived loggers | `WithAttrs`, `WithGroup`, `Handle` | shared backing arrays | a record carries its logger's attributes |
| executors `core/executors/*` | container, commander channel, inflight, guarded | `Add`, `Flush`, `Wait`, `Trigger`, `DoOrDiscard` | flusher leaving while a batch is handed over | each task executed exactly once |
| `core/syncx/*`, `core/limit` | flights, locked keys, pools, slots | `Do`, `Get`/`Put`, `Borrow`/`Return` | lost wake-ups, panics | nobody waits beside a free resource |
| map-reduce `core/mr` | source, collector, output channels | `MapReduce`, `ForEach`, cancel | draining on cancel, context and panic | complete input, no goroutine left |
| timing wheel, expiring cache `core/collection/{timingwheel,cache}.go` | slots, timers; map, LRU list | set, move, remove, tick; `Set`, `Get`, `Del`, `Take` | wrap-around; map and timers change apart | no task lost, map = list, calls return |
| queue, ring, byte buffers `core/collection/{fifo,ring}.go`, `core/bytebufferpool` | circular arrays; size classes | `Put`, `Take`, `Add`; `calibrate` | growth of a wrapped queue; lock-free calibration | order kept; sizes of one calibration |
| limiters `ratelimit/*` | alive, monitor; buckets; windows | `Allow`, `Take`, `Acquire`, monitor, `Close` | outage and recovery, fractions, window edges | one monitor, rates hold, waiting pays |
| configuration `config/*` | merged values, watchers | `Load`, `Watch`, `Close` | changes of several sources, failed reads | each source ends with its newest version |
| brokers, event bus `broker/*`, `event` | subscriptions, pending messages | publish, subscribe, ack, dispatch | unsubscribe while delivering, lost replies | a message is handled or still pending |
| codec, metadata, routes, options, registry factory, code generators | none that survives a request or a start | | | not a protocol: left out (section 7) |

How the parts meet: `MeshServer.Run` applies the telemetry runtime and builds a
`ServiceGroup`; every server's `serve` registers its instance with a registrar
and `ServiceGroup.Stop` deregisters it; requests come in through the pipeline.
Clients read instances through the discovery cache or a watcher, pick one with
a selector and send the call through the client chain or the policy runner.
The adaptive breaker, the retry budget and the shedder count in rolling
windows.  The expiring cache owns a timing wheel and is called back by it.  The
token limiter uses a shared store and a local limiter.

## 2. Modules

A component has a module with its specification and properties.  The proofs about
the components an MC module gathers are in one module that extends it,
`ResilienceProofs` for MCResilience and so on; what they need of numbers, sets and
sums is in `DataLemmas`.  Operators whose comment starts with "Faulty
variant" are plausible bugs used only to show that a property can fail; no
specification uses them.

The five MC modules each gather the components one run is about.  Components
that share no state are not multiplied with each other: a variable `part` is
chosen at the start, the chosen component runs and the others stay as they
begin, so the state space is the sum of the components' and not their product.
The fairness of such a run is that of the components' own `FairSpec`, guarded
by `part`.  All sizes and bounds of an MC module are constants that its `.cfg`
gives values to, so that what is proved of `AllSpec` is not about one instance.

### Resilience (MCResilience)

**CircuitBreaker.**  `beforeRequest` and `afterRequest` run under `b.mu`, so
each is one action, split by the state it finds (`AdmitClosed`,
`AdmitFirstProbe`, `AdmitProbe`; `FailClosed`, `SucceedClosed`,
`FailHalfOpen`, `SucceedHalfOpen`, `ResultWhileOpen`).  A rejected request
changes nothing and is no step.  `Panic` leaves `Execute` without
`afterRequest`.  Time since opening is a counter that saturates at the
timeout.  `call` also records, for the properties, in which period a request
was admitted; `leaked` records that a probe of the period panicked.

**PolicyRunner.**  `EndpointPolicy` takes the endpoint's breaker from a cache
with `cbMax` places or gives the call a breaker of its own; `runRetry` repeats
the call with constant or exponential backoff, with the errors the policy
matches, until the policy's timeout.  `ImplementsBreaker` is the refinement:
under the mapping from the record of a cached endpoint to the variables of
CircuitBreaker, the callers of that endpoint behave as CircuitBreaker allows.

**ClientChain.**  deadline, bulkhead, breaker and retry in the order of
`buildResilienceHandler`.  `shared` tells the gRPC client, which builds it
once, from the HTTP client, which builds it per call.  `accept` draws a random
number: wherever the drop ratio is positive both outcomes are possible.

**RollingWindow, SlidingWindow.**  The code rotates lazily: only `Add` moves the
offset, `Reduce` skips what has expired.  SlidingWindow is what is meant: counts
of the last intervals, moved on by every tick.  `ImplementsSlidingWindow` maps
buckets, offset and elapsed time to those counts.

**RetryBudget, Hedge, Shedder.**  The three steps of `allowRetry` (two reduces,
one add) are separate; a hedged call is its select loop and its goroutines with
their buffered channels; the shedder's floating-point estimates are reduced to
what decides (a request is shed only beside another one in flight).

### Concurrency (MCConcurrency)

**RegistryCache.**  One service name.  `GetService` joins or leads the flight
of `singleflight`; the leader takes `Check` (first critical section), `Remote`
(the registry, without the lock) and `Store` (second critical section);
`Deliver` hands the result to all members of the flight.  `RegistryChange` and
`Tick` are the environment.  All expiry times of a snapshot are set in one
critical section, so one saturating age stands for them.

**PeriodicalExecutor.**  One adder per task, flushers that come and go,
waiters.  A batch is full by number (bulk) or by size (chunk).  The commander
channel holds one batch, the confirm channel none.  Flush is three steps
(enter, remove, execute) shared by the ticker case, the deferred exit and Wait;
every non-empty batch is executed by a goroutine.

**CacheTake, LockedCalls, Pool, TimeoutLimit, Atomics, RateExecutors.**  One critical
section, channel operation or atomic operation is one step.  CacheTake is
`Cache.Take` with its flight: lookup, join or lead, second lookup, fetch (which
may fail or panic), store.  Atomics is the loop of `AtomicFloat64.Add` and the
spin lock.

**MapReduce.**  Generator, executor, a mapper per item, reducer and caller with
the unbuffered source and output, the buffered collector, `cancel` under its
Once, the context, and at most one panic.

### Services (MCServices)

**TokenLimiter.**  `alive` is an atomic and `monitorStarted` is under the lock,
so `AllowContext`, `TakeTokens`, `MarkDown` (the compare-and-swap),
`StartMonitor`, `PingOK`, `ClearStarted` and `MarkAlive` are separate steps.

**Limiters.**  Token and leaky bucket, the memory and Redis stores' buckets and
windows, `PeriodLimit` and the QPS limiter, one per behaviour.  `excess` is the
reference: a continuous meter that runs beside the code's own arithmetic.

**Config.**  Two sources, a file and a Polaris one, with versions that define
some keys and may fail to decode; `Load`, one `watchLoop` per source, `Close`.

**Buses, RedisBroker.**  Publish and Dispatch work off a copy of the receivers
while these come and go.  Redis keeps cursor and pending messages per group.

**TimingWheel, ExpiringCache.**  The wheel's goroutine owns everything, so a
tick or a command is one action; the model keeps the live entry of each key:
slot, turns, pending difference and value.  A call of the cache is: wait for
the lock, the critical section, possibly an eviction that sends to the wheel
while it holds the lock, and the send that sets, moves or removes the timer.
The wheel takes a send only in its select; a timer that fires makes the wheel
itself call `Del`.

**Rings, BufferPool.**  `Queue` grows by moving its wrapped content, `Ring`
overwrites; both against the list of what they should hold.  `calibrate` swaps
the counters one by one while others go on counting.

### Life cycle (MCLifecycle)

**EtcdRegistrar.**  Every call to etcd is one action, with its failure:
`GrantOK`, `PutOK`, `KeepAliveOK`, `CallFails` (a failed Put may have been
applied), `Commit` (the locked assignments and the start of the monitor),
`Drained` and `Loop` of `monitorLease`, `Deregister`, `RevokeOK`,
`RevokeFails`.  `Expire`, `KeepaliveLost` and `Renewed` model etcd.

**Registrars.**  Consul, eureka, polaris, nacos and static as variants of one
protocol: Register calls the server and then takes the lock, Deregister does it
the other way round, a heartbeat renews and never registers.

**MeshServer.**  `Run` from the runtime set-up over build, start, stop and
clearing of the hooks to its return; `GracefulStop`; for each server the
`serve` loop with listen, registration, the Serve goroutine and the shutdown
on cancellation; the errgroup's rule that the first failure cancels the others.
A Register that fails may have taken effect, as EtcdRegistrar and Registrars
show: `regErr` keeps the servers whose entry came about in this way, which most
registrars have no record of, and `deregErr` those whose Deregister failed.
Nothing renews such an entry, and `Expire` ends it at any time.

**RequestPipeline.**  Two requests through the bridges, in both layouts of the
chain (`frames` is the stack of middlewares whose `next` is running), over a
pool of transporters that keeps what `Release` does not reset.  Handlers may
panic; a panic of a middleware itself is left out.

**Telemetry, LogHandler.**  Apply step by step, each of which may fail, and what
is then rolled back; loggers derived from each other over a heap of backing
arrays, where an append writes in place while there is room.  What a handler was
given is kept per group, and a record is one map per group, whose last cell may
refer to the map of the group inside it (a negative cell, so that it cannot be
taken for an attribute).

### Client (MCClient)

**Discovery.**  One client of one service; `Init` picks one of the seven
backends and one of the three clients.  The goroutine of the gRPC resolver and
of the HTTP client goes from `ResolverSeed` / `HttpSeed` (GetService) over
`Watch...` (one per backend) to a loop of `Next...` until an error of Watch or
Next makes it `Return`; `NextEnds` is the canceled context or the end of the
channel.  The round tripper asks the registry for each request, and so does
`Do` whenever the HTTP client's list is empty.  etcd and polaris apply events
to `current`, nacos is pushed whole lists, kubernetes lists again on every
event, consul and eureka poll, static never reports.  Assumed of the SDKs: an
etcd watch covers everything after `Watch` returned, a Kubernetes watch starts
with the existing slices, nacos calls back in order.

**Selectors.**  The four strategies behind the breaker wrapper and the gRPC
picker; the candidates come in any order, as from the Go map it is built from.  p2c draws one
pair of nodes where the code draws up to three and keeps the last.  Its
state objects have an identity, because two goroutines may each
find none and one object may be pruned while a call still holds it.

**BreakerRegistry.**  The breakers the wrapper keeps per address: two lookups
under two locks, requests that run under the breaker they got, and resets.

## 3. Runs

### Runs that pass

**resilience.**  Four callers of a breaker with 2 counted probes, threshold 3
and timeout 2; two callers everywhere else, two endpoints and one place in the
policy's breaker cache.
* `FailuresMatchState`, `ProbesAccounted`, `HalfOpenHasProbe`,
  `OpenEndsByCooldown`: state, counters and the requests under way agree, and
  only the cooldown ends an open period.  `Recovers`: once the endpoint stays
  healthy the breaker closes for good, unless a panicking probe took its slot.
* `ImplementsBreaker`: a cached endpoint has one breaker that behaves like
  CircuitBreaker towards all its callers, through lookups, retries and timeouts.
* `SlotsMatchCalls`, `RequestsGetThrough`: slots are returned once on every exit,
  and throttling never keeps all requests from the endpoint.
* `ImplementsSlidingWindow`: lazy rotation counts what an eager window counts.
* `BudgetHolds`: retries exceed the ratio by at most one per concurrent caller.
* `CallAndLosersEnd`, `SheddingEnds`: hedged calls and the requests that lost
  end, and shedding ends with the load.

**concurrency.**  Three callers, two nodes, TTL 3, node TTL 1 and throttle 2 for
the cache; three tasks (one large) in batches of two, two flushers and a waiter;
three items and two workers for MapReduce; more callers than places elsewhere.
* `OneFlight`, `ErrorOnlyWithoutSnapshot`, `FreshNodesServed`,
  `ConvergesToRegistry`: one caller asks the registry at a time, no sequence of
  failures loses the last snapshot, and it comes to what the registry holds.
* `ExactlyOnePlace`: no task is lost or executed twice.  `PrimitivesHold`: one
  fetch between two removals, one function of a key at a time, no waiter beside
  a free resource, slots = holders, no lost addition, calls further apart than the
  threshold.
* `PipeComplete`: a reducer that read to the end has every output.
* `CallersReturn`: Add, Take and MapReduce return, with their goroutines.

**services.**
* `NeverStranded`: a limiter in fallback always has somebody to bring it back.
* `RateHeld`, `WaitingPays`: no limiter lets in more than its rate (against a
  continuous meter), and waiting for one token or window earns a place.
* `NewestOfEachSource`: no key stays at an older version of its own source.
* `MessagesReach`: who stays is reached; taken messages are settled or pending.
* `CollectionsConsistent`: timers fire within a turn of their time with the last
  value, the LRU list is the map, queue and ring keep order, the pool's sizes
  come from one calibration.
* `NothingIsStuck`: the limiter recovers, monitors end with Close, due timers
  fire, Set and Del return while no timer fires.

**lifecycle.**
* `OneTender`, `Reregisters`, `DeregisterRemovesKey`: one goroutine tends the
  etcd key, it comes back, and Deregister removes it for good.
* `HeartbeatKeepsEntry`: registering again leaks no heartbeat and a single
  failed beat costs nothing.
* `QuietWhenStopped`, `RunEnds`: a finished run leaves no server accepting and
  no instance registered whose Register had succeeded, unless its Deregister
  failed; and cancellation or one failure ends it.
* `TelemetryHolds`: span, metric, answer and in-flight count of a request agree,
  a log record carries its logger's attributes, and a runtime that failed
  halfway leaves nothing running or open.

**client.**
* `StableNodesServed`, `CaughtUp`, `WatchSettles`, `CallsFindNodes`: a node that
  stays is in the list, nothing unread means nothing missed, the list settles
  (unless the watch has ended), a closed client's goroutine ends, and calls find
  the nodes there are.
* `CallsCounted`, `SharesByWeight`: p2c's loads are the calls under way, the
  results of an address are all in one breaker, and the weighted draw gives each
  node its share.

### Runs that show a disagreement

Each is quoted in `findings`.

| Run | The code | The text |
|---|---|---|
| `probe_limit` | the request that ends the cooldown goes in uncounted, so a half-open breaker has `MaxRequests` + 1 probes | `resiliency/types.go:66` |
| `http_bulkhead` | every HTTP call builds its own chain, so its bulkhead holds that call only | `client/http.go:91` |
| `wheel_on_time` | a timer moved across the tick position fires a whole turn early or late | `core/collection/timingwheel.go:119` |
| `expiring_cache_wheel` | `safeGo` runs the expiry callback on the wheel's goroutine, which then sends on its own unbuffered channel | `core/collection/timingwheel.go:337` |
| `log_groups` | a record in nested groups has no map for an outer group without attributes of its own | `otelslog/handler.go:320`, `:336` |
| `requests_accounted` | an HTTP request refused in the matched layout is recorded with status 0 in span and metric | `middleware/metrics.go:26`, `options/compose.go:136` |
| `eureka_empty` | the eureka watcher never reports that no instance is left | `registry/eureka/discovery.go:103` |

Three of these properties are the promise next to what a passing run checks:
`ProbesWithinMaxRequests` beside `ProbesAccounted`, which says that nothing but
the one uncounted probe escapes the counter; `TimersOnTime` beside
`CollectionsConsistent`, which says that a timer is never off by more than one
turn, nor lost; `EurekaChangesEmitted` beside `WatchSettles`, which says that
the other sets of eureka, and those of the other backends, are reached.
`RecordInItsGroups` and `EveryRequestAccounted` stand in the same way beside
`TelemetryHolds`.  `EveryRequestAccounted` asks everything the texts say of
every request; TLC shows the refusal without a status first, and section 5
lists the other behaviours it excludes.

### Why the bounds are enough

* Breaker: with four callers all `MaxRequests + 1` probes are inside the request
  together with a late one; threshold 3 has a failure count strictly between 0
  and the threshold; timeout 2 separates "just opened", "cooling", "cooled".
* Policy: two endpoints and one place have one cached and one uncached endpoint;
  three attempts have two different backoffs.
* Chain, budget, hedge, shedder: two callers are one that decides and one that
  makes its reading stale; two backups fill the channel past one.  All counters
  have a named bound (`MaxPerTick`, `MaxTotal`) past the values decisions need.
* Rolling window: three buckets of two ticks have a current, a middle and an
  expiring bucket, and idle stretches shorter and longer than the window.
* Discovery cache: a leader, a member of its flight and a caller that comes
  after it; a node TTL that ends inside the service TTL, as in the defaults, and
  a throttle between the two.
* Executor: 3 tasks are one full batch and one rest; a second flusher is needed
  for the one that starts while the first runs its deferred Flush.
* Pool: four callers for two resources keep two waiting, so that a wake-up can go
  to the wrong one; flights, locked keys and slots have three callers, one of
  which arrives after a flight has ended.  MapReduce: three items on two workers
  make the executor wait for a worker.
* Token limiter: three callers are one that starts the monitor, one whose late
  failure arrives after the recovery and one that fails in the next outage.
* Limiters: a burst of two and two ticks per token have full, partial and empty
  buckets with and without a fraction; ages saturate once every rule is decided.
* Configuration: two changes of two sources cross each other, or one overtakes
  its predecessor.  Brokers: two receivers, one of which leaves; two messages
  and one lost reply.
* Wheel: delays up to 7 on 3 slots have zero, one and two full turns and every
  position relative to the tick; keys do not interact, so one is enough.
* Expiring cache: one place and two keys evict on every second Set, while
  another client is inside.  Queues of 1 to 3 cells wrap, grow by doubling and
  grow by the rule past the threshold.  Buffers: two size classes and a threshold
  of one have a calibration start while counts still come in.
* Registrar: three leases are the first one, its replacement and the
  replacement's replacement; an actor of lease l only relates to l - 1 and
  l + 1.  When the bound is reached `Grant` is disabled, which `Reregisters`
  states.  Other registrars: two Registers overlap; four intervals exceed the
  lifetime of two.
* Mesh server: two servers have every order of failing, listening and
  registering; two stoppers race for the hooks; two runs use the stop Once again.
* Pipeline: two requests share the pool in every order.  Loggers: four handlers
  are a parent, two children and a grandchild; two records overlap.  Telemetry:
  three Applies have a failed one before and after a good one.
* Discovery: three moves let a node come, fail and go while another stays or
  moves too, with any part of it unread; two faults are a broken stream and a
  failed call after it.  The theorems hold for every number of both.
* Selectors: two addresses and two calls; a third state object is one that was
  pruned and made again, as is a third breaker; the round-robin counter wraps at 3 instead of 2^64.

CircuitBreaker, RegistryCache, Discovery, EtcdRegistrar and TokenLimiter have
their type invariant `TypeOK` proved (`TypeCorrect`); in the other components that
are proved about the types are part of the inductive invariant.  Elsewhere `TypeOK`
documents the variables, and no run spends a property on it.

Deadlock checking is off: every run contains systems that may stop (a
deregistered registrar, a client whose watch has ended, a server that has run, a
stopped wheel, an executor whose tasks are done, bounded histories), and the
waiting that must end is stated as liveness.

### Fairness

Safety needs none.  For liveness: goroutines that can run do run (weak
fairness of the code's own steps), requests and the user's functions return,
time passes (weak fairness of `Tick`).  Callers of the breaker, the client
chain and the discovery cache keep calling, because these only change state
when they are called: `Recovers`, `RequestsGetThrough` and
`ConvergesToRegistry` speak of a service in use.  In the chain the random draw
does not go against a breaker that has never let a throttled request through
for ever (strong fairness of `DrawPass` while `lastPass` is zero: the ratio is
below 1; after that `ForcePass` needs no luck).  A hedged request that was
cancelled returns.  For the registrar calls to etcd that are retried for ever
succeed in the end (strong fairness of `GrantOK`, `PutOK`, `KeepAliveOK`), as
the retry loop of `monitorLease` presumes, and etcd expires a lease that nobody
renews.  In the expiring cache and the executor a waiter for a mutex or a
channel is served when it is free again and again (Go queues both), hence
strong fairness of `Step` and `Take`.  Nothing makes the endpoint healthy, the
registry stable, the CPU idle or the store come back: the properties assume it
where they need it (`<>[]`), and no fairness is placed on calls, cancellations
or `Close`.

## 4. Proofs

Five modules hold the proofs, one for each MC module; a sixth, DataLemmas, holds
the facts they share.  A theorem holds for every
value of the constants
that satisfies the named assumptions of the modules it extends.  These say that
sets of callers that are counted are finite (`BreakerAssumption`, `PairFinite`,
`CallersFinite`, `CallsCountable`, `QueueConstants`, `AddressesNamed`,
`RequestsCounted`), that bounds and numbers are
natural and, where the code divides by them or refuses zero, positive
(`BreakerAssumption`, `CacheAssumption`, `LeaseAssumption`, `LimiterAssumption`,
`PolicyConstants`, `ChainConstants`, `WindowConstants`, `BudgetConstants`,
`LimitersConstants`, `LimitsAreNumbers`, `ServersCounted`, `RegistersCounted`,
`HandlersCounted`, `CollectionConstants`: a wheel, a cache, a queue and a ring refuse
sizes below one),
that identifiers of different things differ (`NoOneIsNobody`, `SendersApart`,
`AddressesNamed`), that the layouts are the two there are (`RequestsCounted`),
and that there is a node and each has known schemes (`DiscoveryAssumption`).
`LimitersConstants` also puts the burst within `MaxLimit`, the bound on limits set
later.

Every proof has the same shape: an inductive invariant, the lemma that `Init`
implies it, one step or lemma per action that preserves it, and that it implies
the property.  CircuitBreaker, RegistryCache, Discovery, EtcdRegistrar and
TokenLimiter, whose variables the MC modules take over as they are, are proved
from their own `Spec`.  For the instances beside them a lemma (`PartsMove`) first
shows that every step of `AllNext` is a step or a stutter of each component.

* **DataLemmas.**  Division and remainder as rings and windows use them (`DivIs`,
  `TurnIs`), least and greatest numbers and smallest sets (`LeastNumber`,
  `GreatestNumber`, `SmallestSet`), and sums over finite sets.  The library's
  induction theorems take an operator, which the provers cannot instantiate; what
  needs induction here is proved from a least counterexample instead: the set of
  numbers, or of finite sets by size, where a claim fails has a least element unless
  it is empty, and the claim holds there because it holds just below.  That the
  folds of the community modules have the values their recursion asks for
  (`FoldExists`, `FoldsOneMore`) and that a sum does not depend on the order
  (`SumsAnyOrder`) are shown in this way.
* **ResilienceProofs.**  CircuitBreaker's `IInv` adds `NoStrayProbe` (outside the half-open
  state no request inside `req` counts as a probe) to the type invariant,
  `FailuresMatchState` and `ProbesAccounted`.  Without it the first probe of a
  period might find old ones; without `FailuresMatchState` the failure counter
  has no bound.  Theorems: `TypeCorrect`, `FailuresMatch`, `ProbesBounded`,
  `ProbeDecides`, and the action property `CooldownDecides`.
  `SlotsAlwaysMatchCalls` (ClientChain): every action
  enters a call, ends one or does neither, so `SlotsMatchCalls` with types is
  inductive.  `BudgetAlwaysHolds` (RetryBudget): the bound alone is not inductive,
  as callers that have read and not yet counted will push the sum up; `BudgetInv`
  charges the budget for those whose readings let them retry (`Willing`) and says
  that a reading of the total is never too large.  `RunnersImplementBreaker`: under
  the refinement mapping every step of PolicyRunner is a step of CircuitBreaker
  for the tracked endpoint or a stutter; `PolicyInv` says that a caller has a place
  inside a breaker exactly while its operation runs, so that a new lookup never
  moves it.  The theorems of CircuitBreaker thus hold of a cached endpoint, under
  their assumption that threshold, limit and timeout are positive.
  `WindowSlides`: lazy and eager window agree; the mapping turns the ring by
  `offset`, and the proof is about `\div` and `%` of elapsed time (`DivMod`) and
  the slot that holds the k-th last interval (`Slot`).
* **ConcurrencyProofs.**  RegistryCache's `IInv` strengthens `OneFlight` to a form without
  cardinalities (`OneLeader`: any two leaders are equal).  Theorems:
  `TypeCorrect`, `SingleFlight`, and the action properties `ErrorIsLastResort`
  and `SnapshotServedWhole`.
  `PrimitivesAlwaysHold` has an invariant per primitive:
  `TakeInv` (a fetched value is with the leader or in the cache), `LockedInv`,
  `SlotsInv`, `AtomicInv`, `RateInv` (a caller about to swap has seen a last time
  more than a threshold before its own), and `PoolInv`, which counts: resources
  that are free or may be made are no more than the callers woken and not yet
  running while anyone waits, and those that have aged are the last of the list.
  `TasksInOnePlace`: `BatchInv` says pairwise that containers, batches in hand, the
  channel, running and done tasks are disjoint (`Apart`), that a batch is in hand
  only in the phases that carry one (`HoldInPhase`), and that every added task is
  `Somewhere`.  `PipeAlwaysComplete`: while nothing has disturbed the run
  (`Undisturbed`, never regained) the executor stops only at the end of the source
  and the collector is closed only after the last mapper.
* **ServicesProofs.**  TokenLimiter's `IInv`: an alive limiter has no monitor, nobody about
  to start one and `monitorStarted` clear (`AliveIsQuiet`); otherwise there is
  one token, held by the caller about to start the monitor or by the monitor
  (`OneToken`); `monitorStarted` is cleared before `alive` is set
  (`ClearedFirst`).  Theorems: `TypeCorrect`, `AtMostOneMonitor`, `AlwaysTended`.
  `RateAlwaysHeld` and the action property `WaitingAlwaysPays` (Limiters):
  `LimitInv` relates, for each kind of limiter, the meter `excess` to the level and
  age the code keeps (`BucketOK`, `LeakyOK`, `WindowOK`, `AlignedOK`, `QpsOK`): what
  is still to be had and what was taken add up to the promise, and idle time
  cannot exceed the time the level has to refill.  `MessagesAlwaysReach`:
  `BusInv` follows a publication's copy of the receivers (who stayed is in the rest
  or reached), `QueueOK` the event queue, `RedisInv` says that what a consumer was
  given lies behind its group's cursor and is pending or settled.
  `CollectionsAlwaysConsistent` has an invariant per collection.  `WheelInv`: the
  ticks until an owed timer is reached (`Left`: turns, slots and the pending
  difference) and the time it is due differ by no more than one turn, either way;
  a set, a move and a tick keep that.  `LruInv`: the list is without repetition,
  its members are the cached keys, and it is within the limit between any two steps
  of Set, Del and eviction.  `RingInv`: what a queue or a ring holds, cell by cell
  in terms of the distance from the head, through wrap-around and through the move
  into a larger array.  `ByteInv`: at most one goroutine is past the compare-and-swap,
  and the classes it settles on cover the 95 % of the calls the rule asks for; that
  a part of the classes has the same sum wherever it is taken, and never more than
  the whole, is `SumsAgree` and `SumsGrow`.
* **LifecycleProofs.**  EtcdRegistrar's `IInv` says that two active actors are equal
  (`Single`), that only granted leases have had a monitor
  (`MonitorsOfGranted`), and that a lease inside `registerOnce` is one nobody
  monitors yet (`NewLease`): the commit then hands the registration from one
  actor to the next.  Theorems: `TypeCorrect`, `SingleTender`, `RecordIsNewest`.
  `HeartbeatAlwaysKeepsEntry`: `OneHeartbeat` ties the open
  stop channel to the one running beat, and `AgeOfMisses` bounds the entry's age by
  the beats missed, one more while a beat is due.  `AlwaysQuietWhenStopped`: each
  phase of the run allows only some phases of each server (`ServersInPhase`), and
  a GracefulStop knows which run it caught (`CaughtFirst`); what is in the registry
  behind the server that Stop is at, nobody has confirmed or Deregister failed on
  (`FirstRun`), and expiry only takes away from that.
  `ResourcesAlwaysOwned`: a teardown that has passed a signal has left no provider
  of it, so nothing still writes when the files are closed.
  `RecordsAlwaysAgree`: `PipelineInv` says that the frames of a request are a
  beginning of the one longest chain (`Framed`), so that its depth tells which
  middlewares it is inside, and what has been recorded of it at that depth
  (`Whereabouts`): on the way out the answer no longer changes (`Settled`), a
  panic has recorded nothing, a refusal in the matched layout is the exception
  the property names.  The in-flight count is the number of HTTP requests at
  depth four or more.  Requests meet in that count and in the pool; what an
  earlier one left in a transporter does no harm, because in the matched layout
  the handler's outcome has been written over it when it is read (`Settled`).
  `AttrsAlwaysKept`: the property says nothing of handlers and arrays, so `LogInv`
  does.  Every handler's slots (its own attributes and those of each group) hold
  what it was given (`Carries`); no two different slots share an array (`Owners`),
  which is what the clone in `WithAttrs` is for; and a map of a record either has its own
  values or is a slot's array and the one cell behind its attributes
  (`RefersTo`).  `Handle` may write that cell, so a record under way can lose its own
  attribute (`clash`), never the handler's.  The loop of `KeyValue` is a fold; that
  it has built the maps of the first groups after each turn (`BuiltUpTo`) is an
  induction by least counterexample.  `TelemetryAlwaysHolds` is the three together.
* **ClientProofs.**  In Discovery, what has been published says too little about what is
  still unread, so `IInv` speaks of the queue: the last unread event about a
  node has its present state (`LastTells`), a node without unread events is as
  the registry has it (`CurrentDrained`), unread events agree with the registry
  on the nodes that stayed put (`EventsStable`), and the last event of all on
  every node (`LastIsNow`).  Stated node by node with quantifiers over the
  queue's positions, this needs no fold and no induction.  Theorems:
  `TypeCorrect`, `StableNodesAreServed`, `DrainedIsCaughtUp`.
  `CallsAlwaysCounted` is about Selectors and BreakerRegistry.  `SelectInv`: the
  address a p2c call looks up last is the one it was given (`LooksUp`), a call that
  has an object has that of its address until a prune hits it (`Holds`), and only
  an address without an object gets one; each object's load is the number of calls
  past `Count`.  `NamedInv`: a request is `owned` exactly if it runs under the
  breaker now stored, and a breaker that is not made yet has no results.
  `SharesAlwaysByWeight`: with the weights summed up along the list, the numbers
  that give the k-th candidate are those from the sum before it to the sum with
  it, an interval as long as its weight (`DrawnByWeight`); the picks of the other
  strategies are candidates because `SharesInv` keeps the choice inside the list
  the call was given, across updates of the members and trips of breakers.

Only model-checked:
* all liveness properties (`Recovers`, `RequestsGetThrough`, `CallAndLosersEnd`,
  `SheddingEnds`, `ConvergesToRegistry`, `CallersReturn`, `NewestOfEachSource`,
  `NothingIsStuck`, `Reregisters`, `DeregisterRemovesKey`, `RunEnds`,
  `WatchSettles`, `CallsFindNodes`): the prover has no rules for fairness and
  `ENABLED` that would carry them;
* the modules Hedge, Shedder, Config, whose properties are liveness.

Every invariant and every action property without fairness that a run checks is
stated by a theorem.

## 5. Seen while modelling, without a run of its own

Resilience
* A probe that panics keeps its slot; when all have, a half-open breaker rejects
  every request for good (`HalfOpenHasProbe` and `Recovers` except this case).
  A late result of an earlier closed period counts in a new one.
* Endpoints beyond `cbMax` get a fresh breaker per call (`resiliency/provider.go:168`
  says the state survives across lookups); a policy is not found for an application known only
  by `cfg.Name`.
* The retry limiter passes its whole window of 10 s as the interval of each of
  its 10 buckets, so the window is 100 s.  The hedge throttle can latch for
  good.  A shed request that panics counts as a pass.  After one probe interval
  several callers may force their way past the adaptive breaker.  A bulkhead
  slot is held through the backoffs of its retries.

Registries and clients
* `pruneExpiredNodesLocked` (`registry/cache/cache.go:169`, "with expired nodes
  removed") forgets the expiry time of a node and keeps the node, so the next
  read serves it again.
* A polaris watcher filters unhealthy instances from its first snapshot and not
  from the events (exception in `CaughtUp` and `Agrees`).
* Any error of Watch or Next ends the client's watch for good, also where the
  backend ends watches routinely (Kubernetes); the resolver's retry
  (`client/resolver.go:62`) covers GetService only.  That the goroutine ends with
  the watcher is documented (`client/http.go:187`), so `WatchSettles` excepts it; a
  list that is not empty then stays as it was.  A change between GetService
  and Watch is not seen by a nacos or Kubernetes client before the next event.
* Kubernetes endpoints are always `grpc://`, and those of consul, eureka and nacos
  are unless Protocol says otherwise, so an HTTP client finds no nodes there.
* `registry/registry.go:54` asks for Close only after the watchers are stopped; the
  resolver and the HTTP client cancel them and close at once.
* `registerOnce` sets `registered` without looking whether `Deregister` has run
  since `monitorLease` checked it, so `registered` can become true again; the key
  still goes away with its lease (`DeregisterRemovesKey`).  After a Revoke that
  failed nobody tries again, and such a monitor may keep the key.
* Heartbeats never register again.  A failed Deregister of consul or polaris
  cannot be retried, and the polaris SDK then keeps beating.  eureka ignores the
  status of its Deregister and turns a TTL below one second into a lease of 0.
  With `mesh.port` the gRPC and the HTTP server may share a consul or eureka ID.
* p2c prunes with the healthy candidates only, so a tripped node loses its state
  and its calls in flight; the wrapper's own breaker may drop a done.

Server and telemetry
* On cancellation a server shuts down first and is deregistered when all have
  ended (`server/runner.go:67`), where `server/server.go:6` speaks of graceful
  deregister-before-stop.  An instance whose Register failed after taking effect
  is not deregistered and leaves the registry with its lease or health check.
* The stop Once of a MeshServer is not renewed: a second `Run` never stops or
  deregisters its servers.  When `ServerOptions.Apply` fails, `Run` returns before
  it defers the shutdown and the log file stays open.
* A panicking request leaves no duration metric and no span status.  A pooled
  transporter keeps the last gRPC code (`transport/transport.go:164`), which is
  recorded for a refused request instead of its own (`middleware/semconv.go:192`).
  A refused HTTP request is answered without `c.Abort` (`middleware/middleware.go:214`),
  so the route's handler still runs (in the matched layout after the transporter
  was released), where `middleware/ratelimit.go:14` says dropped.
  `EveryRequestAccounted` excludes all three.
* A second Apply without Shutdown leaves the first providers running while their
  files get closed; after Shutdown the globals still point to closed providers.
* `kvBuffer.KeyValues` appends in place into spare capacity, so of two records
  built through one grouped handler before export one can overwrite the other's
  own attributes (`clash`, also excluded by `RecordInItsGroups`).

Concurrency and collections
* The waiters of a flight whose function panics get nil and no error.  A borrower
  of a TimeoutLimit can time out beside a free slot, as the signal sent between
  its TryBorrow and its wait is lost (`core/syncx/timeoutlimit.go:48`).  A Pool
  counts a resource whose creation panicked.
* MapReduce: a reducer that sends while `cancel` closes the output panics; a
  mapper that panics after the caller left its select blocks for ever.
* `PeriodicalExecutor.Wait` returns when `executeTasks` has started the execution
  in a goroutine, not when it is over (`core/executors/periodicalexecutor.go:86`).
* A move of a timer by less than one interval executes the task and leaves the timer
  on the wheel.  `Cache.Del` removes the timer after releasing the lock; a `Set`
  of the same key in between leaves an entry that never expires.

Services
* A canceled request context counts as an outage of the limiter's store.
  `PeriodLimit` is a fixed window where `ratelimit/periodlimit.go:35` says
  rolling.  The leaky bucket drops fractions of an interval.  Skewed clocks
  make the Redis bucket credit too much.
* Configuration: deleted keys linger; a change between Load and Watch is not
  seen; a change whose read fails is never told (`config/config.go:67`); a Watch
  after Close is never stopped; loading again can overwrite newer values.
* The event bus takes closures of one function literal for the same callback.
  The memory broker keeps cancelled subscriptions, ignores Queue, and a handler
  error stops delivery to the rest.  The Redis broker never claims what stays
  pending, and two of its subscribers without a queue share the group "default"
  and split the messages, where `broker/broker.go:73` says that each gets every one.

## 6. Plan

1. Composition: RegistryCache in front of Discovery's clients, TimingWheel as the
   timers of ExpiringCache, TokenLimiter with the buckets of Limiters.
2. Policy reload against running calls; the client interceptors of the pipeline.

## 7. Not modelled

Code whose result depends on its input alone and that keeps no state between
calls: codecs and binding, metadata and header propagation, CORS and body
limits, conversions of configuration values (`config/value.go`), flags and
validation of options, the registry's constructor tables, generated protobuf
code, the code generators under `cmd`, the examples.  SafeMap and Set are maps
behind one lock, without a protocol; the atomics other than the float are single
instructions.  Within the modelled parts: how `build`
mounts routes, the text of errors and logs, the values a cache stores and the
content of requests, the expiring cache without a limit, its hit statistics,
and the random deviation of expiry times (a timer may fire at any time anyway).
