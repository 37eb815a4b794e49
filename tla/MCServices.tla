----------------------------- MODULE MCServices -----------------------------
(* The limiters, the configuration, the brokers and buses, and the          *)
(* collections of pkg/core.  They share nothing: `part` picks the one a     *)
(* behaviour is about and the others stay as they begin.                    *)
EXTENDS TokenLimiter, Sequences

CONSTANTS
    Pair, Key, Keys,
    Burst, Interval, Cleanup, MaxLimit,             \* Limiters
    Receivers, Publishers, Dispatchers,             \* Buses; callbacks of different functions
    Capacity, MaxPushes,
    Subscribers,        \* of one Redis stream, none with a queue of its own
    MaxMessages, MaxFaults,
    Values, NumSlots, MaxDelay,                     \* TimingWheel
    Clients, Wheel, CacheLimit,                     \* ExpiringCache
    MaxSize, GrowThreshold, MaxElements,            \* Rings
    Steps, Threshold, MaxPuts                       \* BufferPool

ASSUME LimitersConstants ==
    /\ Burst \in Nat \ {0} /\ Interval \in Nat \ {0} /\ Cleanup \in Nat
    /\ MaxLimit \in Nat /\ Burst <= MaxLimit
ASSUME SendersApart == Publishers \cap Dispatchers = {}
ASSUME QueueConstants == Capacity \in Nat /\ IsFiniteSet(Receivers)
\* NewTimingWheel, WithLimit, NewQueue and NewRing demand positive sizes.
ASSUME CollectionConstants ==
    /\ NumSlots \in Nat \ {0} /\ MaxDelay \in Nat /\ CacheLimit \in Nat \ {0}
    /\ MaxSize \in Nat /\ GrowThreshold \in Nat \ {0} /\ Steps \in Nat \ {0}

VARIABLES
    part,
    kind, present, level, age, cleanupAge, phase, max, maxLoaded, seen, at, excess, idle,
    version, values, loaded, watchLoop, lastMod, changes, pending, stopped, sources,
    configClosed, missed, lost,
    subs, done, watchers, call, rest, stayed, gone, got, events, pushed,
    stream, cursor, unacked, consumer, msg, canceled, given, settled, faults,
    tickedPos, timers, item, running, stopping, fired, owed, due, latest,
    data, evicts, lock, keyTimers, actor, op, cacheClosed,
    shape, elements, head, tail, count, index, puts, held,
    calls, calibrating, defaultSize, maxSize, putter, counts, sizes, buffers, calibrated

Rates == INSTANCE Limiters WITH Callers <- Pair, loaded <- maxLoaded
Configuration == INSTANCE Config WITH
    Sources <- {1, 2}, Files <- {1}, Keys <- Key, MaxChanges <- 2,
    at <- watchLoop, events <- changes, watchers <- sources, closed <- configClosed
Bus == INSTANCE Buses WITH callbackID <- [r \in Receivers |-> r], pc <- call
Redis == INSTANCE RedisBroker WITH
    Queue <- [s \in Subscribers |-> ""], pending <- unacked, pc <- consumer, got <- given
Timing == INSTANCE TimingWheel WITH Keys <- Key
LRU == INSTANCE ExpiringCache WITH
    Limit <- CacheLimit, timers <- keyTimers, pc <- actor, closed <- cacheClosed
Circular == INSTANCE Rings WITH MaxPuts <- MaxElements, kind <- shape
Bytes == INSTANCE BufferPool WITH
    Procs <- Pair, pc <- putter, a <- counts, size <- sizes, puts <- buffers, last <- calibrated

limitVars == <<kind, present, level, age, cleanupAge, phase, max, maxLoaded, seen, at, excess, idle>>
configVars == <<version, values, loaded, watchLoop, lastMod, changes, pending, stopped, sources,
                configClosed, missed, lost>>
busVars == <<subs, done, watchers, call, rest, stayed, gone, got, events, pushed>>
redisVars == <<stream, cursor, unacked, consumer, msg, canceled, given, settled, faults>>
wheelVars == <<tickedPos, timers, item, running, stopping, fired, owed, due, latest>>
lruVars == <<data, evicts, lock, keyTimers, actor, op, cacheClosed>>
ringVars == <<shape, elements, head, tail, count, index, puts, held>>
byteVars == <<calls, calibrating, defaultSize, maxSize, putter, counts, sizes, buffers, calibrated>>
allVars == <<part, vars, limitVars, configVars, busVars, redisVars, wheelVars, lruVars, ringVars,
             byteVars>>

AllInit ==
    /\ part \in {"token", "limit", "config", "bus", "redis", "wheel", "lru", "ring", "bytes"}
    /\ Init /\ Rates!Init /\ Configuration!Init /\ Bus!Init /\ Redis!Init /\ Timing!Init /\ LRU!Init
    /\ Circular!Init /\ Bytes!Init
    /\ part # "token" => up
    /\ part # "limit" => kind = "token"
    /\ part # "wheel" => latest = [k \in Key |-> CHOOSE v \in Values : TRUE]
    /\ part # "ring" => shape = "queue" /\ Len(elements) = 1

AllNext ==
    \/ /\ part = "token" /\ Next
       /\ UNCHANGED <<part, limitVars, configVars, busVars, redisVars, wheelVars, lruVars, ringVars, byteVars>>
    \/ /\ part = "limit" /\ Rates!Next
       /\ UNCHANGED <<part, vars, configVars, busVars, redisVars, wheelVars, lruVars, ringVars, byteVars>>
    \/ /\ part = "config" /\ Configuration!Next
       /\ UNCHANGED <<part, vars, limitVars, busVars, redisVars, wheelVars, lruVars, ringVars, byteVars>>
    \/ /\ part = "bus" /\ Bus!Next
       /\ UNCHANGED <<part, vars, limitVars, configVars, redisVars, wheelVars, lruVars, ringVars, byteVars>>
    \/ /\ part = "redis" /\ Redis!Next
       /\ UNCHANGED <<part, vars, limitVars, configVars, busVars, wheelVars, lruVars, ringVars, byteVars>>
    \/ /\ part = "wheel" /\ Timing!Next
       /\ UNCHANGED <<part, vars, limitVars, configVars, busVars, redisVars, lruVars, ringVars, byteVars>>
    \/ /\ part = "lru" /\ LRU!Next
       /\ UNCHANGED <<part, vars, limitVars, configVars, busVars, redisVars, wheelVars, ringVars, byteVars>>
    \/ /\ part = "ring" /\ Circular!Next
       /\ UNCHANGED <<part, vars, limitVars, configVars, busVars, redisVars, wheelVars, lruVars, byteVars>>
    \/ /\ part = "bytes" /\ Bytes!Next
       /\ UNCHANGED <<part, vars, limitVars, configVars, busVars, redisVars, wheelVars, lruVars, ringVars>>

\* The fairness of the parts' own specifications: calls return, tickers tick,
\* goroutines run, and a select is not unlucky for ever.
AllSpec ==
    /\ AllInit /\ [][AllNext]_allVars
    /\ \A c \in Callers : WF_vars(part = "token" /\ CallStep(c))
    /\ WF_vars(part = "token" /\ PingOK) /\ WF_vars(part = "token" /\ ClearStarted)
    /\ WF_vars(part = "token" /\ MarkAlive) /\ WF_vars(part = "token" /\ MonitorStops)
    /\ \A s \in {1, 2} :
         /\ WF_configVars(part = "config" /\ Configuration!Step(s))
         /\ WF_configVars(part = "config" /\ Configuration!NextStopped(s))
    /\ WF_wheelVars(part = "wheel" /\ Timing!Tick)
    /\ \A a \in Clients \cup {Wheel} : SF_lruVars(part = "lru" /\ LRU!Step(a))

\* No limiter lets in more than its rate (Limiters).
RateHeld == Rates!RateHeld
\* Waiting long enough earns a place (Limiters).
WaitingPays == Rates!WaitingPays
\* Watched sources end up with their newest version (Config).
NewestOfEachSource == Configuration!NewestOfEachSource
\* The wheel's goroutine serves its channels (ExpiringCache).
WheelServesItsChannels == LRU!WheelServesItsChannels

\* Tasks fire after their delay (TimingWheel).
TimersOnTime == Timing!TimersOnTime

\* A published message is not lost on its way: the memory broker and the event
\* bus reach every receiver that stays, whoever leaves meanwhile (Buses), and
\* a message the Redis broker took from the stream is settled by one handler
\* or still pending (RedisBroker).
MessagesReach == Bus!ReachesThoseWhoStay /\ Redis!SettledOrPending

\* pkg/core/collection keeps its two views of a key together: a timer fires
\* within a turn of its time and with the value last set (TimingWheel), and
\* the LRU list holds exactly the cached keys, within the limit, while Set and
\* Del touch map, list and timer in separate steps (ExpiringCache).  Queue and
\* Ring keep order through growth and wrap-around (Rings), and the byte buffer
\* pool's two sizes come from one calibration (BufferPool).
CollectionsConsistent ==
    /\ Timing!WithinOneTurn /\ Timing!CarriesLatestValue /\ LRU!ListMatchesData
    /\ Circular!InOrder /\ Bytes!SizesOfOneCalibration

\* Nothing waits for ever: the limiter comes back to a store that stays up and
\* its monitor ends with Close (TokenLimiter), a due timer fires (TimingWheel),
\* and Set and Del return although an eviction blocks under the cache's lock
\* (ExpiringCache).
NothingIsStuck ==
    ComesBack /\ CloseEndsMonitors /\ Timing!OwedFires /\ LRU!ClientsReturn
=============================================================================
