-------------------------- MODULE ConcurrencyProofs --------------------------
(***************************************************************************)
(* The discovery cache and the concurrency toolkit of pkg/core for any     *)
(* number of callers, any limit and any interleaving: the primitives of    *)
(* syncx, the executors and MapReduce.  The parts of MCConcurrency share no *)
(* variable, so each is proved from its own steps.                         *)
(***************************************************************************)
EXTENDS MCConcurrency, FiniteSetTheorems, SequenceTheorems, TLAPS

-----------------------------------------------------------------------------
(* RegistryCache, for any callers, nodes and TTLs.                         *)

\* OneFlight without cardinalities: there is one leader at most, and whoever
\* waits waits for a leader.
OneLeader ==
    /\ \A c, d \in Leaders : c = d
    /\ Leaders = {} => \A c \in Callers : pc[c] = "idle"

IInv == TypeOK /\ OneLeader

-----------------------------------------------------------------------------
\* The end of a flight is well typed and leaves nobody behind.
LEMMA DeliverEnds ==
    ASSUME NEW how \in {"cached", "fresh", "degraded", "error"}, NEW S \in SUBSET Nodes, Deliver(how, S)
    PROVE  /\ pc' \in [Callers -> Phase] /\ answer' \in [Callers -> Answer] /\ result' \in Result
           /\ OneLeader'
  <1>1. Failed \in Answer
    BY Zenon DEF Failed, Answer
  <1> QED
    BY <1>1 DEF Deliver, Phase, Result, OneLeader, Leaders

LEMMA InitIInv == Init => IInv
  <1> SUFFICES ASSUME Init PROVE IInv
    OBVIOUS
  <1>1. Failed \in Answer
    BY Zenon DEF Failed, Answer
  <1>2. MaxAge \in Nat
    BY CacheAssumption DEF MaxAge
  <1>3. up \in BOOLEAN /\ known \in BOOLEAN
    BY Zenon DEF Init
  <1>4. TypeOK
    BY <1>1, <1>2, <1>3, CacheAssumption DEF Init, TypeOK, Phase, Result
  <1> QED
    BY <1>4 DEF Init, IInv, OneLeader, Leaders

\* Joining or leading a flight: the first caller leads, the others wait.
LEMMA GetServiceIInv ==
    ASSUME IInv, NEW c \in Callers, GetService(c)
    PROVE  IInv'
  <1>1. TypeOK'
    BY DEF IInv, GetService, Do, cacheVars, TypeOK, Phase
  <1>2. CASE Leaders = {}
    <2>1. Leaders' = {c}
      BY <1>2 DEF IInv, TypeOK, OneLeader, GetService, Do, Leaders
    <2> QED
      BY <1>1, <2>1 DEF IInv, OneLeader
  <1>3. CASE Leaders # {}
    <2>1. Leaders' = Leaders
      BY <1>3 DEF IInv, TypeOK, GetService, Do, Leaders
    <2> QED
      BY <1>1, <1>3, <2>1 DEF IInv, OneLeader
  <1> QED
    BY <1>2, <1>3

\* The leader's steps keep it the only leader until it delivers.
LEMMA FetchIInv ==
    ASSUME IInv, NEW c \in Callers, FetchStep(c)
    PROVE  IInv'
  <1> USE CacheAssumption
  <1>0. MaxAge \in Nat
    BY DEF MaxAge
  <1>1. CASE Check(c)
    <2>1. CASE PruneExpiredNodes /\ UNCHANGED <<known, insts, age, sinceTry>>
      <3>1. insts \ Expired \in SUBSET Nodes /\ nttls' \in SUBSET insts'
        BY <2>1 DEF IInv, TypeOK, PruneExpiredNodes
      <3>2. /\ pc' \in [Callers -> Phase] /\ answer' \in [Callers -> Answer] /\ result' \in Result
            /\ OneLeader'
        BY <2>1, <3>1, DeliverEnds DEF PruneExpiredNodes
      <3> QED
        BY <1>1, <2>1, <3>1, <3>2 DEF IInv, TypeOK, Check
    <2>2. CASE pc' = [pc EXCEPT ![c] = "remote"] /\ UNCHANGED <<cacheVars, answer, result>>
      <3>1. TypeOK' /\ Leaders' = Leaders
        BY <1>1, <2>2 DEF IInv, TypeOK, Check, cacheVars, Phase, Leaders
      <3> QED
        BY <1>1, <3>1 DEF IInv, OneLeader, Check, Leaders
    <2> QED
      BY <1>1, <2>1, <2>2 DEF Check
  <1>2. CASE Remote(c)
    <2>1. [ok |-> TRUE, insts |-> registry] \in Answer /\ Failed \in Answer
      BY DEF IInv, TypeOK, Answer, Failed
    <2>2. TypeOK'
      BY <1>2, <2>1 DEF IInv, TypeOK, Remote, cacheVars, Phase
    <2>3. Leaders' = Leaders
      BY <1>2 DEF IInv, TypeOK, Remote, Leaders
    <2> QED
      BY <1>2, <2>2, <2>3 DEF IInv, OneLeader, Remote, Leaders
  <1>3. CASE Store(c)
    <2>1. answer[c].insts \in SUBSET Nodes
      BY DEF IInv, TypeOK, Answer
    <2>2. \E how \in {"cached", "fresh", "degraded", "error"}, S \in SUBSET Nodes : Deliver(how, S)
      BY <1>3, <2>1 DEF IInv, TypeOK, Store, StoreFailure, StoreSuccess
    <2>3. /\ pc' \in [Callers -> Phase] /\ answer' \in [Callers -> Answer] /\ result' \in Result
          /\ OneLeader'
      BY <2>2, DeliverEnds
    <2>4. known' \in BOOLEAN
      BY <1>3, Zenon DEF IInv, TypeOK, Store, StoreFailure, StoreSuccess
    <2>5. insts' \in SUBSET Nodes /\ nttls' \in SUBSET insts' /\ age' \in 0..MaxAge
          /\ sinceTry' \in 0..MinRetryInterval
      BY <1>0, <1>3, <2>1 DEF IInv, TypeOK, Store, StoreFailure, StoreSuccess
    <2> QED
      BY <1>3, <2>3, <2>4, <2>5 DEF IInv, TypeOK, Store
  <1> QED
    BY <1>1, <1>2, <1>3 DEF FetchStep

\* Time and the registry do not touch the flight.
LEMMA OtherIInv ==
    ASSUME IInv, Tick \/ RegistryChange \/ UNCHANGED vars
    PROVE  IInv'
  <1> USE CacheAssumption
  <1>1. up' \in BOOLEAN /\ registry' \in SUBSET Nodes
    BY Zenon DEF IInv, TypeOK, Tick, RegistryChange, vars
  <1>2. MaxAge \in Nat
    BY DEF MaxAge
  <1>3. TypeOK'
    BY <1>1, <1>2 DEF IInv, TypeOK, Tick, RegistryChange, cacheVars, vars
  <1>4. pc' = pc
    BY DEF Tick, RegistryChange, vars
  <1> QED
    BY <1>3, <1>4 DEF IInv, OneLeader, Leaders

-----------------------------------------------------------------------------
\* The inductive invariant: a flight has one leader and nobody waits without.
THEOREM Inductive == Spec => []IInv
  <1>1. IInv /\ [Next]_vars => IInv'
    BY GetServiceIInv, FetchIInv, OtherIInv DEF Next
  <1> QED
    BY InitIInv, <1>1, PTL DEF Spec

\* Type correctness; in particular the node TTLs never outlive the snapshot
\* they were stored with.
THEOREM TypeCorrect == Spec => []TypeOK
  BY Inductive, PTL DEF IInv

\* sg.Do lets one caller ask the registry, however many arrive at once.
THEOREM SingleFlight == Spec => []OneFlight
  <1>1. IInv => OneFlight
    <2> SUFFICES ASSUME IInv PROVE Cardinality(Leaders) <= 1
      BY DEF IInv, OneLeader, OneFlight
    <2>1. CASE Leaders = {}
      BY <2>1, FS_EmptySet
    <2>2. CASE Leaders # {}
      <3>1. PICK c \in Leaders : Leaders = {c}
        BY <2>2 DEF IInv, OneLeader
      <3>2. Cardinality(Leaders) = 1
        BY <3>1, FS_Singleton
      <3> QED
        BY <3>2
    <2> QED
      BY <2>1, <2>2
  <1> QED
    BY Inductive, <1>1, PTL

\* A step that ends a flight is a delivery by fetch.
LEMMA ReturningDelivers ==
    ASSUME IInv, Next, Returning
    PROVE  \E c \in Callers :
             \/ Check(c) /\ PruneExpiredNodes /\ UNCHANGED insts
             \/ Store(c)
  <1>1. PICK d \in Leaders : pc'[d] = "idle"
    BY DEF Returning
  <1>2. d \in Callers /\ pc[d] \in {"check", "remote", "answered"}
    BY DEF Leaders
  <1>3. ASSUME NEW c \in Callers, GetService(c) PROVE FALSE
    BY <1>1, <1>2, <1>3 DEF IInv, TypeOK, GetService, Do
  <1>4. ASSUME NEW c \in Callers, Remote(c) PROVE FALSE
    BY <1>1, <1>2, <1>4 DEF IInv, TypeOK, Remote
  <1>5. ASSUME NEW c \in Callers, Check(c) PROVE PruneExpiredNodes /\ UNCHANGED insts
    BY <1>1, <1>2, <1>5 DEF IInv, TypeOK, Check
  <1>6. ~Tick /\ ~RegistryChange
    BY <1>1, <1>2 DEF Tick, RegistryChange
  <1> QED
    BY <1>3, <1>4, <1>5, <1>6 DEF Next, FetchStep

\* A caller sees the registry's error only when the cache has no node to fall
\* back on: fetch never loses the snapshot it could serve.
THEOREM ErrorIsLastResort == Spec => ErrorOnlyWithoutSnapshot
  <1>1. IInv /\ [Next]_vars =>
          [Returning /\ result'.how = "error" => insts = {} /\ insts' = {}]_vars
    <2> SUFFICES ASSUME IInv, Next, Returning, result'.how = "error"
                 PROVE  insts = {} /\ insts' = {}
      OBVIOUS
    <2>1. PICK c \in Callers : (Check(c) /\ PruneExpiredNodes /\ UNCHANGED insts) \/ Store(c)
      BY ReturningDelivers
    <2> QED
      BY <2>1 DEF PruneExpiredNodes, Deliver, Store, StoreFailure, StoreSuccess
  <1> QED
    BY Inductive, <1>1, PTL DEF Spec, ErrorOnlyWithoutSnapshot

\* While the node TTL of a snapshot runs, an answer from the cache is all of
\* the snapshot.
THEOREM SnapshotServedWhole == Spec => FreshNodesServed
  <1>1. IInv /\ [Next]_vars =>
          [Returning /\ result'.how = "cached" /\ age <= NodeTTL => result'.insts = insts]_vars
    <2> SUFFICES ASSUME IInv, Next, Returning, result'.how = "cached", age <= NodeTTL
                 PROVE  result'.insts = insts
      OBVIOUS
    <2>1. PICK c \in Callers : (Check(c) /\ PruneExpiredNodes /\ UNCHANGED insts) \/ Store(c)
      BY ReturningDelivers
    <2>2. Expired = {}
      BY CacheAssumption DEF IInv, TypeOK, MaxAge, Expired
    <2>3. ~Store(c)
      BY DEF Store, StoreFailure, StoreSuccess, Deliver
    <2> QED
      BY <2>1, <2>2, <2>3 DEF PruneExpiredNodes, Deliver
  <1> QED
    BY Inductive, <1>1, PTL DEF Spec, FreshNodesServed

-----------------------------------------------------------------------------
(* The steps of a part.                                                    *)

LEMMA SafetyOfAll == AllSpec => AllInit /\ [][AllNext]_allVars
  BY PTL DEF AllSpec

LEMMA PartsMove ==
  ASSUME [AllNext]_allVars
  PROVE  /\ [Batching!Next]_batchVars /\ [Taking!Next]_takeVars /\ [Locked!Next]_lockedVars
         /\ [Resources!Next]_resourceVars /\ [Slots!Next]_slotVars /\ [Rate!Next]_rateVars
         /\ [Reduce!Next]_reduceVars /\ [Atomic!Next]_atomicVars
  BY DEF AllNext, allVars, vars, batchVars, takeVars, lockedVars, resourceVars, slotVars, rateVars,
         reduceVars, atomicVars

\* The instances count with the same Cardinality.
LEMMA SameCardinality ==
  \A S : /\ Batching!Cardinality(S) = Cardinality(S) /\ Resources!Cardinality(S) = Cardinality(S)
         /\ Slots!Cardinality(S) = Cardinality(S) /\ Atomic!Cardinality(S) = Cardinality(S)
         /\ Reduce!Cardinality(S) = Cardinality(S)
  BY DEF Batching!Cardinality, Resources!Cardinality, Slots!Cardinality, Atomic!Cardinality,
         Reduce!Cardinality, Cardinality

-----------------------------------------------------------------------------
(* Cache.Take: one fetch between two removals.                             *)

\* The flight has one leader; while it fetches nobody else can cache the key,
\* so that a value fetched is either on its way to the cache or in it.
TakeInv ==
    /\ DOMAIN taker = Trio /\ data \in BOOLEAN
    /\ loads \in Nat /\ removals \in Nat
    /\ \A c \in Trio : taker[c] \in {"check", "fetch", "set", "delete"} => flight = c
    /\ \A c \in Trio : taker[c] \in {"fetch", "set"} => data = FALSE
    /\ data = TRUE => loads = removals + 1
    /\ \A c \in Trio : taker[c] = "set" => loads = removals + 1
    /\ data = FALSE /\ (\A c \in Trio : taker[c] # "set") => loads = removals

LEMMA TakeInvStep == TakeInv /\ [Taking!Next]_takeVars => TakeInv'
<1> SUFFICES ASSUME TakeInv, [Taking!Next]_takeVars
             PROVE  TakeInv'
  OBVIOUS
<1> USE DEF TakeInv, Taking!Goto
<1>1. CASE UNCHANGED takeVars
  BY <1>1 DEF takeVars
<1>2. CASE Taking!Remove
  BY <1>2 DEF Taking!Remove
<1>3. ASSUME NEW c \in Trio, Taking!Take(c)
      PROVE  TakeInv'
  BY <1>3 DEF Taking!Take
<1>4. ASSUME NEW c \in Trio, Taking!createCall(c)
      PROVE  TakeInv'
  BY <1>4, NoOneIsNobody DEF Taking!createCall
<1>5. ASSUME NEW c \in Trio, Taking!Check(c)
      PROVE  TakeInv'
  BY <1>5 DEF Taking!Check
<1>6. ASSUME NEW c \in Trio, Taking!Fetch(c)
      PROVE  TakeInv'
  BY <1>6 DEF Taking!Fetch
<1>7. ASSUME NEW c \in Trio, Taking!Set(c)
      PROVE  TakeInv'
  BY <1>7 DEF Taking!Set
<1>8. ASSUME NEW c \in Trio, Taking!DeleteCall(c) \/ Taking!Done(c) \/ Taking!Wake(c)
      PROVE  TakeInv'
  BY <1>8 DEF Taking!DeleteCall, Taking!Done, Taking!Wake
<1>9. QED
  BY <1>1, <1>2, <1>3, <1>4, <1>5, <1>6, <1>7, <1>8 DEF Taking!Next, Taking!Step

-----------------------------------------------------------------------------
(* LockedCalls: one function of a key at a time, everybody its own.        *)

LockedInv ==
    /\ DOMAIN locker = Trio /\ DOMAIN ownRan = Trio
    /\ \A c \in Trio : locker[c] \in {"fn", "delete"} => holder = c
    /\ Locked!RunsAlone

LEMMA LockedInvStep == LockedInv /\ [Locked!Next]_lockedVars => LockedInv'
<1> SUFFICES ASSUME LockedInv, [Locked!Next]_lockedVars
             PROVE  LockedInv'
  OBVIOUS
<1> USE DEF LockedInv, Locked!Goto, Locked!RunsAlone
<1>1. CASE UNCHANGED lockedVars
  BY <1>1 DEF lockedVars
<1>2. ASSUME NEW c \in Trio, Locked!Do(c)
      PROVE  LockedInv'
  BY <1>2 DEF Locked!Do
<1>3. ASSUME NEW c \in Trio, Locked!Begin(c)
      PROVE  LockedInv'
  BY <1>3, NoOneIsNobody DEF Locked!Begin
<1>4. ASSUME NEW c \in Trio, Locked!RunFn(c)
      PROVE  LockedInv'
  BY <1>4 DEF Locked!RunFn
<1>5. ASSUME NEW c \in Trio, Locked!DeleteKey(c) \/ Locked!Done(c) \/ Locked!Wake(c)
      PROVE  LockedInv'
  BY <1>5 DEF Locked!DeleteKey, Locked!Done, Locked!Wake
<1>6. QED
  BY <1>1, <1>2, <1>3, <1>4, <1>5 DEF Locked!Next, Locked!Step

-----------------------------------------------------------------------------
(* TimeoutLimit: the slots are those of the holders.                       *)

Holders == {c \in Trio : borrower[c] = "held"}
SlotsInv == DOMAIN borrower = Trio /\ borrowed = Cardinality(Holders)

LEMMA HoldersFinite == IsFiniteSet(Holders) /\ Cardinality(Holders) \in Nat
  BY CallersFinite, FS_Subset, FS_CardinalityType DEF Holders

\* A step takes a slot for a caller that holds none, gives back that of one
\* that does, or changes neither.
LEMMA SlotsStepKinds ==
  ASSUME SlotsInv, NEW c \in Trio,
         Slots!Borrow(c) \/ Slots!Return(c) \/ Slots!Step(c)
  PROVE  /\ DOMAIN borrower' = Trio
         /\ \/ borrowed' = borrowed /\ Holders' = Holders
            \/ c \notin Holders /\ borrowed' = borrowed + 1 /\ Holders' = Holders \cup {c}
            \/ c \in Holders /\ borrowed' = borrowed - 1 /\ Holders' = Holders \ {c}
<1> USE DEF SlotsInv, Holders, Slots!Goto
<1>1. CASE Slots!Borrow(c)
  BY <1>1 DEF Slots!Borrow, Slots!TryBorrow
<1>2. CASE Slots!Return(c)
  BY <1>2 DEF Slots!Return
<1>3. CASE Slots!Wait(c) \/ Slots!TimesOut(c)
  BY <1>3 DEF Slots!Wait, Slots!TimesOut
<1>4. CASE Slots!Signalled(c)
  BY <1>4 DEF Slots!Signalled, Slots!TryBorrow
<1>5. CASE Slots!Signal(c)
  BY <1>5 DEF Slots!Signal
<1>6. QED
  BY <1>1, <1>2, <1>3, <1>4, <1>5 DEF Slots!Step

LEMMA SlotsInvStep == SlotsInv /\ [Slots!Next]_slotVars => SlotsInv'
<1> SUFFICES ASSUME SlotsInv, [Slots!Next]_slotVars
             PROVE  SlotsInv'
  OBVIOUS
<1>1. CASE UNCHANGED slotVars
  BY <1>1 DEF slotVars, SlotsInv, Holders
<1>2. ASSUME NEW c \in Trio, Slots!Borrow(c) \/ Slots!Return(c) \/ Slots!Step(c)
      PROVE  SlotsInv'
  <2>1. CASE borrowed' = borrowed /\ Holders' = Holders
    BY <1>2, <2>1, SlotsStepKinds DEF SlotsInv
  <2>2. CASE c \notin Holders /\ borrowed' = borrowed + 1 /\ Holders' = Holders \cup {c}
    BY <1>2, <2>2, SlotsStepKinds, HoldersFinite, FS_AddElement DEF SlotsInv
  <2>3. CASE c \in Holders /\ borrowed' = borrowed - 1 /\ Holders' = Holders \ {c}
    BY <1>2, <2>3, SlotsStepKinds, HoldersFinite, FS_RemoveElement DEF SlotsInv
  <2>4. QED
    BY <1>2, <2>1, <2>2, <2>3, SlotsStepKinds
<1>3. QED
  BY <1>1, <1>2 DEF Slots!Next

-----------------------------------------------------------------------------
(* DelayExecutor and LessExecutor.                                         *)

\* A set trigger has its goroutine behind the timer.  lastTime is the last run
\* let through, and a caller about to swap has seen a lastTime that is more
\* than a threshold older than its own time.
RateInv ==
    /\ delayed \in Nat /\ starting \in Nat
    /\ triggered = TRUE => delayed > 0
    /\ owed = TRUE => delayed + starting > 0
    /\ DOMAIN discarder = Pair /\ now \in [Pair -> Nat] /\ seen \in [Pair -> Nat]
    /\ clock \in Nat \ {0} /\ lastTime \in Nat /\ ran \subseteq Nat
    /\ lastTime = 0 => ran = {}
    /\ \A t \in ran : t <= lastTime
    /\ \A t, u \in ran : t < u => t + Threshold < u
    /\ \A c \in Pair : discarder[c] \in {"load", "swap"} => now[c] # 0
    /\ \A c \in Pair : discarder[c] = "swap" => seen[c] = 0 \/ seen[c] + Threshold < now[c]

LEMMA RateInvStep == RateInv /\ [Rate!Next]_rateVars => RateInv'
<1> SUFFICES ASSUME RateInv, [Rate!Next]_rateVars
             PROVE  RateInv'
  OBVIOUS
<1> USE LimitsAreNumbers DEF RateInv, Rate!Goto, Rate!delayVars, Rate!lessVars
<1>1. CASE UNCHANGED rateVars
  BY <1>1 DEF rateVars
<1>2. CASE Rate!Trigger
  BY <1>2 DEF Rate!Trigger
<1>3. CASE Rate!TimerFires \/ Rate!CallFn
  <2>1. CASE Rate!TimerFires
    <3>1. delayed' \in Nat /\ starting' \in Nat /\ delayed' + starting' = delayed + starting
      BY <2>1 DEF Rate!TimerFires
    <3>2. QED
      BY <2>1, <3>1 DEF Rate!TimerFires
  <2>2. CASE Rate!CallFn
    BY <2>2 DEF Rate!CallFn
  <2>3. QED
    BY <1>3, <2>1, <2>2
<1>4. CASE Rate!Tick
  BY <1>4 DEF Rate!Tick
<1>5. ASSUME NEW c \in Pair, Rate!DoOrDiscard(c)
      PROVE  RateInv'
  BY <1>5 DEF Rate!DoOrDiscard
<1>6. ASSUME NEW c \in Pair, Rate!Load(c)
      PROVE  RateInv'
  BY <1>6 DEF Rate!Load
<1>7. ASSUME NEW c \in Pair, Rate!CompareAndSwap(c)
      PROVE  RateInv'
  <2>1. CASE lastTime = seen[c]
    <3>1. lastTime' = now[c] /\ ran' = ran \cup {now[c]} /\ now[c] \in Nat \ {0}
      BY <1>7, <2>1 DEF Rate!CompareAndSwap
    <3>2. \A t \in ran : t + Threshold < now[c]
      BY <1>7, <2>1 DEF Rate!CompareAndSwap
    <3>3. /\ ran' \subseteq Nat /\ lastTime' \in Nat \ {0}
          /\ \A t \in ran' : t <= lastTime'
      <4>1. \A t \in ran : t \in Nat /\ t <= now[c]
        BY <3>1, <3>2
      <4>2. now[c] \in Nat /\ now[c] <= now[c]
        BY <3>1
      <4>3. QED
        BY <3>1, <4>1, <4>2, Zenon
    <3>4. ASSUME NEW t \in ran', NEW u \in ran', t < u
          PROVE  t + Threshold < u
      <4>1. CASE u = now[c]
        BY <3>1, <3>2, <3>4, <4>1
      <4>2. CASE t \in ran /\ u \in ran
        BY <3>4, <4>2
      <4>3. CASE t = now[c] /\ u \in ran
        BY <3>1, <3>2, <3>4, <4>3
      <4>4. QED
        BY <3>1, <4>1, <4>2, <4>3
    <3>5. QED
      BY <1>7, <2>1, <3>1, <3>3, <3>4 DEF Rate!CompareAndSwap
  <2>2. CASE lastTime # seen[c]
    BY <1>7, <2>2 DEF Rate!CompareAndSwap
  <2>3. QED
    BY <2>1, <2>2
<1>8. QED
  BY <1>1, <1>2, <1>3, <1>4, <1>5, <1>6, <1>7 DEF Rate!Next

-----------------------------------------------------------------------------
(* AtomicFloat64.Add and SpinLock.                                         *)

Lockers == {p \in Pair : proc[p] = "locked"}
AtomicInv ==
    /\ DOMAIN proc = Pair /\ lock \in {0, 1}
    /\ value = sum
    /\ Cardinality(Lockers) = lock

LEMMA LockersFinite == IsFiniteSet(Lockers) /\ Cardinality(Lockers) \in Nat
  BY CallersFinite, FS_Subset, FS_CardinalityType DEF Lockers

LEMMA AtomicInvStep == AtomicInv /\ [Atomic!Next]_atomicVars => AtomicInv'
<1> SUFFICES ASSUME AtomicInv, [Atomic!Next]_atomicVars
             PROVE  AtomicInv'
  OBVIOUS
<1>1. CASE UNCHANGED atomicVars
  BY <1>1 DEF atomicVars, AtomicInv, Lockers
<1>2. ASSUME NEW p \in Pair, Atomic!Add(p) \/ Atomic!Set(p) \/ Atomic!Lock(p) \/ Atomic!Load(p)
                             \/ Atomic!Swap(p)
      PROVE  AtomicInv'
  <2>1. /\ Lockers' = Lockers /\ lock' = lock /\ DOMAIN proc' = Pair /\ value' = sum'
    BY <1>2 DEF AtomicInv, Lockers, Atomic!Goto, Atomic!Add, Atomic!Set, Atomic!Lock, Atomic!Load,
                Atomic!Swap, Atomic!Return
  <2>2. QED
    BY <2>1 DEF AtomicInv
<1>3. ASSUME NEW p \in Pair, Atomic!TryLock(p)
      PROVE  AtomicInv'
  <2>1. /\ p \notin Lockers /\ Lockers' = Lockers \cup {p} /\ lock = 0 /\ lock' = 1
        /\ DOMAIN proc' = Pair /\ value' = sum'
    BY <1>3 DEF AtomicInv, Lockers, Atomic!Goto, Atomic!TryLock
  <2>2. QED
    BY <2>1, LockersFinite, FS_AddElement DEF AtomicInv
<1>4. ASSUME NEW p \in Pair, Atomic!Unlock(p)
      PROVE  AtomicInv'
  <2>1. /\ p \in Lockers /\ Lockers' = Lockers \ {p} /\ lock' = 0
        /\ DOMAIN proc' = Pair /\ value' = sum'
    BY <1>4 DEF AtomicInv, Lockers, Atomic!Goto, Atomic!Unlock
  <2>2. Cardinality(Lockers) # 0
    BY <2>1, LockersFinite, FS_EmptySet
  <2>3. QED
    BY <2>1, <2>2, LockersFinite, FS_RemoveElement DEF AtomicInv
<1>5. QED
  BY <1>1, <1>2, <1>3, <1>4 DEF Atomic!Next, Atomic!Step

-----------------------------------------------------------------------------
(* Pool: no waiter beside a free resource.                                 *)

\* Resources are put at the head and age from the tail, so the aged ones are
\* the last ones; a caller is in one place at a time.
PoolInv ==
    /\ idle \in Seq(BOOLEAN) /\ created \in Nat /\ lost \in Nat
    /\ \A i, j \in 1..Len(idle) : i < j /\ idle[i] => idle[j]
    /\ held \subseteq Four /\ waiting \subseteq Four /\ woken \subseteq Four
    /\ held \cap waiting = {} /\ held \cap woken = {} /\ waiting \cap woken = {}
    /\ created = Len(idle) + Cardinality(held) + lost
    /\ waiting # {} => Len(idle) + (PoolLimit - created) <= Cardinality(woken)

LEMMA PoolCounts ==
  ASSUME PoolInv
  PROVE  /\ IsFiniteSet(held) /\ Cardinality(held) \in Nat
         /\ IsFiniteSet(woken) /\ Cardinality(woken) \in Nat
         /\ Len(idle) \in Nat
  BY CallersFinite, FS_Subset, FS_CardinalityType, LenProperties DEF PoolInv

\* Get's loop destroys nothing when the head is fresh and everything when it is
\* aged: only then does it meet a fresh resource, or none.
LEMMA AgedIs ==
  ASSUME PoolInv
  PROVE  Resources!Aged \in 0..Len(idle) /\ (Resources!Aged < Len(idle) => Resources!Aged = 0)
<1> DEFINE n == Len(idle)
           P(k) == (\A i \in 1..k : idle[i]) /\ (k < n => ~idle[k + 1])
<1>0. n \in Nat
  BY PoolCounts
<1>1. \E k \in 0..n : P(k)
  <2>1. CASE n = 0
    BY <2>1
  <2>2. CASE n # 0 /\ idle[1]
    <3>1. \A i \in 1..n : idle[i]
      BY <1>0, <2>2 DEF PoolInv
    <3>2. P(n) /\ n \in 0..n
      BY <1>0, <3>1
    <3>3. QED
      BY <3>2
  <2>3. CASE n # 0 /\ ~idle[1]
    <3>1. P(0) /\ 0 \in 0..n
      BY <1>0, <2>3
    <3>2. QED
      BY <3>1
  <2>4. QED
    BY <2>1, <2>2, <2>3
<1>2. Resources!Aged \in 0..n /\ P(Resources!Aged)
  BY <1>1 DEF Resources!Aged
<1>3. ASSUME Resources!Aged < n, Resources!Aged # 0
      PROVE  FALSE
  <2> DEFINE k == Resources!Aged
  <2>1. idle[1] /\ ~idle[k + 1] /\ 1 \in 1..n /\ k + 1 \in 1..n /\ 1 < k + 1
    BY <1>0, <1>2, <1>3
  <2> HIDE DEF k
  <2>2. QED
    BY <2>1 DEF PoolInv
<1>4. QED
  BY <1>2, <1>3

\* What Get's loop does: it takes a resource or a place, so that one less is
\* free; it loses the place to a panic of create; or it waits with none free.
FreeAfter == Len(idle') + (PoolLimit - created')
IdleOrdered == \A i, j \in 1..Len(idle) : i < j /\ idle[i] => idle[j]

LoopKind(c) ==
    /\ idle' \in Seq(BOOLEAN) /\ created' \in Nat /\ Len(idle') \in Nat /\ IdleOrdered'
    /\ \/ /\ held' = held \cup {c} /\ lost' = lost /\ waiting' = waiting
          /\ created' = Len(idle') + Cardinality(held) + lost + 1
          /\ FreeAfter = Len(idle) + (PoolLimit - created) - 1
       \/ /\ held' = held /\ lost' = lost + 1 /\ waiting' = waiting
          /\ created' = Len(idle') + Cardinality(held) + lost + 1
          /\ FreeAfter = Len(idle) + (PoolLimit - created) - 1
       \/ /\ held' = held /\ lost' = lost /\ waiting' = waiting \cup {c}
          /\ created' = Len(idle') + Cardinality(held) + lost
          /\ FreeAfter <= 0

LEMMA LoopKinds ==
  ASSUME PoolInv, NEW c \in Four, Resources!Loop(c)
  PROVE  LoopKind(c)
<1> DEFINE n == Len(idle)
           a == Resources!Aged
           h == Cardinality(held)
<1>0. /\ n \in Nat /\ h \in Nat /\ lost \in Nat /\ PoolLimit \in Nat /\ created = n + h + lost
      /\ a \in 0..n /\ (a < n => a = 0)
  BY PoolCounts, AgedIs, LimitsAreNumbers DEF PoolInv
<1> HIDE DEF n, a, h
<1>1. CASE a < n
  <2>0. a = 0
    BY <1>0, <1>1
  <2>1. /\ idle' = SubSeq(idle, 2, n) /\ created' = created
        /\ held' = held \cup {c} /\ waiting' = waiting /\ lost' = lost
    BY <1>0, <1>1, <2>0 DEF Resources!Loop, Resources!Remaining, n, a
  <2>2. /\ idle' \in Seq(BOOLEAN) /\ Len(idle') = n - 1
        /\ \A i \in 1..(n - 1) : idle'[i] = idle[i + 1]
    <3>1. idle \in Seq(BOOLEAN) /\ 2 \in 1..(n + 1) /\ n \in 1..n /\ n \in Nat /\ n # 0
      BY <1>0, <1>1, <2>0 DEF PoolInv
    <3>2. \A i \in 2..n : idle[i] \in BOOLEAN
      BY <3>1 DEF n
    <3>3. idle' \in Seq(BOOLEAN)
      BY <2>1, <3>1, <3>2, SubSeqProperties
    <3>4. Len(idle') = n - 1
      BY <2>1, <3>1, <3>2, SubSeqProperties
    <3>5. ASSUME NEW i \in 1..(n - 1)
          PROVE  idle'[i] = idle[i + 1]
      BY <2>1, <3>1 DEF n
    <3>6. QED
      BY <3>3, <3>4, <3>5
  <2>3. IdleOrdered'
    <3> SUFFICES ASSUME NEW i \in 1..(n - 1), NEW j \in 1..(n - 1), i < j, idle'[i]
                 PROVE  idle'[j]
      BY <2>2 DEF IdleOrdered
    <3>1. i + 1 \in 1..n /\ j + 1 \in 1..n /\ i + 1 < j + 1
      BY <1>0
    <3>2. QED
      BY <2>2, <3>1 DEF PoolInv, n
  <2>4. FreeAfter = n + (PoolLimit - created) - 1 /\ Len(idle') \in Nat
    BY <1>0, <1>1, <2>1, <2>2 DEF FreeAfter
  <2>5. created' = Len(idle') + h + lost + 1 /\ created' \in Nat
    BY <1>0, <2>1, <2>2
  <2>6. QED
    BY <2>1, <2>2, <2>3, <2>4, <2>5 DEF n, h, LoopKind
<1>2. CASE ~(a < n)
  <2>0. a = n
    BY <1>0, <1>2
  <2>1. /\ idle' = <<>>
        /\ \/ created' = created - n + 1 /\ held' = held \cup {c} /\ lost' = lost /\ waiting' = waiting
           \/ created' = created - n + 1 /\ held' = held /\ lost' = lost + 1 /\ waiting' = waiting
           \/ /\ created' = created - n /\ created - n >= PoolLimit
              /\ held' = held /\ lost' = lost /\ waiting' = waiting \cup {c}
    BY <1>0, <1>2, <2>0 DEF Resources!Loop, Resources!Remaining, n, a
  <2>2. idle' \in Seq(BOOLEAN) /\ Len(idle') = 0
    BY <2>1
  <2>3. created - n = h + lost /\ n + (PoolLimit - created) - 1 = 0 + (PoolLimit - (created - n + 1))
    BY <1>0
  <2>4. IdleOrdered'
    BY <2>2 DEF IdleOrdered
  <2>5. CASE created' = created - n + 1 /\ waiting' = waiting
    <3>1. created' = 0 + h + lost + 1 /\ created' \in Nat
      BY <1>0, <2>3, <2>5
    <3>2. FreeAfter = n + (PoolLimit - created) - 1
      BY <2>2, <2>3, <2>5 DEF FreeAfter
    <3>3. QED
      BY <2>1, <2>2, <2>4, <2>5, <3>1, <3>2 DEF n, h, LoopKind
  <2>6. CASE /\ created' = created - n /\ created - n >= PoolLimit
             /\ held' = held /\ lost' = lost /\ waiting' = waiting \cup {c}
    <3>1. created' = 0 + h + lost /\ created' \in Nat
      BY <1>0, <2>3, <2>6
    <3>2. FreeAfter <= 0
      BY <1>0, <2>2, <2>6 DEF FreeAfter
    <3>3. QED
      BY <2>2, <2>4, <2>6, <3>1, <3>2 DEF n, h, LoopKind
  <2>7. QED
    BY <2>1, <2>5, <2>6
<1>3. QED
  BY <1>1, <1>2

LEMMA PoolInvStep == PoolInv /\ [Resources!Next]_resourceVars => PoolInv'
<1> SUFFICES ASSUME PoolInv, [Resources!Next]_resourceVars
             PROVE  PoolInv'
  OBVIOUS
<1> DEFINE h == Cardinality(held)
           k == Cardinality(woken)
<1>0. /\ IsFiniteSet(held) /\ h \in Nat /\ IsFiniteSet(woken) /\ k \in Nat
      /\ Len(idle) \in Nat /\ created \in Nat /\ lost \in Nat /\ PoolLimit \in Nat
      /\ created = Len(idle) + h + lost
      /\ waiting # {} => Len(idle) + (PoolLimit - created) <= k
  BY PoolCounts, LimitsAreNumbers DEF PoolInv
<1>1. CASE UNCHANGED resourceVars
  BY <1>1 DEF resourceVars, PoolInv
<1>2. ASSUME NEW c \in Four, c \notin held \cup waiting, Resources!Loop(c),
             woken' = woken \ {c}
      PROVE  PoolInv'
  <2> DEFINE free == Len(idle) + (PoolLimit - created)
             Taken == /\ created' = Len(idle') + h + lost + 1
                      /\ FreeAfter = free - 1
  <2>1. c \notin held /\ Cardinality(held \cup {c}) = h + 1
    BY <1>0, <1>2, FS_AddElement
  <2>2. Cardinality(woken') \in Nat /\ k - 1 <= Cardinality(woken')
    <3>1. IsFiniteSet(woken') /\ Cardinality(woken') \in Nat
      BY <1>0, <1>2, FS_RemoveElement, FS_CardinalityType
    <3>2. CASE c \in woken
      BY <1>0, <1>2, <3>1, <3>2, FS_RemoveElement, SMTT(60)
    <3>3. CASE c \notin woken
      <4>1. woken' = woken
        BY <1>2, <3>3
      <4>2. QED
        BY <1>0, <4>1
    <3>4. QED
      BY <3>2, <3>3
  <2>3. /\ idle' \in Seq(BOOLEAN) /\ created' \in Nat /\ Len(idle') \in Nat
        /\ IdleOrdered'
        /\ \/ held' = held \cup {c} /\ lost' = lost /\ waiting' = waiting /\ Taken
           \/ held' = held /\ lost' = lost + 1 /\ waiting' = waiting /\ Taken
           \/ /\ held' = held /\ lost' = lost /\ waiting' = waiting \cup {c}
              /\ created' = Len(idle') + h + lost
              /\ FreeAfter <= 0
    <3>1. LoopKind(c)
      BY <1>2, LoopKinds
    <3>2. idle' \in Seq(BOOLEAN) /\ created' \in Nat /\ Len(idle') \in Nat
      BY <3>1 DEF LoopKind
    <3>3. IdleOrdered'
      BY <3>1, Zenon DEF LoopKind
    <3>4. \/ held' = held \cup {c} /\ lost' = lost /\ waiting' = waiting /\ Taken
          \/ held' = held /\ lost' = lost + 1 /\ waiting' = waiting /\ Taken
          \/ /\ held' = held /\ lost' = lost /\ waiting' = waiting \cup {c}
             /\ created' = Len(idle') + h + lost
             /\ FreeAfter <= 0
      <4>1. CASE /\ held' = held \cup {c} /\ lost' = lost /\ waiting' = waiting
                 /\ created' = Len(idle') + Cardinality(held) + lost + 1
                 /\ FreeAfter = Len(idle) + (PoolLimit - created) - 1
        BY <1>0, <3>2, <4>1
      <4>2. CASE /\ held' = held /\ lost' = lost + 1 /\ waiting' = waiting
                 /\ created' = Len(idle') + Cardinality(held) + lost + 1
                 /\ FreeAfter = Len(idle) + (PoolLimit - created) - 1
        BY <1>0, <3>2, <4>2
      <4>3. CASE /\ held' = held /\ lost' = lost /\ waiting' = waiting \cup {c}
                 /\ created' = Len(idle') + Cardinality(held) + lost
                 /\ FreeAfter <= 0
        BY <1>0, <3>2, <4>3
      <4> QED
        BY <3>1, <4>1, <4>2, <4>3 DEF LoopKind
    <3>5. QED
      BY <3>2, <3>3, <3>4
  <2>4. held \subseteq Four /\ waiting \subseteq Four /\ woken \subseteq Four
        /\ held \cap waiting = {} /\ held \cap woken = {} /\ waiting \cap woken = {}
    BY DEF PoolInv
  <2>5. CASE held' = held \cup {c} /\ lost' = lost /\ waiting' = waiting /\ Taken
    <3>1. held' \subseteq Four /\ waiting' \subseteq Four /\ woken' \subseteq Four
          /\ held' \cap waiting' = {} /\ held' \cap woken' = {} /\ waiting' \cap woken' = {}
      BY <1>2, <2>4, <2>5
    <3>2. created' = Len(idle') + Cardinality(held') + lost'
      BY <1>0, <2>1, <2>3, <2>5, SMTT(60)
    <3>3. waiting' # {} => FreeAfter <= Cardinality(woken')
      <4>1. waiting # {} => free <= k
        BY <1>0
      <4>2. free \in Int /\ waiting' = waiting /\ FreeAfter = free - 1
        BY <1>0, <2>5
      <4> HIDE DEF free
      <4>3. QED
        BY <1>0, <2>2, <4>1, <4>2, SMTT(60)
    <3>4. QED
      BY <1>0, <2>3, <2>5, <3>1, <3>2, <3>3 DEF PoolInv, IdleOrdered, FreeAfter
  <2>6. CASE held' = held /\ lost' = lost + 1 /\ waiting' = waiting /\ Taken
    <3>1. held' \subseteq Four /\ waiting' \subseteq Four /\ woken' \subseteq Four
          /\ held' \cap waiting' = {} /\ held' \cap woken' = {} /\ waiting' \cap woken' = {}
      BY <1>2, <2>4, <2>6
    <3>2. created' = Len(idle') + Cardinality(held') + lost' /\ lost' \in Nat
      BY <1>0, <2>3, <2>6, SMTT(60)
    <3>3. waiting' # {} => FreeAfter <= Cardinality(woken')
      <4>1. waiting # {} => free <= k
        BY <1>0
      <4>2. free \in Int /\ waiting' = waiting /\ FreeAfter = free - 1
        BY <1>0, <2>6
      <4> HIDE DEF free
      <4>3. QED
        BY <1>0, <2>2, <4>1, <4>2, SMTT(60)
    <3>4. QED
      BY <1>0, <2>3, <2>6, <3>1, <3>2, <3>3 DEF PoolInv, IdleOrdered, FreeAfter
  <2>7. CASE /\ held' = held /\ lost' = lost /\ waiting' = waiting \cup {c}
             /\ created' = Len(idle') + h + lost
             /\ FreeAfter <= 0
    <3>1. held' \subseteq Four /\ waiting' \subseteq Four /\ woken' \subseteq Four
          /\ held' \cap waiting' = {} /\ held' \cap woken' = {} /\ waiting' \cap woken' = {}
      BY <1>2, <2>4, <2>7
    <3>2. created' = Len(idle') + Cardinality(held') + lost'
      BY <2>7
    <3>3. FreeAfter <= Cardinality(woken')
      <4>1. FreeAfter \in Int
        BY <1>0, <2>3 DEF FreeAfter
      <4>2. QED
        BY <2>2, <2>7, <4>1
    <3>4. QED
      BY <1>0, <2>3, <2>7, <3>1, <3>2, <3>3 DEF PoolInv, IdleOrdered, FreeAfter
  <2>8. QED
    BY <2>3, <2>5, <2>6, <2>7
<1>3. ASSUME NEW c \in Four, Resources!Get(c) \/ Resources!GetResumes(c)
      PROVE  PoolInv'
  <2>1. c \notin held \cup waiting /\ Resources!Loop(c) /\ woken' = woken \ {c}
    BY <1>3 DEF Resources!Get, Resources!GetResumes, PoolInv
  <2>2. QED
    BY <1>2, <2>1
<1>4. ASSUME NEW c \in Four, Resources!Put(c)
      PROVE  PoolInv'
  <2>1. c \in held /\ held' = held \ {c} /\ idle' = <<FALSE>> \o idle /\ created' = created /\ lost' = lost
    BY <1>4 DEF Resources!Put
  <2>2. Cardinality(held') = h - 1 /\ h # 0
    BY <1>0, <2>1, FS_RemoveElement, FS_EmptySet
  <2>3. /\ idle' \in Seq(BOOLEAN) /\ Len(idle') = Len(idle) + 1 /\ idle'[1] = FALSE
        /\ \A i \in 2..Len(idle') : idle'[i] = idle[i - 1]
    BY <1>0, <2>1 DEF PoolInv
  <2>4. \A i, j \in 1..Len(idle') : i < j /\ idle'[i] => idle'[j]
    <3> SUFFICES ASSUME NEW i \in 1..Len(idle'), NEW j \in 1..Len(idle'), i < j, idle'[i]
                 PROVE  idle'[j]
      OBVIOUS
    <3>1. i # 1
      BY <2>3
    <3>2. i - 1 \in 1..Len(idle) /\ j - 1 \in 1..Len(idle) /\ i - 1 < j - 1
          /\ i \in 2..Len(idle') /\ j \in 2..Len(idle')
      BY <1>0, <2>3, <3>1
    <3>3. QED
      BY <2>3, <3>2 DEF PoolInv
  <2>5. CASE waiting = {} /\ UNCHANGED <<waiting, woken>>
    BY <1>0, <2>1, <2>2, <2>3, <2>4, <2>5 DEF PoolInv
  <2>6. ASSUME NEW w \in waiting, waiting' = waiting \ {w}, woken' = woken \cup {w}
        PROVE  PoolInv'
    <3>1. Cardinality(woken') = k + 1
      BY <1>0, <2>6, FS_AddElement DEF PoolInv
    <3>2. /\ held' \subseteq Four /\ waiting' \subseteq Four /\ woken' \subseteq Four
          /\ held' \cap waiting' = {} /\ held' \cap woken' = {} /\ waiting' \cap woken' = {}
      BY <2>1, <2>6 DEF PoolInv
    <3>3. Len(idle') + (PoolLimit - created') <= Cardinality(woken')
      <4> DEFINE free == Len(idle) + (PoolLimit - created)
      <4>1. free \in Int /\ free <= k
        BY <1>0, <2>6
      <4>2. Len(idle') + (PoolLimit - created') = free + 1
        BY <1>0, <2>1, <2>3
      <4> HIDE DEF free
      <4>3. QED
        BY <1>0, <3>1, <4>1, <4>2
    <3>4. created' = Len(idle') + Cardinality(held') + lost'
      BY <1>0, <2>1, <2>2, <2>3
    <3>5. QED
      BY <1>0, <2>1, <2>3, <2>4, <3>2, <3>3, <3>4 DEF PoolInv
  <2>7. QED
    BY <1>4, <2>5, <2>6 DEF Resources!Put
<1>5. CASE Resources!Age
  <2>1. PICK m \in 1..Len(idle) : /\ \A j \in (m + 1)..Len(idle) : idle[j]
                                  /\ idle' = [idle EXCEPT ![m] = TRUE]
    BY <1>5 DEF Resources!Age
  <2>2. /\ idle' \in Seq(BOOLEAN) /\ Len(idle') = Len(idle) /\ idle'[m] = TRUE
        /\ \A i \in 1..Len(idle) : i # m => idle'[i] = idle[i]
    BY <1>0, <2>1 DEF PoolInv
  <2>3. \A i, j \in 1..Len(idle') : i < j /\ idle'[i] => idle'[j]
    <3> SUFFICES ASSUME NEW i \in 1..Len(idle), NEW j \in 1..Len(idle), i < j, idle'[i]
                 PROVE  idle'[j]
      BY <2>2
    <3>1. CASE j = m
      BY <2>2, <3>1
    <3>2. CASE j # m /\ i = m
      <4>1. j \in (m + 1)..Len(idle)
        BY <1>0, <3>2
      <4>2. QED
        BY <2>1, <2>2, <3>2, <4>1
    <3>3. CASE j # m /\ i # m
      BY <2>2, <3>3 DEF PoolInv
    <3>4. QED
      BY <3>1, <3>2, <3>3
  <2>4. QED
    BY <1>0, <1>5, <2>2, <2>3 DEF PoolInv, Resources!Age
<1>6. QED
  BY <1>1, <1>3, <1>4, <1>5 DEF Resources!Next

-----------------------------------------------------------------------------
\* What the primitives of syncx and the rate executors promise, for any number
\* of callers and any limit: one fetch per removal (Cache.Take), functions of a
\* key one after the other (LockedCalls), no waiter beside a free resource
\* (Pool), slots that are the holders' (TimeoutLimit), runs further apart than
\* the threshold and no trigger forgotten (LessExecutor, DelayExecutor), and no
\* addition lost (AtomicFloat64) under a lock with one holder (SpinLock).
THEOREM PrimitivesAlwaysHold == AllSpec => []PrimitivesHold
<1> DEFINE Inv == TakeInv /\ LockedInv /\ PoolInv /\ SlotsInv /\ RateInv /\ AtomicInv
<1>1. AllInit => Inv
  <2> SUFFICES ASSUME AllInit PROVE Inv
    OBVIOUS
  <2>1. TakeInv
    BY DEF AllInit, Taking!Init, TakeInv
  <2>2. LockedInv
    BY DEF AllInit, Locked!Init, LockedInv, Locked!RunsAlone
  <2>3. PoolInv
    BY FS_EmptySet DEF AllInit, Resources!Init, PoolInv
  <2>4. SlotsInv
    <3>1. Holders = {}
      BY DEF AllInit, Slots!Init, Holders
    <3>2. QED
      BY <3>1, FS_EmptySet DEF AllInit, Slots!Init, SlotsInv
  <2>5. RateInv
    BY DEF AllInit, Rate!Init, RateInv
  <2>6. AtomicInv
    <3>1. Lockers = {}
      BY DEF AllInit, Atomic!Init, Lockers
    <3>2. QED
      BY <3>1, FS_EmptySet DEF AllInit, Atomic!Init, AtomicInv
  <2>7. QED
    BY <2>1, <2>2, <2>3, <2>4, <2>5, <2>6
<1>2. Inv /\ [AllNext]_allVars => Inv'
  BY PartsMove, TakeInvStep, LockedInvStep, PoolInvStep, SlotsInvStep, RateInvStep, AtomicInvStep
<1>3. Inv => PrimitivesHold
  <2> SUFFICES ASSUME Inv PROVE PrimitivesHold
    OBVIOUS
  <2>1. Taking!LoadsOnce
    BY DEF TakeInv, Taking!LoadsOnce
  <2>2. Locked!RunsAlone
    BY DEF LockedInv
  <2>3. Resources!NoLostWakeup
    BY SameCardinality DEF PoolInv, Resources!NoLostWakeup
  <2>4. Slots!SlotsMatchHolders
    BY SameCardinality DEF SlotsInv, Holders, Slots!SlotsMatchHolders
  <2>5. Rate!AtMostOncePerThreshold
    BY DEF RateInv, Rate!AtMostOncePerThreshold
  <2>6. Atomic!AddsCounted
    BY SameCardinality DEF AtomicInv, Lockers, Atomic!AddsCounted
  <2>7. QED
    BY <2>1, <2>2, <2>3, <2>4, <2>5, <2>6 DEF PrimitivesHold
<1>4. QED
  BY <1>1, <1>2, <1>3, SafetyOfAll, PTL

-----------------------------------------------------------------------------
(* PeriodicalExecutor: every task in one place.                            *)

Hands == Flushers \cup Waiters

BatchTypes ==
    /\ container \subseteq Tasks /\ commander \subseteq Tasks /\ running \subseteq Tasks /\ done \subseteq Tasks
    /\ add \in [Tasks -> Batching!AddPhase] /\ batch \in [Tasks -> SUBSET Tasks]
    /\ flusher \in [Hands -> Batching!Phase] /\ vals \in [Hands -> SUBSET Tasks]

\* Only an adder about to send holds a batch, and only a process between
\* receiving or removing tasks and executing them: whoever overwrites what he
\* holds holds nothing.
HoldInPhase ==
    /\ \A t \in Tasks : batch[t] # {} => add[t] = "send"
    /\ \A p \in Hands :
         /\ vals[p] # {} => \/ flusher[p].at \in {"confirm", "execute"}
                            \/ flusher[p].at = "enter" /\ flusher[p].why = "batch"
         /\ flusher[p].at \in {"enter", "remove", "execute"} => flusher[p].why # "none"

\* No two places of a task.
Apart(u) ==
    /\ u \in container => u \notin commander /\ u \notin running /\ u \notin done
    /\ u \in commander => u \notin running /\ u \notin done
    /\ u \in running => u \notin done
    /\ \A a \in Tasks : u \in batch[a] => u \notin container /\ u \notin commander /\ u \notin running /\ u \notin done
    /\ \A p \in Hands : u \in vals[p] => u \notin container /\ u \notin commander /\ u \notin running /\ u \notin done
    /\ \A a \in Tasks, p \in Hands : ~(u \in batch[a] /\ u \in vals[p])
    /\ \A a, b \in Tasks : u \in batch[a] /\ u \in batch[b] => a = b
    /\ \A p, q \in Hands : u \in vals[p] /\ u \in vals[q] => p = q

Somewhere(u) ==
    \/ u \in container \/ u \in commander \/ u \in running \/ u \in done
    \/ \E a \in Tasks : u \in batch[a]
    \/ \E p \in Hands : u \in vals[p]

BatchInv ==
    /\ BatchTypes /\ HoldInPhase
    /\ \A u \in Tasks : Apart(u) /\ (add[u] # "new" <=> Somewhere(u))

LEMMA BatchInvStep == BatchInv /\ [Batching!Next]_batchVars => BatchInv'
<1> SUFFICES ASSUME BatchInv, [Batching!Next]_batchVars
             PROVE  BatchInv'
  OBVIOUS
<1> USE DEF Hands, Batching!Procs, Batching!Ph, Batching!addVars, Batching!AddPhase, Batching!Phase, Batching!At
<1>1. CASE UNCHANGED batchVars
  BY <1>1 DEF batchVars, BatchInv, BatchTypes, HoldInPhase, Apart, Somewhere
<1>2. ASSUME NEW t \in Tasks, Batching!AddAndCheck(t)
      PROVE  BatchInv'
  <2> DEFINE full == Batching!Full(container \cup {t})
  <2>1. /\ add[t] = "new" /\ batch[t] = {}
        /\ commander' = commander /\ vals' = vals /\ running' = running /\ done' = done
        /\ add' = [add EXCEPT ![t] = IF full THEN "send" ELSE "added"]
        /\ container' = IF full THEN {} ELSE container \cup {t}
        /\ batch' = [batch EXCEPT ![t] = IF full THEN container \cup {t} ELSE {}]
    BY <1>2 DEF Batching!AddAndCheck, BatchInv, HoldInPhase
  <2>2. \/ flusher' = flusher
        \/ \E f \in Flushers : flusher[f].at = "none" /\ flusher' = [flusher EXCEPT ![f] = Batching!Ph("loop", "none")]
    BY <1>2 DEF Batching!AddAndCheck
  <2> HIDE DEF full
  <2>3. BatchTypes'
    BY <2>1, <2>2 DEF BatchInv, BatchTypes
  <2>4. HoldInPhase'
    BY <2>1, <2>2 DEF BatchInv, BatchTypes, HoldInPhase
  <2>5. ASSUME NEW u \in Tasks
        PROVE  Apart(u)' /\ (add'[u] # "new" <=> Somewhere(u)')
    <3>1. Apart(u) /\ (add[u] # "new" <=> Somewhere(u))
      BY DEF BatchInv
    <3>2. u = t => ~Somewhere(u)
      BY <2>1, <3>1
    <3>3. CASE full
      BY <2>1, <3>1, <3>2, <3>3 DEF BatchInv, BatchTypes, Apart, Somewhere
    <3>4. CASE ~full
      BY <2>1, <3>1, <3>2, <3>4 DEF BatchInv, BatchTypes, Apart, Somewhere
    <3>5. QED
      BY <3>3, <3>4
  <2>6. QED
    BY <2>3, <2>4, <2>5 DEF BatchInv
<1>3. ASSUME NEW t \in Tasks, Batching!Send(t)
      PROVE  BatchInv'
  <2>1. /\ add[t] = "send" /\ commander = {} /\ commander' = batch[t]
        /\ batch' = [batch EXCEPT ![t] = {}] /\ add' = [add EXCEPT ![t] = "confirm"]
        /\ container' = container /\ flusher' = flusher /\ vals' = vals /\ running' = running /\ done' = done
    BY <1>3 DEF Batching!Send
  <2>2. BatchTypes' /\ HoldInPhase'
    BY <2>1 DEF BatchInv, BatchTypes, HoldInPhase
  <2>3. ASSUME NEW u \in Tasks
        PROVE  Apart(u)' /\ (add'[u] # "new" <=> Somewhere(u)')
    BY <2>1 DEF BatchInv, BatchTypes, Apart, Somewhere
  <2>4. QED
    BY <2>2, <2>3 DEF BatchInv
<1>4. ASSUME NEW t \in Tasks, Batching!Execute(t)
      PROVE  BatchInv'
  <2>1. /\ t \in running /\ running' = running \ {t} /\ done' = done \cup {t}
        /\ UNCHANGED <<add, batch, container, commander, flusher, vals>>
    BY <1>4 DEF Batching!Execute
  <2>2. QED
    BY <2>1 DEF BatchInv, BatchTypes, HoldInPhase, Apart, Somewhere
\* The others only move processes between phases.
<1>5. ASSUME UNCHANGED <<batch, container, commander, vals, running, done>>,
             \/ add' = add
             \/ \E t \in Tasks : add[t] = "confirm" /\ add' = [add EXCEPT ![t] = "added"],
             NEW p \in Hands, NEW a \in Batching!At, NEW y \in {"none", "batch", "tick", "exit", "wait"},
             flusher' = [flusher EXCEPT ![p] = Batching!Ph(a, y)],
             a \in {"enter", "remove", "execute"} => y # "none",
             vals[p] # {} => a \in {"confirm", "execute"} \/ (a = "enter" /\ y = "batch")
      PROVE  BatchInv'
  <2>1. BatchTypes'
    BY <1>5 DEF BatchInv, BatchTypes
  <2>2. HoldInPhase'
    BY <1>5 DEF BatchInv, BatchTypes, HoldInPhase
  <2>3. ASSUME NEW u \in Tasks
        PROVE  Apart(u)' /\ (add'[u] # "new" <=> Somewhere(u)')
    <3>1. add'[u] # "new" <=> add[u] # "new"
      BY <1>5 DEF BatchInv, BatchTypes
    <3>2. QED
      BY <1>5, <3>1 DEF BatchInv, Apart, Somewhere
  <2>4. QED
    BY <2>1, <2>2, <2>3 DEF BatchInv
<1>6. ASSUME NEW t \in Tasks, NEW f \in Flushers, Batching!Confirm(t, f)
      PROVE  BatchInv'
  BY <1>5, <1>6 DEF Batching!Confirm
\* EXCEPT ![p].at keeps the reason.
<1>7. ASSUME NEW p \in Hands, NEW a
      PROVE  [flusher EXCEPT ![p].at = a] = [flusher EXCEPT ![p] = Batching!Ph(a, flusher[p].why)]
  <2>1. flusher[p] \in [at : Batching!At, why : {"none", "batch", "tick", "exit", "wait"}]
    BY DEF BatchInv, BatchTypes
  <2>2. [flusher[p] EXCEPT !.at = a] = Batching!Ph(a, flusher[p].why)
    BY <2>1
  <2>3. [flusher EXCEPT ![p].at = a] = [flusher EXCEPT ![p] = [flusher[p] EXCEPT !.at = a]]
    BY DEF BatchInv, BatchTypes
  <2>4. QED
    BY <2>2, <2>3
<1>8. ASSUME NEW p \in Hands, Batching!Enter(p)
      PROVE  BatchInv'
  <2> DEFINE a == IF flusher[p].why = "batch" THEN "confirm" ELSE "remove"
  <2>1. flusher' = [flusher EXCEPT ![p] = Batching!Ph(a, flusher[p].why)]
    BY <1>7, <1>8 DEF Batching!Enter
  <2>2. /\ flusher[p].why \in {"none", "batch", "tick", "exit", "wait"} /\ flusher[p].why # "none"
        /\ vals[p] # {} => flusher[p].why = "batch"
    BY <1>8 DEF Batching!Enter, BatchInv, BatchTypes, HoldInPhase
  <2>3. UNCHANGED <<add, batch, container, commander, vals, running, done>>
    BY <1>8 DEF Batching!Enter
  <2>4. QED
    BY <1>5, <2>1, <2>2, <2>3
<1>9. ASSUME NEW f \in Flushers, Batching!TickerCase(f)
      PROVE  BatchInv'
  <2>1. vals[f] = {} /\ UNCHANGED <<add, batch, container, commander, vals, running, done>>
    BY <1>9 DEF Batching!TickerCase, BatchInv, BatchTypes, HoldInPhase
  <2>2. CASE flusher' = flusher
    BY <2>1, <2>2 DEF BatchInv, BatchTypes, HoldInPhase, Apart, Somewhere
  <2>3. CASE flusher' = [flusher EXCEPT ![f] = Batching!Ph("enter", "tick")]
    BY <1>5, <2>1, <2>3
  <2>4. QED
    BY <1>9, <2>2, <2>3 DEF Batching!TickerCase
<1>10. ASSUME NEW f \in Flushers, Batching!ShallQuit(f)
       PROVE  BatchInv'
  <2>1. vals[f] = {} /\ UNCHANGED <<add, batch, container, commander, vals, running, done>>
    BY <1>10 DEF Batching!ShallQuit, BatchInv, BatchTypes, HoldInPhase
  <2>2. QED
    BY <1>5, <1>10, <2>1 DEF Batching!ShallQuit
<1>11. ASSUME NEW w \in Waiters, Batching!Wait(w) \/ Batching!TakeBarrier(w) \/ Batching!WaitReturns(w)
       PROVE  BatchInv'
  <2>1. vals[w] = {} /\ UNCHANGED <<add, batch, container, commander, vals, running, done>>
    BY <1>11 DEF Batching!Wait, Batching!TakeBarrier, Batching!WaitReturns, BatchInv, BatchTypes, HoldInPhase
  <2>2. flusher[w].why \in {"none", "batch", "tick", "exit", "wait"}
    BY DEF BatchInv, BatchTypes
  <2>3. CASE Batching!Wait(w)
    BY <1>5, <2>1, <2>3 DEF Batching!Wait
  <2>4. CASE Batching!TakeBarrier(w)
    <3>1. flusher' = [flusher EXCEPT ![w] = Batching!Ph("waiting", flusher[w].why)]
      BY <1>7, <2>4 DEF Batching!TakeBarrier
    <3>2. QED
      BY <1>5, <2>1, <2>2, <3>1
  <2>5. CASE Batching!WaitReturns(w)
    BY <1>5, <2>1, <2>5 DEF Batching!WaitReturns
  <2>6. QED
    BY <1>11, <2>3, <2>4, <2>5
<1>12. ASSUME NEW f \in Flushers, Batching!Take(f)
       PROVE  BatchInv'
  <2>1. /\ vals[f] = {} /\ vals' = [vals EXCEPT ![f] = commander] /\ commander' = {}
        /\ flusher' = [flusher EXCEPT ![f] = Batching!Ph("enter", "batch")]
        /\ UNCHANGED <<container, add, batch, running, done>>
    BY <1>12 DEF Batching!Take, BatchInv, BatchTypes, HoldInPhase
  <2>2. BatchTypes'
    BY <2>1 DEF BatchInv, BatchTypes
  <2>3. HoldInPhase'
    BY <2>1 DEF BatchInv, BatchTypes, HoldInPhase
  <2>4. ASSUME NEW u \in Tasks
        PROVE  Apart(u)' /\ (add'[u] # "new" <=> Somewhere(u)')
    BY <2>1 DEF BatchInv, BatchTypes, Apart, Somewhere
  <2>5. QED
    BY <2>2, <2>3, <2>4 DEF BatchInv
<1>13. ASSUME NEW p \in Hands, Batching!RemoveAll(p)
       PROVE  BatchInv'
  <2>1. /\ vals[p] = {} /\ vals' = [vals EXCEPT ![p] = container] /\ container' = {}
        /\ flusher' = [flusher EXCEPT ![p] = Batching!Ph("execute", flusher[p].why)]
        /\ flusher[p].why \in {"batch", "tick", "exit", "wait"}
        /\ UNCHANGED <<commander, add, batch, running, done>>
    BY <1>7, <1>13 DEF Batching!RemoveAll, BatchInv, BatchTypes, HoldInPhase
  <2>2. BatchTypes'
    BY <2>1 DEF BatchInv, BatchTypes
  <2>3. HoldInPhase'
    BY <2>1 DEF BatchInv, BatchTypes, HoldInPhase
  <2>4. ASSUME NEW u \in Tasks
        PROVE  Apart(u)' /\ (add'[u] # "new" <=> Somewhere(u)')
    BY <2>1 DEF BatchInv, BatchTypes, Apart, Somewhere
  <2>5. QED
    BY <2>2, <2>3, <2>4 DEF BatchInv
<1>14. ASSUME NEW p \in Hands, Batching!ExecuteTasks(p)
       PROVE  BatchInv'
  <2>1. /\ running' = running \cup vals[p] /\ vals' = [vals EXCEPT ![p] = {}]
        /\ UNCHANGED <<commander, add, batch, container, done>>
    BY <1>14 DEF Batching!ExecuteTasks
  <2>2. flusher[p].why \in {"batch", "tick", "exit", "wait"}
    BY <1>14 DEF Batching!ExecuteTasks, BatchInv, BatchTypes, HoldInPhase
  <2>3. PICK a \in {"loop", "quit", "none", "barrier"}, y \in {"none", "tick", "wait"} :
          flusher' = [flusher EXCEPT ![p] = Batching!Ph(a, y)]
    BY <1>14, <2>2 DEF Batching!ExecuteTasks
  <2>4. BatchTypes'
    BY <2>1, <2>3 DEF BatchInv, BatchTypes
  <2>5. HoldInPhase'
    BY <2>1, <2>3 DEF BatchInv, BatchTypes, HoldInPhase
  <2>6. ASSUME NEW u \in Tasks
        PROVE  Apart(u)' /\ (add'[u] # "new" <=> Somewhere(u)')
    BY <2>1 DEF BatchInv, BatchTypes, Apart, Somewhere
  <2>7. QED
    BY <2>4, <2>5, <2>6 DEF BatchInv
<1>15. QED
  BY <1>1, <1>2, <1>3, <1>4, <1>6, <1>8, <1>9, <1>10, <1>11, <1>12, <1>13, <1>14
  DEF Batching!Next, Batching!Step

\* The places of a task are counted as the invariant says.
LEMMA OneIsOne ==
  ASSUME NEW T, \A a, b \in T : a = b
  PROVE  Cardinality(T) = IF T # {} THEN 1 ELSE 0
<1>1. CASE T # {}
  <2>1. PICK a \in T : TRUE
    BY <1>1
  <2>2. T = {a}
    BY <2>1
  <2>3. QED
    BY <1>1, <2>2, FS_Singleton
<1>2. QED
  BY <1>1, FS_EmptySet

\* Every task that was added is in exactly one place, whatever the numbers of
\* adders, flushers and waiters, the sizes and the limit: none is lost when a
\* batch changes hands, when a flusher leaves while another starts, or when a
\* Wait flushes beside them, and none is executed twice.
THEOREM TasksInOnePlace == AllSpec => []ExactlyOnePlace
<1>1. AllInit => BatchInv
  BY DEF AllInit, Batching!Init, BatchInv, BatchTypes, HoldInPhase, Apart, Somewhere, Hands,
         Batching!Procs, Batching!Ph, Batching!AddPhase, Batching!Phase, Batching!At
<1>2. BatchInv /\ [AllNext]_allVars => BatchInv'
  BY PartsMove, BatchInvStep
<1>3. BatchInv => ExactlyOnePlace
  <2> SUFFICES ASSUME BatchInv, NEW t \in Tasks
               PROVE  (IF t \in container THEN 1 ELSE 0) + (IF t \in commander THEN 1 ELSE 0)
                      + (IF t \in running THEN 1 ELSE 0) + (IF t \in done THEN 1 ELSE 0)
                      + Cardinality(Batching!InBatches(t)) + Cardinality(Batching!InHands(t))
                      = IF add[t] = "new" THEN 0 ELSE 1
    BY SameCardinality DEF ExactlyOnePlace, Batching!ExactlyOnePlace
  <2> DEFINE inBatch == \E a \in Tasks : t \in batch[a]
             inHand == \E p \in Hands : t \in vals[p]
  <2>1. Apart(t) /\ (add[t] # "new" <=> Somewhere(t))
    BY DEF BatchInv
  <2>2. Cardinality(Batching!InBatches(t)) = IF inBatch THEN 1 ELSE 0
    <3>1. \A a, b \in Batching!InBatches(t) : a = b
      BY <2>1 DEF Apart, Batching!InBatches
    <3>2. inBatch <=> Batching!InBatches(t) # {}
      BY DEF Batching!InBatches
    <3>3. QED
      BY <3>1, <3>2, OneIsOne
  <2>3. Cardinality(Batching!InHands(t)) = IF inHand THEN 1 ELSE 0
    <3>1. \A p, q \in Batching!InHands(t) : p = q
      BY <2>1 DEF Apart, Batching!InHands, Batching!Procs, Hands
    <3>2. inHand <=> Batching!InHands(t) # {}
      BY DEF Batching!InHands, Batching!Procs, Hands
    <3>3. QED
      BY <3>1, <3>2, OneIsOne
  <2>4. /\ inBatch => t \notin container /\ t \notin commander /\ t \notin running /\ t \notin done /\ ~inHand
        /\ inHand => t \notin container /\ t \notin commander /\ t \notin running /\ t \notin done
    BY <2>1 DEF Apart
  <2>5. add[t] # "new" <=> \/ t \in container \/ t \in commander \/ t \in running \/ t \in done
                          \/ inBatch \/ inHand
    BY <2>1 DEF Somewhere
  <2> HIDE DEF inBatch, inHand
  <2>6. QED
    BY <2>1, <2>2, <2>3, <2>4, <2>5 DEF Apart
<1>4. QED
  BY <1>1, <1>2, <1>3, SafetyOfAll, PTL

-----------------------------------------------------------------------------
(* MapReduce: the reducer's pipe is complete.                              *)

\* No cancel, no panic, no deadline and no end of the reducer so far: none of
\* these is ever taken back.
Undisturbed == ~cancelled /\ ~ctxDone /\ ~failed /\ ~userPanic /\ reducer # "end"

\* Undisturbed, every item went to the executor, and the executor stops only
\* at the end of the source; the collector is closed after the last mapper.
ReduceInv ==
    /\ sent \in 0..Items /\ Reduce!Started \subseteq 1..sent /\ collector \in Nat
    /\ once # Reduce!Free => cancelled
    /\ finished => cancelled \/ reducer = "end"
    /\ generator = "panic" => userPanic
    /\ generator = "closed" /\ ~userPanic => sent = Items
    /\ collectorClosed => executor \in {"drain", "end"} /\ Reduce!Running = {}
    /\ reducer = "atEnd" => collectorClosed /\ collector = 0
    /\ Undisturbed =>
         /\ Reduce!Started = 1..sent
         /\ executor \in {"wait", "drain", "end"} => generator = "closed"

LEMMA ReduceInvStep == ReduceInv /\ [Reduce!Next]_reduceVars => ReduceInv'
<1> SUFFICES ASSUME ReduceInv, [Reduce!Next]_reduceVars
             PROVE  ReduceInv'
  OBVIOUS
<1> USE LimitsAreNumbers DEF ReduceInv, Undisturbed, Reduce!Started, Reduce!Running, Reduce!callerVars
<1>1. CASE UNCHANGED reduceVars
  BY <1>1 DEF reduceVars
<1>2. CASE Reduce!CtxDone \/ Reduce!GeneratorReturns \/ Reduce!GeneratorPanics
  BY <1>2 DEF Reduce!CtxDone, Reduce!GeneratorReturns, Reduce!GeneratorPanics
<1>3. CASE Reduce!DrainSource
  <2>1. once \in Reduce!Processes => once # Reduce!Free
    BY DEF Reduce!Processes, Reduce!Free
  <2>2. ~Undisturbed
    BY <1>3, <2>1 DEF Reduce!DrainSource, Reduce!Draining
  <2>3. QED
    BY <1>3, <2>2 DEF Reduce!DrainSource
<1>4. CASE Reduce!ExecutorLoop
  BY <1>4 DEF Reduce!ExecutorLoop
<1>5. CASE Reduce!ExecutorReceives
  <2>1. CASE executor' = "wait" /\ generator = "closed" /\ UNCHANGED <<sent, mapper>>
    BY <1>5, <2>1 DEF Reduce!ExecutorReceives
  <2>2. CASE /\ generator = "send" /\ sent < Items /\ sent' = sent + 1
             /\ mapper' = [i \in DOMAIN mapper \cup {sent'} |-> IF i = sent' THEN "run" ELSE mapper[i]]
             /\ executor' = "loop"
    <3>1. DOMAIN mapper' = DOMAIN mapper \cup {sent + 1} /\ sent' \in 0..Items
      BY <2>2
    <3>2. DOMAIN mapper' \subseteq 1..sent'
      BY <2>2, <3>1
    <3>3. DOMAIN mapper = 1..sent => DOMAIN mapper' = 1..sent'
      BY <2>2, <3>1
    <3>4. ~collectorClosed /\ executor = "receive"
      BY <1>5 DEF Reduce!ExecutorReceives
    <3>5. UNCHANGED <<forEach, ctxDone, reducer, caller, got, generator, failed, collector, collectorClosed,
                      once, cancelled, finished, wrote, userPanic>>
      BY <1>5 DEF Reduce!ExecutorReceives
    <3>6. QED
      BY <2>2, <3>1, <3>2, <3>3, <3>4, <3>5
  <2>3. QED
    BY <1>5, <2>1, <2>2 DEF Reduce!ExecutorReceives
<1>6. CASE Reduce!ExecutorCloses \/ Reduce!ExecutorEnds
  BY <1>6 DEF Reduce!ExecutorCloses, Reduce!ExecutorEnds
\* Cancelling: the Once is taken, left or passed by.
<1>7. \A p : Reduce!Leave(p) /\ p # Reduce!Free =>
        /\ once' # Reduce!Free => cancelled'
        /\ finished' => cancelled' \/ reducer = "end"
        /\ cancelled' = cancelled
  BY DEF Reduce!Leave, Reduce!Ran, Reduce!Free
<1>8. \A p : Reduce!Enter(p) \/ (once # Reduce!Free /\ UNCHANGED <<once, cancelled, finished>>) =>
        cancelled' /\ finished' = finished
  BY DEF Reduce!Enter
<1>9. \A i : <<"mapper", i>> # Reduce!Free /\ <<"reducer", 0>> # Reduce!Free /\ <<"caller", 0>> # Reduce!Free
  BY DEF Reduce!Free
<1>10. ASSUME NEW i \in Reduce!Started, mapper[i] # "over", NEW l, Reduce!MapperGoto(i, l),
              UNCHANGED <<sent, executor, collectorClosed, reducer, generator, ctxDone>>,
              collector' \in Nat,
              cancelled => cancelled', userPanic => userPanic', failed => failed',
              once' # Reduce!Free => cancelled',
              finished' => cancelled' \/ reducer = "end"
       PROVE  ReduceInv'
  BY <1>10 DEF Reduce!MapperGoto
<1>11. ASSUME NEW i \in Reduce!Started, Reduce!MapperRuns(i) \/ Reduce!MapperSends(i) \/ Reduce!MapperAfter(i)
       PROVE  ReduceInv'
  BY <1>10, <1>11 DEF Reduce!MapperRuns, Reduce!MapperSends, Reduce!MapperAfter
<1>12. ASSUME NEW i \in Reduce!Started, Reduce!MapperCancels(i)
       PROVE  ReduceInv'
  BY <1>8, <1>10, <1>12 DEF Reduce!MapperCancels
<1>13. ASSUME NEW i \in Reduce!Started, Reduce!MapperCanceled(i)
       PROVE  ReduceInv'
  BY <1>7, <1>9, <1>10, <1>13 DEF Reduce!MapperCanceled
<1>14. ASSUME NEW i \in Reduce!Started, Reduce!MapperPanics(i)
       PROVE  ReduceInv'
  BY <1>10, <1>14 DEF Reduce!MapperPanics
<1>15. CASE Reduce!ReducerReceives \/ Reduce!ReducerSeesEnd \/ Reduce!ReducerRuns \/ Reduce!ReducerReturns
  BY <1>15 DEF Reduce!ReducerReceives, Reduce!ReducerSeesEnd, Reduce!ReducerRuns, Reduce!ReducerReturns
<1>16. CASE Reduce!ReducerCancels
  BY <1>8, <1>16 DEF Reduce!ReducerCancels
<1>17. CASE Reduce!ReducerCanceled
  BY <1>7, <1>9, <1>17 DEF Reduce!ReducerCanceled
<1>18. CASE Reduce!ReducerPanics \/ Reduce!ReducerDrained
  BY <1>18 DEF Reduce!ReducerPanics, Reduce!ReducerDrained
<1>19. CASE Reduce!CallerCtxDone
  BY <1>8, <1>19 DEF Reduce!CallerCtxDone
<1>20. CASE Reduce!CallerCanceled
  BY <1>7, <1>9, <1>20 DEF Reduce!CallerCanceled
<1>21. CASE Reduce!CallerGetsPanic
  BY <1>10, <1>21 DEF Reduce!CallerGetsPanic
<1>22. CASE Reduce!CallerReceives \/ Reduce!CallerEnds
  BY <1>22 DEF Reduce!CallerReceives, Reduce!CallerEnds
<1>23. QED
  BY <1>1, <1>2, <1>3, <1>4, <1>5, <1>6, <1>11, <1>12, <1>13, <1>14, <1>15, <1>16, <1>17, <1>18,
     <1>19, <1>20, <1>21, <1>22
  DEF Reduce!Next, Reduce!ExecutorStep, Reduce!MapperStep, Reduce!ReducerStep, Reduce!CallerStep

\* A reducer that has read its pipe to the end has received every output of
\* every item, for any number of items and workers, unless the run was canceled
\* or something panicked: the collector is closed after the last mapper wrote,
\* and the executor stops early only for a reason that stays visible.
THEOREM PipeAlwaysComplete == AllSpec => []PipeComplete
<1>1. AllInit => ReduceInv
  BY LimitsAreNumbers DEF AllInit, Reduce!Init, ReduceInv, Undisturbed, Reduce!Started, Reduce!Running
<1>2. ReduceInv /\ [AllNext]_allVars => ReduceInv'
  BY PartsMove, ReduceInvStep
<1>3. ReduceInv => PipeComplete
  BY DEF ReduceInv, Undisturbed, PipeComplete, Reduce!PipeComplete
<1>4. QED
  BY <1>1, <1>2, <1>3, SafetyOfAll, PTL
==============================================================================
