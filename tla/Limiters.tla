------------------------------- MODULE Limiters -------------------------------
(***************************************************************************)
(* The limiters of pkg/ratelimit and their stores, one at a time: the      *)
(* token and the leaky bucket, the token buckets and windows of the memory *)
(* and the Redis store (the latter by its scripts), PeriodLimit, aligned   *)
(* or not, and the lock-free QPS limiter.                                  *)
(*                                                                         *)
(* A tick is the unit of time, a token takes Interval ticks to refill and  *)
(* is counted in ticks, so that its float fractions are exact.  Ages are   *)
(* kept up to Cap, past which every rule below has long been decided.      *)
(***************************************************************************)
EXTENDS Naturals

CONSTANTS
    Callers,        \* of the QPS limiter; the others decide under a lock
    Burst,          \* burst, capacity, quota or limit, positive
    Interval,       \* ticks per token; a window lasts Interval * Burst
    Cleanup,        \* memory store: cleanupInterval
    MaxLimit        \* largest limit given to UpdateLimit

VARIABLES
    kind,
    present,        \* a store holds the bucket or the window's counter
    level,          \* tokens * Interval, water, count or curAllows
    age,            \* ticks since the bucket's last, or since the window began
    cleanupAge,     \* memory store: ticks since lastCleanup
    phase,          \* ticks into the current period of the wall clock
    max, loaded,    \* QPS: maxAllows, and what run has loaded but not stored
    seen, at,       \* QPS: Acquire's cur, and where it is
    excess,         \* reference: what a continuous meter says was let in too much
    idle            \* ghost: ticks since the last request that was let in

ruleVars == <<present, level, age, cleanupAge, phase>>
qpsVars == <<max, loaded, seen, at>>
vars == <<kind, ruleVars, qpsVars, excess, idle>>

Full == Burst * Interval
Window == Burst * Interval
TTL == 2 * Full
Cap == TTL + Cleanup

Buckets == {"token", "memoryBucket", "redisBucket"}
Windows == {"memoryWindow", "redisWindow"}

TypeOK ==
    /\ kind \in Buckets \cup Windows \cup {"leaky", "aligned", "qps"}
    /\ present \in BOOLEAN /\ level \in 0..(2 * Full + MaxLimit) /\ age \in 0..Cap
    /\ cleanupAge \in 0..Cap /\ phase \in 0..(Window - 1) /\ idle \in 0..Cap
    /\ max \in 1..MaxLimit /\ loaded \in 0..MaxLimit
    /\ seen \in [Callers -> 0..MaxLimit] /\ at \in [Callers -> {"idle", "load", "swap"}]

Init ==
    /\ kind \in Buckets \cup Windows \cup {"leaky", "aligned", "qps"}
    /\ present = (kind \in {"token", "leaky", "qps"})
    /\ level = IF kind = "token" THEN Full ELSE IF kind = "qps" THEN Burst ELSE 0
    /\ age = 0 /\ cleanupAge = 0 /\ phase = 0 /\ excess = 0 /\ idle = Cap
    /\ max = Burst /\ loaded = 0
    /\ seen = [c \in Callers |-> 0] /\ at = [c \in Callers |-> "idle"]

Least(a, b) == IF a < b THEN a ELSE b
Less(a, b) == IF a > b THEN a - b ELSE 0

\* What a let-in request adds to the meter, and what a tick takes off it: a
\* token per Interval, or a quota per window.
Cost == IF kind = "qps" THEN Window ELSE Interval
Drain == IF kind = "qps" THEN MaxLimit ELSE 1

Decide(granted) ==
    /\ excess' = IF granted THEN excess + Cost ELSE excess
    /\ idle' = IF granted THEN 0 ELSE idle

\* TokenBucket.allowN, bucket.refill and tokenScript.
refill == Least(Full, level + age)

\* Faulty variant: a bucket is dropped although it is not full again.
SweptEarly == cleanupAge >= Cleanup /\ age + 1 >= Interval

\* cleanupLocked, which every call of the memory store runs first: a bucket
\* that has had the time to fill, and a window that is over, go.
Swept == cleanupAge >= Cleanup /\ age >= Full

\* The keys of an idle Redis bucket expire (tokenTTLMillis).
Expired == kind = "redisBucket" /\ age >= TTL

AllowN ==
    /\ kind \in Buckets
    /\ LET gone == ~present \/ (kind = "memoryBucket" /\ Swept) \/ Expired
           filled == IF gone THEN Full ELSE refill
           granted == filled >= Interval
       IN  /\ level' = IF granted THEN filled - Interval ELSE filled
           /\ Decide(granted)
    /\ present' = TRUE /\ age' = 0
    /\ cleanupAge' = IF cleanupAge >= Cleanup THEN 0 ELSE cleanupAge
    /\ UNCHANGED <<kind, phase, qpsVars>>

\* Faulty variant: the time of the last leak moves on every call.
LeakRestarts(leaked) == 0

\* The fraction of an interval since the last leak is dropped.
LeakTime(leaked) == IF leaked > 0 THEN 0 ELSE age

LeakyAllow ==
    /\ kind = "leaky"
    /\ LET leaked == age \div Interval
           water == Less(level, leaked)
           granted == water < Burst
       IN  /\ level' = IF granted THEN water + 1 ELSE water
           /\ age' = LeakTime(leaked)
           /\ Decide(granted)
    /\ UNCHANGED <<kind, present, cleanupAge, phase, qpsVars>>

\* IncrWindow and PeriodLimit.TakeCtx: the first request starts a window, over
\* or swept or expired ones start again; Allowed and HitQuota let it in.
TakeWindow ==
    /\ kind \in Windows
    /\ LET fresh == ~present \/ age >= Window
           count == IF fresh THEN 1 ELSE Least(level + 1, Burst + 1)
       IN  /\ level' = count /\ Decide(count <= Burst)
           /\ age' = IF fresh THEN 0 ELSE age
    /\ present' = TRUE
    /\ cleanupAge' = IF kind = "memoryWindow" /\ cleanupAge >= Cleanup THEN 0 ELSE cleanupAge
    /\ UNCHANGED <<kind, phase, qpsVars>>

\* Align: the counter's key names the period of the wall clock.
TakeAligned ==
    /\ kind = "aligned"
    /\ LET count == IF present THEN Least(level + 1, Burst + 1) ELSE 1
       IN  level' = count /\ Decide(count <= Burst)
    /\ present' = TRUE
    /\ UNCHANGED <<kind, age, cleanupAge, phase, qpsVars>>

-----------------------------------------------------------------------------
(* qpsLimiter                                                              *)

Acquire(c) ==
    /\ kind = "qps" /\ at[c] = "idle"
    /\ at' = [at EXCEPT ![c] = "load"]
    /\ UNCHANGED <<kind, ruleVars, max, loaded, seen, excess, idle>>

LoadCur(c) ==
    /\ at[c] = "load"
    /\ IF level = 0
       THEN at' = [at EXCEPT ![c] = "idle"] /\ UNCHANGED seen
       ELSE at' = [at EXCEPT ![c] = "swap"] /\ seen' = [seen EXCEPT ![c] = level]
    /\ UNCHANGED <<kind, ruleVars, max, loaded, excess, idle>>

\* Another caller or a refill in between: once more.
SwapCur(c) ==
    /\ at[c] = "swap" /\ seen' = [seen EXCEPT ![c] = 0]
    /\ IF level = seen[c]
       THEN level' = level - 1 /\ at' = [at EXCEPT ![c] = "idle"] /\ Decide(TRUE)
       ELSE at' = [at EXCEPT ![c] = "load"] /\ UNCHANGED <<level, excess, idle>>
    /\ UNCHANGED <<kind, present, age, cleanupAge, phase, max, loaded>>

\* run: the ticker's case, in its two atomic operations.
LoadMax ==
    /\ kind = "qps" /\ age >= Window /\ loaded = 0
    /\ loaded' = max /\ age' = 0
    /\ UNCHANGED <<kind, present, level, cleanupAge, phase, max, seen, at, excess, idle>>

StoreCur ==
    /\ loaded # 0
    /\ level' = loaded /\ loaded' = 0
    /\ UNCHANGED <<kind, present, age, cleanupAge, phase, max, seen, at, excess, idle>>

UpdateLimit ==
    /\ kind = "qps"
    /\ max' \in 1..MaxLimit
    /\ UNCHANGED <<kind, ruleVars, loaded, seen, at, excess, idle>>

-----------------------------------------------------------------------------

\* The ticker's goroutine keeps up with its ticker.
Tick ==
    /\ kind = "qps" => age < Window /\ loaded = 0
    /\ age' = Least(age + 1, Cap) /\ cleanupAge' = Least(cleanupAge + 1, Cap)
    /\ idle' = Least(idle + 1, Cap)
    /\ phase' = IF kind = "aligned" THEN (phase + 1) % Window ELSE phase
    /\ present' = (present /\ (kind = "aligned" => phase' # 0))
    /\ excess' = Less(excess, Drain)
    /\ UNCHANGED <<kind, level, qpsVars>>

Next ==
    \/ AllowN \/ LeakyAllow \/ TakeWindow \/ TakeAligned \/ Tick
    \/ LoadMax \/ StoreCur \/ UpdateLimit
    \/ \E c \in Callers : Acquire(c) \/ LoadCur(c) \/ SwapCur(c)

Spec == Init /\ [][Next]_vars

\* Over any stretch of time a bucket lets in at most its burst and what the
\* rate allows for that time, the leaky one a part of an interval more, whose
\* time ran before there was water; a window or the QPS limiter at most its
\* quota for every period the stretch touches, two more than it covers.
RateHeld ==
    excess <= CASE kind \in Buckets -> Full
                [] kind = "leaky" -> Full + Interval - 1
                [] kind = "qps" -> 2 * MaxLimit * Window
                [] OTHER -> 2 * Full

\* Time always earns a place: when nothing has been let in for one token's
\* time (one window), the next request is.
WaitingPays ==
    [][/\ AllowN \/ LeakyAllow \/ TakeWindow \/ TakeAligned
       /\ idle >= (IF kind \in Buckets \cup {"leaky"} THEN Interval ELSE Window)
       => idle' = 0]_vars
=============================================================================
