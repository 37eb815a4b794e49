--------------------------- MODULE ServicesProofs ---------------------------
(***************************************************************************)
(* The limiters and the brokers for any number of callers and any rate:    *)
(* the monitor of TokenLimiter (an outage has one monitor, and a degraded  *)
(* limiter has someone to bring it back), the rate every limiter of        *)
(* Limiters holds, and the messages that arrive.  Then the collections for *)
(* any number of keys, slots, cells and size classes: timers fire within a *)
(* turn of their time (TimingWheel), the LRU list holds the cached keys    *)
(* (ExpiringCache), queue and ring keep order (Rings), and the buffer      *)
(* pool's sizes come from one calibration (BufferPool).                    *)
(***************************************************************************)
EXTENDS MCServices, DataLemmas, SequenceTheorems

-----------------------------------------------------------------------------
(* TokenLimiter.                                                           *)

\* While alive nobody tends the limiter, and a markDown can start a monitor.
AliveIsQuiet == alive => Running = 0 /\ Starting = {} /\ ~monitorStarted

\* Being the one to bring the limiter back is a token: the winner of the
\* compare-and-swap holds it, then the monitor it starts.
OneToken ==
    /\ Running <= 1
    /\ \A c, d \in Starting : c = d
    /\ Starting # {} => Running = 0 /\ ~monitorStarted

\* A monitor about to mark the limiter alive has cleared monitorStarted, so
\* the next outage gets a monitor.
ClearedFirst == monitors["cleared"] > 0 => ~monitorStarted

IInv == TypeOK /\ AliveIsQuiet /\ OneToken /\ ClearedFirst /\ NeverStranded

-----------------------------------------------------------------------------
LEMMA InitIInv == Init => IInv
  <1> SUFFICES ASSUME Init PROVE IInv
    OBVIOUS
  <1>1. TypeOK
    <2>1. closed \in BOOLEAN /\ up \in BOOLEAN
      BY Zenon DEF Init
    <2>2. monitors \in [MonitorPhase -> 0..MaxMonitors] /\ \A p \in MonitorPhase : monitors[p] = 0
      BY LimiterAssumption DEF Init
    <2>3. monitors["probe"] = 0 /\ monitors["recovered"] = 0 /\ pc \in [Callers -> Phase]
      BY <2>2 DEF Init, Phase, MonitorPhase
    <2> QED
      BY <2>1, <2>2, <2>3 DEF Init, TypeOK
  <1>2. Running = 0 /\ Starting = {}
    BY DEF Init, Running, Starting, MonitorPhase
  <1> QED
    BY <1>1, <1>2 DEF Init, IInv, AliveIsQuiet, OneToken, ClearedFirst, NeverStranded, MonitorPhase

\* Calls preserve the invariant; only the winner of the compare-and-swap takes
\* the token, and StartMonitor hands it to the new monitor.
LEMMA CallIInv ==
    ASSUME IInv, NEW c \in Callers, AllowContext(c) \/ CallStep(c)
    PROVE  IInv'
  <1> USE LimiterAssumption
  <1>1. CASE AllowContext(c) \/ TakeTokens(c)
    <2>1. Starting' = Starting /\ Running' = Running
      BY <1>1 DEF IInv, TypeOK, AllowContext, TakeTokens, Goto, Starting, Running
    <2>2. TypeOK'
      BY <1>1 DEF IInv, TypeOK, AllowContext, TakeTokens, Goto, Phase
    <2> QED
      BY <1>1, <2>1, <2>2 DEF IInv, AllowContext, TakeTokens, AliveIsQuiet, OneToken,
                              ClearedFirst, NeverStranded
  <1>2. CASE MarkDown(c)
    <2>1. TypeOK'
      BY <1>2 DEF IInv, TypeOK, MarkDown, Goto, Phase
    <2>2. Running' = Running
      BY <1>2 DEF MarkDown, Running
    <2>3. CASE alive
      <3>1. Starting' = {c}
        BY <1>2, <2>3 DEF IInv, AliveIsQuiet, TypeOK, MarkDown, Goto, Starting
      <3> QED
        BY <1>2, <2>1, <2>2, <2>3, <3>1 DEF IInv, MarkDown, AliveIsQuiet, OneToken, ClearedFirst,
                                            NeverStranded
    <2>4. CASE ~alive
      <3>1. Starting' = Starting
        BY <1>2, <2>4 DEF IInv, TypeOK, MarkDown, Goto, Starting
      <3> QED
        BY <1>2, <2>1, <2>2, <2>4, <3>1 DEF IInv, MarkDown, AliveIsQuiet, OneToken, ClearedFirst,
                                            NeverStranded
    <2> QED
      BY <2>3, <2>4
  <1>3. CASE StartMonitor(c)
    <2>1. Starting = {c} /\ Running = 0 /\ ~monitorStarted /\ ~alive
      BY <1>3 DEF IInv, StartMonitor, OneToken, AliveIsQuiet, Starting
    <2>2. monitors["probe"] = 0 /\ monitors["recovered"] = 0 /\ monitors["cleared"] = 0
      BY <2>1 DEF IInv, TypeOK, MonitorPhase, Running
    <2>3. monitors' = [monitors EXCEPT !["probe"] = 1] /\ monitorStarted' = TRUE /\ alive' = alive
      BY <1>3, <2>1, <2>2 DEF StartMonitor
    <2>4. TypeOK'
      BY <1>3, <2>2, <2>3 DEF IInv, TypeOK, StartMonitor, Goto, Phase, MonitorPhase
    <2>5. Starting' = {} /\ Running' = 1 /\ monitors'["cleared"] = 0
      BY <1>3, <2>1, <2>2, <2>3 DEF IInv, TypeOK, StartMonitor, Goto, Starting, Running, MonitorPhase
    <2> QED
      BY <2>1, <2>3, <2>4, <2>5 DEF IInv, AliveIsQuiet, OneToken, ClearedFirst, NeverStranded
  <1> QED
    BY <1>1, <1>2, <1>3 DEF CallStep

\* A running monitor is the only one, and nobody is about to start another.
LEMMA MonitorAlone ==
    ASSUME IInv, NEW m \in MonitorPhase, monitors[m] > 0
    PROVE  /\ \A p \in MonitorPhase : monitors[p] = IF p = m THEN 1 ELSE 0
           /\ Starting = {} /\ ~alive
  <1>1. /\ monitors["probe"] \in Nat /\ monitors["recovered"] \in Nat /\ monitors["cleared"] \in Nat
        /\ monitors["probe"] + monitors["recovered"] + monitors["cleared"] <= 1
    BY LimiterAssumption DEF IInv, TypeOK, MonitorPhase, OneToken, Running
  <1>2. m = "probe" \/ m = "recovered" \/ m = "cleared"
    BY DEF MonitorPhase
  <1>3. Running > 0
    BY <1>1, <1>2 DEF Running
  <1>4. \A p \in {"probe", "recovered", "cleared"} : monitors[p] = IF p = m THEN 1 ELSE 0
    <2>1. CASE m = "probe"
      BY <1>1, <2>1
    <2>2. CASE m = "recovered"
      BY <1>1, <2>2
    <2>3. CASE m = "cleared"
      BY <1>1, <2>3
    <2> QED
      BY <1>2, <2>1, <2>2, <2>3
  <1> QED
    BY <1>3, <1>4 DEF IInv, OneToken, AliveIsQuiet, MonitorPhase

\* How many monitors are where after a step of the only one, in phase m.
LEMMA MonitorMoves ==
    ASSUME IInv, NEW m \in MonitorPhase, NEW n \in MonitorPhase, m # n
    PROVE  /\ Advance(m, n) => /\ monitors' \in [MonitorPhase -> 0..MaxMonitors]
                              /\ \A p \in MonitorPhase : monitors'[p] = IF p = n THEN 1 ELSE 0
           /\ Exit(m) => /\ monitors' \in [MonitorPhase -> 0..MaxMonitors]
                         /\ \A p \in MonitorPhase : monitors'[p] = 0
  <1>1. MaxMonitors \in Nat /\ MaxMonitors >= 1 /\ monitors \in [MonitorPhase -> 0..MaxMonitors]
    BY LimiterAssumption DEF IInv, TypeOK
  <1>2. CASE monitors[m] > 0
    <2>1. \A p \in MonitorPhase : monitors[p] = IF p = m THEN 1 ELSE 0
      BY <1>2, MonitorAlone
    <2> QED
      BY <1>1, <2>1 DEF Advance, Exit
  <1>3. CASE ~(monitors[m] > 0)
    BY <1>3 DEF Advance, Exit
  <1> QED
    BY <1>2, <1>3

\* The steps of a monitor preserve the invariant.
LEMMA MonitorIInv ==
    ASSUME IInv, MonitorStep
    PROVE  IInv'
  <1> USE LimiterAssumption
  <1>0. "probe" \in MonitorPhase /\ "recovered" \in MonitorPhase /\ "cleared" \in MonitorPhase
    BY DEF MonitorPhase
  <1>1. CASE PingOK
    <2>1. monitors["probe"] = 1 /\ Starting = {} /\ ~alive
      BY <1>0, <1>1, MonitorAlone DEF PingOK, Advance
    <2>2. /\ monitors' \in [MonitorPhase -> 0..MaxMonitors]
          /\ \A p \in MonitorPhase : monitors'[p] = IF p = "recovered" THEN 1 ELSE 0
      BY <1>0, <1>1, MonitorMoves DEF PingOK
    <2>3. monitorStarted /\ Running' = 1 /\ monitors'["cleared"] = 0
      BY <1>0, <2>1, <2>2 DEF IInv, TypeOK, Running
    <2>4. TypeOK' /\ Starting' = Starting
      BY <1>1, <2>2, <2>3 DEF PingOK, IInv, TypeOK, Starting
    <2> QED
      BY <1>1, <2>1, <2>3, <2>4 DEF PingOK, IInv, AliveIsQuiet, OneToken, ClearedFirst, NeverStranded
  <1>2. CASE ClearStarted
    <2>1. Starting = {} /\ ~alive
      BY <1>0, <1>2, MonitorAlone DEF ClearStarted, Advance
    <2>2. /\ monitors' \in [MonitorPhase -> 0..MaxMonitors]
          /\ \A p \in MonitorPhase : monitors'[p] = IF p = "cleared" THEN 1 ELSE 0
      BY <1>0, <1>2, MonitorMoves DEF ClearStarted
    <2>3. monitors'["probe"] = 0 /\ monitors'["recovered"] = 0 /\ Running' = 1
      BY <1>0, <2>2 DEF Running
    <2>4. TypeOK' /\ Starting' = Starting
      BY <1>2, <2>2, <2>3 DEF ClearStarted, IInv, TypeOK, Starting
    <2> QED
      BY <1>2, <2>1, <2>3, <2>4 DEF ClearStarted, IInv, AliveIsQuiet, OneToken, ClearedFirst, NeverStranded
  <1>3. CASE MarkAlive
    <2>1. monitors["cleared"] = 1 /\ Starting = {}
      BY <1>0, <1>3, MonitorAlone DEF MarkAlive, Exit
    <2>2. monitors' \in [MonitorPhase -> 0..MaxMonitors] /\ \A p \in MonitorPhase : monitors'[p] = 0
      BY <1>0, <1>3, MonitorMoves DEF MarkAlive
    <2>3. ~monitorStarted /\ Running' = 0 /\ monitors'["probe"] = 0 /\ monitors'["recovered"] = 0
      BY <1>0, <2>1, <2>2 DEF IInv, ClearedFirst, Running
    <2>4. TypeOK' /\ Starting' = Starting
      BY <1>3, <2>2, <2>3 DEF MarkAlive, IInv, TypeOK, Starting
    <2> QED
      BY <1>3, <2>1, <2>3, <2>4 DEF MarkAlive, IInv, AliveIsQuiet, OneToken, ClearedFirst, NeverStranded
  <1>4. CASE MonitorStops
    <2>1. Starting = {} /\ ~alive
      BY <1>0, <1>4, MonitorAlone DEF MonitorStops, Exit
    <2>2. monitors' \in [MonitorPhase -> 0..MaxMonitors] /\ \A p \in MonitorPhase : monitors'[p] = 0
      BY <1>0, <1>4, MonitorMoves DEF MonitorStops
    <2>3. /\ Running' = 0 /\ monitors'["cleared"] = 0
          /\ monitors'["probe"] = 0 /\ monitors'["recovered"] = 0
      BY <1>0, <2>2 DEF Running
    <2>4. TypeOK' /\ Starting' = Starting
      BY <1>4, <2>2, <2>3 DEF MonitorStops, IInv, TypeOK, Starting
    <2> QED
      BY <1>4, <2>1, <2>3, <2>4 DEF MonitorStops, IInv, AliveIsQuiet, OneToken, ClearedFirst, NeverStranded
  <1> QED
    BY <1>1, <1>2, <1>3, <1>4 DEF MonitorStep

\* Close and the store preserve the invariant.
LEMMA OtherIInv ==
    ASSUME IInv, Close \/ StoreChange \/ UNCHANGED vars
    PROVE  IInv'
  <1>1. Starting' = Starting /\ Running' = Running
    BY DEF Close, StoreChange, vars, Starting, Running
  <1>2. closed' \in BOOLEAN /\ up' \in BOOLEAN
    BY Zenon DEF IInv, TypeOK, Close, StoreChange, vars
  <1>3. TypeOK' /\ alive' = alive /\ monitorStarted' = monitorStarted /\ monitors' = monitors
        /\ (closed => closed')
    BY <1>2 DEF IInv, TypeOK, Close, StoreChange, vars
  <1> QED
    BY <1>1, <1>3 DEF IInv, AliveIsQuiet, OneToken, ClearedFirst, NeverStranded

-----------------------------------------------------------------------------
\* The inductive invariant: bringing the limiter back is a token that one
\* caller or one monitor holds while the limiter is degraded.
THEOREM Inductive == Spec => []IInv
  <1>1. IInv /\ [Next]_vars => IInv'
    BY CallIInv, MonitorIInv, OtherIInv DEF Next
  <1> QED
    BY InitIInv, <1>1, PTL DEF Spec

\* Type correctness: a monitor that probes the store has monitorStarted set.
THEOREM TypeCorrect == Spec => []TypeOK
  BY Inductive, PTL DEF IInv

\* markDown's compare-and-swap and monitorStarted together admit one monitor.
THEOREM AtMostOneMonitor == Spec => []OneMonitor
  <1>1. IInv => OneMonitor
    <2> SUFFICES ASSUME IInv PROVE OneMonitor
      OBVIOUS
    <2>1. Running \in Nat
      BY LimiterAssumption DEF IInv, TypeOK, MonitorPhase, Running
    <2>2. CASE Starting = {}
      BY <2>1, <2>2, FS_EmptySet DEF IInv, OneToken, OneMonitor
    <2>3. CASE Starting # {}
      <3>1. PICK c \in Starting : Starting = {c}
        BY <2>3 DEF IInv, OneToken
      <3>2. Cardinality(Starting) = 1
        BY <3>1, FS_Singleton
      <3> QED
        BY <2>3, <3>2 DEF IInv, OneToken, OneMonitor
    <2> QED
      BY <2>2, <2>3
  <1> QED
    BY Inductive, <1>1, PTL

\* The limiter is never left degraded with nobody to bring it back, unless it
\* is closed.
THEOREM AlwaysTended == Spec => []NeverStranded
  BY Inductive, PTL DEF IInv
-----------------------------------------------------------------------------
(* Limiters: what every limiter lets in.                                   *)

LEMMA SafetyOfAll == AllSpec => AllInit /\ [][AllNext]_allVars
  BY PTL DEF AllSpec

LEMMA PartsMove ==
  ASSUME [AllNext]_allVars
  PROVE  [Rates!Next]_limitVars /\ [Bus!Next]_busVars /\ [Redis!Next]_redisVars
  BY DEF AllNext, allVars, limitVars, busVars, redisVars

\* Full, the ticks a burst takes to refill, and the caps past it.
LEMMA FullFacts ==
    /\ Rates!Full \in Nat /\ Interval \in Nat /\ 1 <= Interval /\ Interval <= Rates!Full
    /\ Burst \in Nat /\ 1 <= Burst /\ Rates!Window = Rates!Full
    /\ Rates!Cap \in Nat /\ Rates!TTL \in Nat
    /\ 2 * Rates!Full <= Rates!Cap /\ Rates!TTL = 2 * Rates!Full
  <1>1. Burst * Interval \in Nat /\ Interval <= Burst * Interval
    BY LimitersConstants
  <1>2. Burst \in Nat /\ 1 <= Burst /\ Interval \in Nat /\ 1 <= Interval /\ Cleanup \in Nat
    BY LimitersConstants
  <1>3. Rates!Full \in Nat /\ Interval <= Rates!Full /\ Rates!Window = Rates!Full
    BY <1>1 DEF Rates!Full, Rates!Window
  <1>4. Rates!TTL = 2 * Rates!Full /\ Rates!Cap = Rates!TTL + Cleanup
    BY DEF Rates!TTL, Rates!Cap
  <1> QED
    BY <1>2, <1>3, <1>4

\* The ticks that n tokens take to refill, what a window of which n requests
\* were counted let in, and the meter's measures for the QPS limiter: of n
\* places, and of n ticks.
Times(n) == n * Interval
Counted(n) == IF n < Burst THEN Times(n) ELSE Times(Burst)
Places(n) == n * Rates!Full
Drained(n) == MaxLimit * n

LEMMA TimesFacts ==
    /\ Times(0) = 0 /\ Times(1) = Interval /\ Times(Burst) = Rates!Full
    /\ \A n \in Nat : Times(n) \in Nat /\ Times(n + 1) = Times(n) + Interval
    /\ \A n, m \in Nat : Times(n + m) = Times(n) + Times(m)
    /\ \A n, m \in Nat : n <= m => Times(n) <= Times(m)
  <1>0. Interval \in Nat /\ Burst \in Nat
    BY LimitersConstants
  <1>1. \A n, m \in Nat : Times(n) \in Nat /\ Times(n + m) = Times(n) + Times(m)
    BY <1>0 DEF Times
  <1>2. Times(0) = 0 /\ Times(1) = Interval /\ Times(Burst) = Rates!Full
    BY <1>0 DEF Times, Rates!Full
  <1>3. ASSUME NEW n \in Nat, NEW m \in Nat, n <= m
        PROVE  Times(n) <= Times(m)
    <2>1. m - n \in Nat /\ m = n + (m - n)
      BY <1>3
    <2>2. Times(m) = Times(n) + Times(m - n) /\ Times(m - n) \in Nat /\ Times(n) \in Nat
      BY <1>1, <2>1
    <2> QED
      BY <2>2
  <1>4. \A n \in Nat : Times(n + 1) = Times(n) + Interval
    BY <1>1, <1>2
  <1> QED
    BY <1>1, <1>2, <1>3, <1>4

LEMMA CountedFacts ==
    /\ Counted(1) = Interval
    /\ \A n \in Nat : Counted(n) \in Nat /\ Counted(n) <= Rates!Full
    /\ \A n \in Nat : n < Burst => Counted(n + 1) = Counted(n) + Interval
    /\ \A n, m \in Nat : n >= Burst /\ m >= Burst => Counted(n) = Counted(m)
  <1>0. Burst \in Nat /\ 1 <= Burst /\ Interval \in Nat
    BY LimitersConstants
  <1>1. \A n \in Nat : n <= Burst => Counted(n) = Times(n)
    BY <1>0 DEF Counted
  <1>2. \A n \in Nat : n >= Burst => Counted(n) = Times(Burst)
    BY <1>0 DEF Counted
  <1>3. ASSUME NEW n \in Nat
        PROVE  Counted(n) \in Nat /\ Counted(n) <= Rates!Full
    <2>1. CASE n <= Burst
      BY <1>0, <1>1, <2>1, TimesFacts
    <2>2. CASE n >= Burst
      <3>1. Counted(n) = Rates!Full
        BY <1>2, <2>2, TimesFacts
      <3> QED
        BY <3>1, FullFacts
    <2> QED
      BY <1>0, <2>1, <2>2
  <1>4. \A n \in Nat : n < Burst => Counted(n + 1) = Counted(n) + Interval
    BY <1>0, <1>1, TimesFacts
  <1> QED
    BY <1>0, <1>1, <1>2, <1>3, <1>4, TimesFacts

LEMMA PlacesFacts ==
    /\ \A n \in Nat : /\ Places(n) \in Nat /\ Places(n + 1) = Places(n) + Rates!Full
                      /\ n <= MaxLimit => Places(n) <= Drained(Rates!Full)
    /\ Drained(0) = 0 /\ Drained(Rates!Full) \in Nat
    /\ Drained(2 * Rates!Full) = Drained(Rates!Full) + Drained(Rates!Full)
    /\ 2 * MaxLimit * Rates!Window = Drained(2 * Rates!Full)
    /\ \A n \in Nat : /\ Drained(n) \in Nat /\ Drained(n + 1) = Drained(n) + MaxLimit
                      /\ n <= Rates!Full => Drained(n) <= Drained(Rates!Full)
  <1> DEFINE F == Rates!Full
  <1>0. F \in Nat /\ MaxLimit \in Nat /\ Rates!Window = F
    BY LimitersConstants, FullFacts
  <1> HIDE DEF F
  <1>1. \A n \in Nat : n * F \in Nat /\ (n + 1) * F = n * F + F
    BY <1>0
  <1>2. ASSUME NEW n \in Nat, NEW m \in Nat, n <= m
        PROVE  n * F <= m * F
    <2>1. PICK d \in Nat : m = n + d
      <3>1. m - n \in Nat /\ m = n + (m - n)
        BY <1>2
      <3> QED
        BY <3>1
    <2>2. m * F = n * F + d * F /\ d * F \in Nat /\ n * F \in Nat
      BY <1>0, <2>1
    <2> QED
      BY <2>2
  <1>3. \A n \in Nat : MaxLimit * n \in Nat /\ MaxLimit * (n + 1) = MaxLimit * n + MaxLimit
    BY <1>0
  <1>4. ASSUME NEW n \in Nat, NEW m \in Nat, n <= m
        PROVE  MaxLimit * n <= MaxLimit * m
    <2>1. PICK d \in Nat : m = n + d
      <3>1. m - n \in Nat /\ m = n + (m - n)
        BY <1>4
      <3> QED
        BY <3>1
    <2>2. MaxLimit * m = MaxLimit * n + MaxLimit * d /\ MaxLimit * d \in Nat /\ MaxLimit * n \in Nat
      BY <1>0, <2>1
    <2> QED
      BY <2>2
  <1>5. MaxLimit * 0 = 0 /\ MaxLimit * (2 * F) = MaxLimit * F + MaxLimit * F
        /\ 2 * MaxLimit * F = MaxLimit * (2 * F)
    BY <1>0
  <1>6. \A n \in Nat : Places(n) \in Nat /\ Places(n + 1) = Places(n) + F
    BY <1>1 DEF Places, F
  <1>7. \A n \in Nat : n <= MaxLimit => Places(n) <= Drained(F)
    BY <1>0, <1>2 DEF Places, Drained, F
  <1>8. \A n \in Nat : Drained(n) \in Nat /\ Drained(n + 1) = Drained(n) + MaxLimit
    BY <1>3 DEF Drained
  <1>9. \A n \in Nat : n <= F => Drained(n) <= Drained(F)
    BY <1>0, <1>4 DEF Drained
  <1>10. /\ Drained(0) = 0 /\ Drained(2 * F) = Drained(F) + Drained(F)
         /\ 2 * MaxLimit * Rates!Window = Drained(2 * F)
    BY <1>0, <1>5 DEF Drained
  <1> QED
    BY <1>0, <1>6, <1>7, <1>8, <1>9, <1>10 DEF F

\* The bucket's tokens and the meter make up a burst: what the meter says is
\* missing is missing in the bucket.  The time without a grant shows in the
\* tokens.
BucketOK(l, a, x, i) ==
    /\ l \in Nat /\ a \in Nat /\ x \in Nat /\ i \in Nat /\ l <= Rates!Full
    /\ l + a < Rates!Full => x + l + a <= Rates!Full
    /\ l + a >= Rates!Full => x = 0
    /\ l + a >= i \/ l + a >= Interval

\* The meter is covered by the water, and by the part of an interval that the
\* last leak may have dropped.
LeakyOK(l, a, x, i) ==
    /\ l \in Nat /\ a \in Nat /\ x \in Nat /\ i \in Nat /\ l <= Burst
    /\ x = 0 \/ x + a < Times(l) + Interval
    /\ l = Burst => a >= i \/ a >= Interval

\* A window adds what it let in to what the one before it left; after its end
\* at most a quota is left.
WindowOK(l, a, x, i) ==
    /\ l \in Nat /\ a \in Nat /\ x \in Nat /\ i \in Nat
    /\ a <= Rates!Full => x + a <= Rates!Full + Counted(l)
    /\ a >= Rates!Full => x <= Rates!Full
    /\ l >= Burst => a >= i \/ a >= Rates!Full

\* The same for a window of the wall clock, whose counter goes with it.
AlignedOK(l, p, x, i) ==
    /\ l \in Nat /\ p \in Nat /\ x \in Nat /\ i \in Nat /\ p < Rates!Full
    /\ x + p <= Rates!Full + Counted(l)
    /\ l >= Burst => i <= p

\* What the QPS limiter may still let in is part of the quotas of the two
\* periods a stretch touches; a limit that run has loaded is of the next.
QpsOK(l, a, x, m) ==
    /\ l \in Nat /\ a \in Nat /\ x \in Nat /\ m \in Nat
    /\ l <= MaxLimit /\ m <= MaxLimit /\ a <= Rates!Full
    /\ m = 0 => x + Places(l) + Drained(a) <= Drained(2 * Rates!Full)
    /\ m # 0 => a = 0 /\ x + Places(l) <= Drained(Rates!Full)

\* No caller and no refill is under way but for the QPS limiter, and a caller
\* swaps only what it has seen.
CallersInv ==
    /\ maxLoaded \in Nat /\ max \in 1..MaxLimit
    /\ kind # "qps" => maxLoaded = 0 /\ \A c \in Pair : at[c] = "idle"
    /\ seen \in [Pair -> Nat] /\ at \in [Pair -> {"idle", "load", "swap"}]
    /\ \A c \in Pair : at[c] = "swap" => seen[c] >= 1

LimitInv ==
    /\ CallersInv
    /\ kind \in Rates!Buckets \cup Rates!Windows \cup {"leaky", "aligned", "qps"}
    /\ level \in Nat /\ age \in Nat /\ excess \in Nat /\ idle \in Nat /\ phase \in Nat
    /\ kind \in Rates!Buckets => IF present THEN BucketOK(level, age, excess, idle) ELSE excess = 0
    /\ kind = "leaky" => LeakyOK(level, age, excess, idle)
    /\ kind \in Rates!Windows => IF present THEN WindowOK(level, age, excess, idle) ELSE excess = 0
    /\ kind = "aligned" =>
         /\ phase < Rates!Full
         /\ IF present THEN AlignedOK(level, phase, excess, idle) ELSE excess + phase <= Rates!Full
    /\ kind = "qps" => QpsOK(level, age, excess, maxLoaded)

-----------------------------------------------------------------------------
(* What a call and a tick do to each of them, as facts about numbers.       *)

\* What a tick does to the clocks and to the meter.
Ticked(a, a2, i, i2, x, x2, drain) ==
    /\ a2 \in Nat /\ i2 \in Nat /\ x2 \in Nat
    /\ a2 = a + 1 \/ (a2 = Rates!Cap /\ a + 1 >= Rates!Cap)
    /\ i2 <= i + 1
    /\ (x2 = x - drain /\ x > drain) \/ (x2 = 0 /\ x <= drain)

LEMMA BucketCall ==
  ASSUME NEW f \in Nat, NEW x \in Nat, NEW i \in Nat, f <= Rates!Full, x + f <= Rates!Full,
         f >= i \/ f >= Interval
  PROVE  /\ f >= Interval => BucketOK(f - Interval, 0, x + Interval, 0)
         /\ f < Interval => BucketOK(f, 0, x, i)
         /\ i >= Interval => f >= Interval
  <1>1. ASSUME f >= Interval
        PROVE  BucketOK(f - Interval, 0, x + Interval, 0)
    BY <1>1, FullFacts DEF BucketOK
  <1>2. ASSUME f < Interval
        PROVE  BucketOK(f, 0, x, i)
    BY <1>2, FullFacts DEF BucketOK
  <1>3. i >= Interval => f >= Interval
    BY FullFacts
  <1> QED
    BY <1>1, <1>2, <1>3

LEMMA BucketTicks ==
  ASSUME NEW l, NEW a, NEW x, NEW i, NEW a2, NEW x2, NEW i2,
         BucketOK(l, a, x, i), Ticked(a, a2, i, i2, x, x2, 1)
  PROVE  BucketOK(l, a2, x2, i2)
  BY FullFacts DEF BucketOK, Ticked

LEMMA LeakyTicks ==
  ASSUME NEW l, NEW a, NEW x, NEW i, NEW a2, NEW x2, NEW i2,
         LeakyOK(l, a, x, i), Ticked(a, a2, i, i2, x, x2, 1)
  PROVE  LeakyOK(l, a2, x2, i2)
  <1>1. l \in Nat /\ Times(l) \in Nat /\ Times(l) <= Rates!Full
    BY FullFacts, TimesFacts DEF LeakyOK
  <1>2. x2 = 0 \/ x2 + a2 < Times(l) + Interval
    BY <1>1, FullFacts DEF LeakyOK, Ticked
  <1>3. l = Burst => a2 >= i2 \/ a2 >= Interval
    BY FullFacts DEF LeakyOK, Ticked
  <1> QED
    BY <1>2, <1>3 DEF LeakyOK, Ticked

\* The leak keeps the meter covered: each whole interval takes a request's
\* water and a request's excess.
LEMMA LeakyCall ==
  ASSUME NEW l, NEW a, NEW x, NEW i, LeakyOK(l, a, x, i),
         NEW k \in Nat, Times(k) <= a, a < Times(k) + Interval,
         NEW w \in Nat, w = IF l > k THEN l - k ELSE 0,
         NEW a2, a2 = IF k > 0 THEN 0 ELSE a
  PROVE  /\ w < Burst => LeakyOK(w + 1, a2, x + Interval, 0)
         /\ w >= Burst => LeakyOK(w, a2, x, i)
         /\ i >= Interval => w < Burst
  <1>0. /\ l \in Nat /\ a \in Nat /\ x \in Nat /\ i \in Nat /\ l <= Burst /\ a2 \in Nat
        /\ Burst \in Nat /\ 1 <= Burst /\ Interval \in Nat /\ 1 <= Interval
    BY FullFacts DEF LeakyOK
  <1>1. /\ Times(l) \in Nat /\ Times(k) \in Nat /\ Times(w) \in Nat
        /\ Times(w + 1) = Times(w) + Interval
    BY <1>0, TimesFacts
  <1>2. x = 0 \/ x + a < Times(l) + Interval
    BY DEF LeakyOK
  <1>3. CASE k = 0
    <2>1. w = l /\ a2 = a /\ a < Interval
      BY <1>0, <1>3, TimesFacts
    <2>2. w < Burst => LeakyOK(w + 1, a2, x + Interval, 0)
      BY <1>0, <1>1, <1>2, <2>1 DEF LeakyOK
    <2>3. w >= Burst => LeakyOK(w, a2, x, i)
      BY <1>0, <1>1, <1>2, <2>1 DEF LeakyOK
    <2>4. i >= Interval => w < Burst
      BY <1>0, <2>1 DEF LeakyOK
    <2> QED
      BY <2>2, <2>3, <2>4
  <1>4. CASE k > 0
    <2>1. w < Burst /\ a2 = 0
      BY <1>0, <1>4
    <2>2. x = 0 \/ x < Times(w) + Interval
      <3>1. CASE l > k
        <4>1. w + k = l
          BY <1>0, <3>1
        <4>2. Times(w + k) = Times(w) + Times(k)
          BY TimesFacts
        <4> QED
          BY <1>0, <1>1, <1>2, <4>1, <4>2
      <3>2. CASE l <= k
        <4>1. Times(l) <= Times(k)
          BY <1>0, <3>2, TimesFacts
        <4> QED
          BY <1>0, <1>1, <1>2, <4>1
      <3> QED
        BY <1>0, <3>1, <3>2
    <2>3. LeakyOK(w + 1, a2, x + Interval, 0)
      BY <1>0, <1>1, <2>1, <2>2 DEF LeakyOK
    <2> QED
      BY <1>0, <2>1, <2>3
  <1> QED
    BY <1>3, <1>4

LEMMA WindowTicks ==
  ASSUME NEW l, NEW a, NEW x, NEW i, NEW a2, NEW x2, NEW i2,
         WindowOK(l, a, x, i), Ticked(a, a2, i, i2, x, x2, 1)
  PROVE  WindowOK(l, a2, x2, i2)
  <1>1. l \in Nat /\ Counted(l) \in Nat /\ Counted(l) <= Rates!Full
    BY CountedFacts DEF WindowOK
  <1>2. /\ a2 <= Rates!Full => x2 + a2 <= Rates!Full + Counted(l)
        /\ a2 >= Rates!Full => x2 <= Rates!Full
    BY <1>1, FullFacts DEF WindowOK, Ticked
  <1>3. l >= Burst => a2 >= i2 \/ a2 >= Rates!Full
    BY FullFacts DEF WindowOK, Ticked
  <1> QED
    BY <1>2, <1>3 DEF WindowOK, Ticked

\* A window that begins, and one that goes on.
LEMMA WindowCall ==
    /\ \A x \in Nat : x <= Rates!Full => WindowOK(1, 0, x + Interval, 0)
    /\ \A l, a, x, i :
         WindowOK(l, a, x, i) /\ a < Rates!Full =>
           /\ l < Burst => WindowOK(l + 1, a, x + Interval, 0)
           /\ l >= Burst => WindowOK(Burst + 1, a, x, i)
           /\ i >= Rates!Full => l < Burst
  <1>1. \A x \in Nat : x <= Rates!Full => WindowOK(1, 0, x + Interval, 0)
    BY FullFacts, CountedFacts DEF WindowOK
  <1>2. ASSUME NEW l, NEW a, NEW x, NEW i, WindowOK(l, a, x, i), a < Rates!Full
        PROVE  /\ l < Burst => WindowOK(l + 1, a, x + Interval, 0)
               /\ l >= Burst => WindowOK(Burst + 1, a, x, i)
               /\ i >= Rates!Full => l < Burst
    <2>1. ASSUME l < Burst
          PROVE  WindowOK(l + 1, a, x + Interval, 0)
      <3>1. l \in Nat /\ Counted(l) \in Nat /\ Counted(l + 1) = Counted(l) + Interval
        BY <1>2, <2>1, CountedFacts DEF WindowOK
      <3> QED
        BY <1>2, <2>1, <3>1, FullFacts DEF WindowOK
    <2>2. ASSUME l >= Burst
          PROVE  WindowOK(Burst + 1, a, x, i)
      <3>1. l \in Nat /\ Burst + 1 \in Nat /\ Counted(Burst + 1) = Counted(l)
        BY <1>2, <2>2, CountedFacts, FullFacts DEF WindowOK
      <3> QED
        BY <1>2, <2>2, <3>1, FullFacts DEF WindowOK
    <2>3. i >= Rates!Full => l < Burst
      BY <1>2, FullFacts DEF WindowOK
    <2> QED
      BY <2>1, <2>2, <2>3
  <1> QED
    BY <1>1, <1>2

LEMMA AlignedTicks ==
    /\ \A l, p, x, i, a, a2, x2, i2 :
         AlignedOK(l, p, x, i) /\ Ticked(a, a2, i, i2, x, x2, 1) =>
           /\ p + 1 < Rates!Full => AlignedOK(l, p + 1, x2, i2)
           /\ p + 1 = Rates!Full => x2 <= Rates!Full
    /\ \A p, x \in Nat : \A i, a, a2, x2, i2 :
         p < Rates!Full /\ x + p <= Rates!Full /\ Ticked(a, a2, i, i2, x, x2, 1) =>
           /\ p + 1 < Rates!Full => x2 + (p + 1) <= Rates!Full
           /\ x2 <= Rates!Full
  <1>1. ASSUME NEW l, NEW p, NEW x, NEW i, NEW a, NEW a2, NEW x2, NEW i2,
               AlignedOK(l, p, x, i), Ticked(a, a2, i, i2, x, x2, 1)
        PROVE  /\ p + 1 < Rates!Full => AlignedOK(l, p + 1, x2, i2)
               /\ p + 1 = Rates!Full => x2 <= Rates!Full
    <2>1. l \in Nat /\ Counted(l) \in Nat /\ Counted(l) <= Rates!Full
      BY <1>1, CountedFacts DEF AlignedOK
    <2>2. ASSUME p + 1 < Rates!Full
          PROVE  AlignedOK(l, p + 1, x2, i2)
      BY <1>1, <2>1, <2>2, FullFacts DEF AlignedOK, Ticked
    <2>3. p + 1 = Rates!Full => x2 <= Rates!Full
      BY <1>1, <2>1, FullFacts DEF AlignedOK, Ticked
    <2> QED
      BY <2>2, <2>3
  <1>2. ASSUME NEW p \in Nat, NEW x \in Nat, NEW i, NEW a, NEW a2, NEW x2, NEW i2,
               p < Rates!Full, x + p <= Rates!Full, Ticked(a, a2, i, i2, x, x2, 1)
        PROVE  /\ p + 1 < Rates!Full => x2 + (p + 1) <= Rates!Full
               /\ x2 <= Rates!Full
    BY <1>2, FullFacts DEF Ticked
  <1> QED
    BY <1>1, <1>2

LEMMA AlignedCall ==
    /\ \A p, x \in Nat : p < Rates!Full /\ x + p <= Rates!Full => AlignedOK(1, p, x + Interval, 0)
    /\ \A l, p, x, i :
         AlignedOK(l, p, x, i) =>
           /\ l < Burst => AlignedOK(l + 1, p, x + Interval, 0)
           /\ l >= Burst => AlignedOK(Burst + 1, p, x, i)
           /\ i >= Rates!Full => l < Burst
  <1>1. \A p, x \in Nat : p < Rates!Full /\ x + p <= Rates!Full => AlignedOK(1, p, x + Interval, 0)
    BY FullFacts, CountedFacts DEF AlignedOK
  <1>2. ASSUME NEW l, NEW p, NEW x, NEW i, AlignedOK(l, p, x, i)
        PROVE  /\ l < Burst => AlignedOK(l + 1, p, x + Interval, 0)
               /\ l >= Burst => AlignedOK(Burst + 1, p, x, i)
               /\ i >= Rates!Full => l < Burst
    <2>1. ASSUME l < Burst
          PROVE  AlignedOK(l + 1, p, x + Interval, 0)
      <3>1. l \in Nat /\ Counted(l) \in Nat /\ Counted(l + 1) = Counted(l) + Interval
        BY <1>2, <2>1, CountedFacts DEF AlignedOK
      <3> QED
        BY <1>2, <2>1, <3>1, FullFacts DEF AlignedOK
    <2>2. ASSUME l >= Burst
          PROVE  AlignedOK(Burst + 1, p, x, i)
      <3>1. l \in Nat /\ Burst + 1 \in Nat /\ Counted(Burst + 1) = Counted(l)
        BY <1>2, <2>2, CountedFacts, FullFacts DEF AlignedOK
      <3> QED
        BY <1>2, <2>2, <3>1, FullFacts DEF AlignedOK
    <2>3. i >= Rates!Full => l < Burst
      BY <1>2, FullFacts DEF AlignedOK
    <2> QED
      BY <2>1, <2>2, <2>3
  <1> QED
    BY <1>1, <1>2

\* A tick, a swap, and the two halves of a refill.
LEMMA QpsSteps ==
  ASSUME NEW l, NEW a, NEW x, NEW m, QpsOK(l, a, x, m)
  PROVE  /\ \A i, a2, i2, x2 : Ticked(a, a2, i, i2, x, x2, MaxLimit) /\ m = 0 /\ a < Rates!Full
              => QpsOK(l, a2, x2, m)
         /\ l >= 1 => QpsOK(l - 1, a, x + Rates!Full, m)
         /\ \A m2 \in 1..MaxLimit : m = 0 /\ a >= Rates!Full => QpsOK(l, 0, x, m2)
         /\ m # 0 => QpsOK(m, a, x, 0)
  <1> DEFINE F == Rates!Full
             D == Drained(Rates!Full)
             D2 == Drained(2 * Rates!Full)
  <1>0. /\ F \in Nat /\ 1 <= F /\ D \in Nat /\ D2 = D + D /\ MaxLimit \in Nat
        /\ Rates!Cap \in Nat /\ F <= Rates!Cap
    BY FullFacts, PlacesFacts, LimitersConstants
  <1>1. /\ l \in Nat /\ a \in Nat /\ x \in Nat /\ m \in Nat /\ l <= MaxLimit /\ m <= MaxLimit /\ a <= F
        /\ m = 0 => x + Places(l) + Drained(a) <= D2
        /\ m # 0 => a = 0 /\ x + Places(l) <= D
    BY DEF QpsOK
  <1>2. /\ Places(l) \in Nat /\ Places(l) <= D /\ Places(m) \in Nat /\ Places(m) <= D
        /\ Drained(a) \in Nat /\ Drained(a) <= D /\ Drained(0) = 0
        /\ Drained(a + 1) = Drained(a) + MaxLimit /\ (a + 1 <= F => Drained(a + 1) <= D)
    BY <1>1, PlacesFacts
  <1> HIDE DEF F, D, D2
  <1>3. ASSUME NEW i, NEW a2, NEW i2, NEW x2, Ticked(a, a2, i, i2, x, x2, MaxLimit), m = 0, a < F
        PROVE  QpsOK(l, a2, x2, m)
    <2>1. a2 = a + 1 /\ x2 \in Nat /\ ((x2 = x - MaxLimit /\ x > MaxLimit) \/ x2 = 0)
      BY <1>0, <1>1, <1>3 DEF Ticked
    <2>2. x2 + Places(l) + Drained(a + 1) <= D2
      BY <1>0, <1>1, <1>2, <1>3, <2>1
    <2> QED
      BY <1>0, <1>1, <1>3, <2>1, <2>2 DEF QpsOK, F, D2
  <1>4. ASSUME l >= 1
        PROVE  QpsOK(l - 1, a, x + F, m)
    <2>1. l - 1 \in Nat /\ (l - 1) + 1 = l
      BY <1>1, <1>4
    <2>2. Places(l - 1) \in Nat /\ Places(l) = Places(l - 1) + F
      BY <2>1, PlacesFacts DEF F
    <2>3. /\ x + F \in Nat /\ l - 1 <= MaxLimit
          /\ m = 0 => (x + F) + Places(l - 1) + Drained(a) <= D2
          /\ m # 0 => (x + F) + Places(l - 1) <= D
      BY <1>0, <1>1, <1>2, <2>1, <2>2
    <2> QED
      BY <1>1, <2>1, <2>3 DEF QpsOK, F, D, D2
  <1>5. ASSUME NEW m2 \in 1..MaxLimit, m = 0, a >= F
        PROVE  QpsOK(l, 0, x, m2)
    <2>0. a = F
      BY <1>0, <1>1, <1>5
    <2>1. Drained(a) = D
      BY <2>0 DEF D, F
    <2>2. x + Places(l) <= D
      BY <1>0, <1>1, <1>2, <1>5, <2>1
    <2> QED
      BY <1>0, <1>1, <1>5, <2>2 DEF QpsOK, F, D
  <1>6. ASSUME m # 0
        PROVE  QpsOK(m, a, x, 0)
    <2>1. x + Places(m) + Drained(a) <= D2
      BY <1>0, <1>1, <1>2, <1>6
    <2> QED
      BY <1>0, <1>1, <1>6, <2>1 DEF QpsOK, F, D2
  <1> QED
    BY <1>3, <1>4, <1>5, <1>6 DEF F

-----------------------------------------------------------------------------
(* The actions.                                                            *)

LEMMA CallersStay ==
  ASSUME CallersInv, kind' = kind, UNCHANGED Rates!qpsVars
  PROVE  CallersInv'
  BY DEF CallersInv, Rates!qpsVars

LEMMA AllowNLimit ==
  ASSUME LimitInv, Rates!AllowN
  PROVE  /\ LimitInv'
         /\ idle >= Interval => idle' = 0
  <1> DEFINE F == Rates!Full
             fresh == ~present \/ (kind = "memoryBucket" /\ Rates!Swept) \/ Rates!Expired
             filled == IF fresh THEN F ELSE Rates!refill
  <1>0. F \in Nat /\ Interval \in Nat /\ 1 <= Interval /\ Interval <= F
    BY FullFacts
  <1>1. /\ kind \in Rates!Buckets /\ kind' = kind /\ phase' = phase /\ phase \in Nat
        /\ level \in Nat /\ age \in Nat /\ excess \in Nat /\ idle \in Nat
        /\ IF present THEN BucketOK(level, age, excess, idle) ELSE excess = 0
    BY DEF Rates!AllowN, LimitInv, Rates!Buckets
  <1>2. filled \in Nat /\ filled <= F /\ excess + filled <= F /\ (filled >= idle \/ filled >= Interval)
    <2>1. CASE fresh
      <3>1. ~present \/ age >= F
        BY <1>0, <1>1, <2>1, FullFacts DEF Rates!Swept, Rates!Expired
      <3>2. excess = 0
        <4>1. CASE ~present
          BY <1>1, <4>1
        <4>2. CASE present /\ age >= F
          <5>1. BucketOK(level, age, excess, idle)
            BY <1>1, <4>2
          <5> QED
            BY <1>0, <4>2, <5>1 DEF BucketOK
        <4> QED
          BY <3>1, <4>1, <4>2
      <3> QED
        BY <1>0, <2>1, <3>2
    <2>2. CASE ~fresh
      <3>1. filled = IF F < level + age THEN F ELSE level + age
        BY <2>2 DEF Rates!refill, Rates!Least
      <3>2. BucketOK(level, age, excess, idle)
        BY <1>1, <2>2
      <3>3. /\ level + age < F => excess + level + age <= F
            /\ level + age >= F => excess = 0
            /\ level + age >= idle \/ level + age >= Interval
        BY <3>2 DEF BucketOK
      <3> HIDE DEF filled
      <3> QED
        BY <1>0, <1>1, <3>1, <3>3
    <2> QED
      BY <2>1, <2>2
  <1>3. /\ level' = IF filled >= Interval THEN filled - Interval ELSE filled
        /\ excess' = IF filled >= Interval THEN excess + Interval ELSE excess
        /\ idle' = IF filled >= Interval THEN 0 ELSE idle
        /\ present' = TRUE /\ age' = 0
    BY <1>1 DEF Rates!AllowN, Rates!Decide, Rates!Cost, Rates!Buckets
  <1>4. CallersInv'
    BY <1>1, CallersStay DEF LimitInv, Rates!AllowN
  <1>5. /\ filled >= Interval => BucketOK(filled - Interval, 0, excess + Interval, 0)
        /\ filled < Interval => BucketOK(filled, 0, excess, idle)
        /\ idle >= Interval => filled >= Interval
    <2> HIDE DEF filled
    <2> QED
      BY <1>1, <1>2, BucketCall
  <1> HIDE DEF filled
  <1>6. BucketOK(level', age', excess', idle') /\ (idle >= Interval => idle' = 0)
    <2>1. CASE filled >= Interval
      <3>1. level' = filled - Interval /\ excess' = excess + Interval /\ idle' = 0 /\ age' = 0
        BY <1>3, <2>1
      <3> QED
        BY <1>5, <2>1, <3>1
    <2>2. CASE ~(filled >= Interval)
      <3>1. level' = filled /\ excess' = excess /\ idle' = idle /\ age' = 0
        BY <1>3, <2>2
      <3>2. filled < Interval
        BY <1>0, <1>2, <2>2
      <3> QED
        BY <1>5, <2>2, <3>1, <3>2
    <2> QED
      BY <2>1, <2>2
  <1>7. level' \in Nat /\ age' \in Nat /\ excess' \in Nat /\ idle' \in Nat
    BY <1>6 DEF BucketOK
  <1> QED
    BY <1>1, <1>3, <1>4, <1>6, <1>7 DEF LimitInv, Rates!Buckets, Rates!Windows

\* Whole intervals, by division.
LEMMA DivFacts ==
  ASSUME NEW a \in Nat
  PROVE  /\ a \div Interval \in Nat
         /\ Times(a \div Interval) <= a /\ a < Times(a \div Interval) + Interval
  <1>1. Interval \in Nat /\ 1 <= Interval
    BY FullFacts
  <1> QED
    BY <1>1 DEF Times

LEMMA LeakyLimit ==
  ASSUME LimitInv, Rates!LeakyAllow
  PROVE  /\ LimitInv'
         /\ idle >= Interval => idle' = 0
  <1> DEFINE k == age \div Interval
             w == IF level > k THEN level - k ELSE 0
             a2 == IF k > 0 THEN 0 ELSE age
  <1>1. /\ kind = "leaky" /\ kind' = kind /\ phase' = phase /\ phase \in Nat
        /\ level \in Nat /\ age \in Nat /\ excess \in Nat /\ idle \in Nat
        /\ LeakyOK(level, age, excess, idle) /\ Burst \in Nat /\ Interval \in Nat
    BY FullFacts DEF Rates!LeakyAllow, LimitInv
  <1>2. k \in Nat /\ Times(k) <= age /\ age < Times(k) + Interval
    BY <1>1, DivFacts
  <1>3. /\ level' = IF w < Burst THEN w + 1 ELSE w
        /\ age' = a2
        /\ excess' = IF w < Burst THEN excess + Interval ELSE excess
        /\ idle' = IF w < Burst THEN 0 ELSE idle
    BY <1>1 DEF Rates!LeakyAllow, Rates!Decide, Rates!Cost, Rates!LeakTime, Rates!Less
  <1> HIDE DEF k
  <1>4. w \in Nat
    BY <1>1, <1>2
  <1>5. /\ w < Burst => LeakyOK(w + 1, a2, excess + Interval, 0)
        /\ w >= Burst => LeakyOK(w, a2, excess, idle)
        /\ idle >= Interval => w < Burst
    BY <1>1, <1>2, <1>4, LeakyCall
  <1> HIDE DEF w, a2
  <1>6. LeakyOK(level', age', excess', idle') /\ (idle >= Interval => idle' = 0)
    <2>1. CASE w < Burst
      <3>1. level' = w + 1 /\ excess' = excess + Interval /\ idle' = 0 /\ age' = a2
        BY <1>3, <2>1
      <3> QED
        BY <1>5, <2>1, <3>1
    <2>2. CASE ~(w < Burst)
      <3>1. level' = w /\ excess' = excess /\ idle' = idle /\ age' = a2
        BY <1>3, <2>2
      <3>2. w >= Burst
        BY <1>1, <1>4, <2>2
      <3> QED
        BY <1>5, <2>2, <3>1, <3>2
    <2> QED
      BY <2>1, <2>2
  <1>7. level' \in Nat /\ age' \in Nat /\ excess' \in Nat /\ idle' \in Nat
    BY <1>6 DEF LeakyOK
  <1>8. CallersInv'
    BY <1>1, CallersStay DEF LimitInv, Rates!LeakyAllow
  <1> QED
    BY <1>1, <1>6, <1>7, <1>8 DEF LimitInv, Rates!Buckets, Rates!Windows

LEMMA WindowLimit ==
  ASSUME LimitInv, Rates!TakeWindow
  PROVE  /\ LimitInv'
         /\ idle >= Rates!Window => idle' = 0
  <1> DEFINE F == Rates!Full
             fresh == ~present \/ age >= Rates!Window
             count2 == IF fresh THEN 1 ELSE Rates!Least(level + 1, Burst + 1)
  <1>0. F \in Nat /\ Burst \in Nat /\ 1 <= Burst /\ Rates!Window = F
    BY FullFacts
  <1>1. /\ kind \in Rates!Windows /\ kind' = kind /\ phase' = phase /\ phase \in Nat
        /\ level \in Nat /\ age \in Nat /\ excess \in Nat /\ idle \in Nat
        /\ IF present THEN WindowOK(level, age, excess, idle) ELSE excess = 0
    BY DEF Rates!TakeWindow, LimitInv, Rates!Windows
  <1>2. /\ level' = count2
        /\ excess' = IF count2 <= Burst THEN excess + Interval ELSE excess
        /\ idle' = IF count2 <= Burst THEN 0 ELSE idle
        /\ age' = (IF fresh THEN 0 ELSE age) /\ present' = TRUE
    BY <1>1 DEF Rates!TakeWindow, Rates!Decide, Rates!Cost, Rates!Windows
  <1>3. CallersInv'
    BY <1>1, CallersStay DEF LimitInv, Rates!TakeWindow
  <1>4. WindowOK(level', age', excess', idle') /\ (idle >= F => idle' = 0)
    <2>1. CASE fresh
      <3>1. level' = 1 /\ excess' = excess + Interval /\ idle' = 0 /\ age' = 0
        BY <1>0, <1>2, <2>1
      <3>2. excess <= F
        <4>1. CASE ~present
          BY <1>0, <1>1, <4>1
        <4>2. CASE present
          <5>1. WindowOK(level, age, excess, idle) /\ age >= F
            BY <1>0, <1>1, <2>1, <4>2
          <5> QED
            BY <5>1 DEF WindowOK
        <4> QED
          BY <4>1, <4>2
      <3> QED
        BY <1>1, <3>1, <3>2, WindowCall
    <2>2. CASE ~fresh /\ level < Burst
      <3>1. Rates!Least(level + 1, Burst + 1) = level + 1 /\ level + 1 <= Burst
        BY <1>0, <1>1, <2>2 DEF Rates!Least
      <3>2. level' = level + 1 /\ excess' = excess + Interval /\ idle' = 0 /\ age' = age
        BY <1>2, <2>2, <3>1
      <3>3. WindowOK(level, age, excess, idle) /\ age < F
        BY <1>0, <1>1, <2>2
      <3> QED
        BY <2>2, <3>2, <3>3, WindowCall
    <2>3. CASE ~fresh /\ ~(level < Burst)
      <3>1. Rates!Least(level + 1, Burst + 1) = Burst + 1 /\ ~(Burst + 1 <= Burst)
        BY <1>0, <1>1, <2>3 DEF Rates!Least
      <3>2. level' = Burst + 1 /\ excess' = excess /\ idle' = idle /\ age' = age
        BY <1>2, <2>3, <3>1
      <3>3. WindowOK(level, age, excess, idle) /\ age < F /\ level >= Burst
        BY <1>0, <1>1, <2>3
      <3> QED
        BY <2>3, <3>2, <3>3, WindowCall
    <2> QED
      BY <2>1, <2>2, <2>3
  <1>5. level' \in Nat /\ age' \in Nat /\ excess' \in Nat /\ idle' \in Nat
    BY <1>4 DEF WindowOK
  <1> QED
    BY <1>0, <1>1, <1>2, <1>3, <1>4, <1>5 DEF LimitInv, Rates!Buckets, Rates!Windows

LEMMA AlignedLimit ==
  ASSUME LimitInv, Rates!TakeAligned
  PROVE  /\ LimitInv'
         /\ idle >= Rates!Window => idle' = 0
  <1> DEFINE F == Rates!Full
             count2 == IF present THEN Rates!Least(level + 1, Burst + 1) ELSE 1
  <1>0. F \in Nat /\ Burst \in Nat /\ 1 <= Burst /\ Rates!Window = F
    BY FullFacts
  <1>1. /\ kind = "aligned" /\ kind' = kind /\ phase' = phase /\ phase \in Nat /\ phase < F
        /\ level \in Nat /\ age \in Nat /\ excess \in Nat /\ idle \in Nat /\ age' = age
        /\ IF present THEN AlignedOK(level, phase, excess, idle) ELSE excess + phase <= F
    BY DEF Rates!TakeAligned, LimitInv
  <1>2. /\ level' = count2 /\ present' = TRUE
        /\ excess' = IF count2 <= Burst THEN excess + Interval ELSE excess
        /\ idle' = IF count2 <= Burst THEN 0 ELSE idle
    BY <1>1 DEF Rates!TakeAligned, Rates!Decide, Rates!Cost
  <1>3. CallersInv'
    BY <1>1, CallersStay DEF LimitInv, Rates!TakeAligned
  <1>4. AlignedOK(level', phase, excess', idle') /\ (idle >= F => idle' = 0)
    <2>1. CASE ~present
      <3>1. level' = 1 /\ excess' = excess + Interval /\ idle' = 0
        BY <1>0, <1>2, <2>1
      <3> QED
        BY <1>1, <2>1, <3>1, AlignedCall
    <2>2. CASE present /\ level < Burst
      <3>1. Rates!Least(level + 1, Burst + 1) = level + 1 /\ level + 1 <= Burst
        BY <1>0, <1>1, <2>2 DEF Rates!Least
      <3>2. level' = level + 1 /\ excess' = excess + Interval /\ idle' = 0
        BY <1>2, <2>2, <3>1
      <3> QED
        BY <1>1, <2>2, <3>2, AlignedCall
    <2>3. CASE present /\ ~(level < Burst)
      <3>1. Rates!Least(level + 1, Burst + 1) = Burst + 1 /\ ~(Burst + 1 <= Burst) /\ level >= Burst
        BY <1>0, <1>1, <2>3 DEF Rates!Least
      <3>2. level' = Burst + 1 /\ excess' = excess /\ idle' = idle
        BY <1>2, <2>3, <3>1
      <3> QED
        BY <1>1, <2>3, <3>1, <3>2, AlignedCall
    <2> QED
      BY <2>1, <2>2, <2>3
  <1>5. level' \in Nat /\ excess' \in Nat /\ idle' \in Nat
    BY <1>4 DEF AlignedOK
  <1> QED
    BY <1>0, <1>1, <1>2, <1>3, <1>4, <1>5 DEF LimitInv, Rates!Buckets, Rates!Windows

LEMMA TickFacts ==
  ASSUME Rates!Tick, age \in Nat, excess \in Nat, idle \in Nat
  PROVE  Ticked(age, age', idle, idle', excess, excess', Rates!Drain)
  <1>1. ASSUME NEW a \in Nat, NEW i \in Nat, NEW x \in Nat, NEW d \in Nat
        PROVE  Ticked(a, Rates!Least(a + 1, Rates!Cap), i, Rates!Least(i + 1, Rates!Cap),
                      x, Rates!Less(x, d), d)
    BY FullFacts DEF Ticked, Rates!Least, Rates!Less
  <1>2. Rates!Drain \in Nat
    BY LimitersConstants DEF Rates!Drain
  <1> QED
    BY <1>1, <1>2 DEF Rates!Tick

LEMMA PhaseFacts ==
  ASSUME NEW p \in Nat, p < Rates!Full
  PROVE  (p + 1) % Rates!Window = IF p + 1 = Rates!Full THEN 0 ELSE p + 1
  <1> DEFINE F == Rates!Full
  <1>0. F \in Nat /\ 1 <= F /\ Rates!Window = F
    BY FullFacts
  <1> HIDE DEF F
  <1>1. \A q \in Nat : q < F => q % F = q
    BY <1>0
  <1>2. F % F = 0
    BY <1>0
  <1> QED
    BY <1>0, <1>1, <1>2 DEF F

LEMMA TickLimit ==
  ASSUME LimitInv, Rates!Tick
  PROVE  LimitInv'
  <1> DEFINE F == Rates!Full
  <1>1. /\ level \in Nat /\ age \in Nat /\ excess \in Nat /\ idle \in Nat /\ phase \in Nat
        /\ kind' = kind /\ level' = level /\ maxLoaded' = maxLoaded
        /\ kind \in Rates!Buckets \cup Rates!Windows \cup {"leaky", "aligned", "qps"}
    BY DEF Rates!Tick, LimitInv, Rates!qpsVars
  <1>2. CallersInv'
    BY CallersStay DEF LimitInv, Rates!Tick
  <1>3. Ticked(age, age', idle, idle', excess, excess', Rates!Drain)
    BY <1>1, TickFacts
  <1>4. age' \in Nat /\ idle' \in Nat /\ excess' \in Nat
    BY <1>3 DEF Ticked
  <1>5. kind # "qps" => Ticked(age, age', idle, idle', excess, excess', 1)
    BY <1>3 DEF Rates!Drain
  <1>6. kind # "aligned" => phase' = phase /\ (present' <=> present)
    BY DEF Rates!Tick
  <1>7. CASE kind \in Rates!Buckets
    <2>1. IF present THEN BucketOK(level, age, excess, idle) ELSE excess = 0
      BY <1>7 DEF LimitInv
    <2>2. present => BucketOK(level', age', excess', idle')
      BY <1>1, <1>5, <1>7, <2>1, BucketTicks DEF Rates!Buckets
    <2>3. ~present => excess' = 0
      BY <1>5, <1>7, <2>1 DEF Ticked, Rates!Buckets
    <2> QED
      BY <1>1, <1>2, <1>4, <1>6, <1>7, <2>2, <2>3 DEF LimitInv, Rates!Buckets, Rates!Windows
  <1>8. CASE kind \in Rates!Windows
    <2>1. IF present THEN WindowOK(level, age, excess, idle) ELSE excess = 0
      BY <1>8 DEF LimitInv
    <2>2. present => WindowOK(level', age', excess', idle')
      BY <1>1, <1>5, <1>8, <2>1, WindowTicks DEF Rates!Windows
    <2>3. ~present => excess' = 0
      BY <1>5, <1>8, <2>1 DEF Ticked, Rates!Windows
    <2> QED
      BY <1>1, <1>2, <1>4, <1>6, <1>8, <2>2, <2>3 DEF LimitInv, Rates!Buckets, Rates!Windows
  <1>9. CASE kind = "leaky"
    <2>1. LeakyOK(level', age', excess', idle')
      BY <1>1, <1>5, <1>9, LeakyTicks DEF LimitInv
    <2> QED
      BY <1>1, <1>2, <1>4, <1>6, <1>9, <2>1 DEF LimitInv, Rates!Buckets, Rates!Windows
  <1>10. CASE kind = "qps"
    <2>1. QpsOK(level, age, excess, maxLoaded) /\ maxLoaded = 0 /\ age < F
      BY <1>10, FullFacts DEF LimitInv, Rates!Tick
    <2>2. Ticked(age, age', idle, idle', excess, excess', MaxLimit)
      BY <1>3, <1>10 DEF Rates!Drain
    <2>3. QpsOK(level', age', excess', maxLoaded')
      BY <1>1, <2>1, <2>2, QpsSteps
    <2> QED
      BY <1>1, <1>2, <1>4, <1>6, <1>10, <2>3 DEF LimitInv, Rates!Buckets, Rates!Windows
  <1>11. CASE kind = "aligned"
    <2>1. /\ phase < F /\ Ticked(age, age', idle, idle', excess, excess', 1)
          /\ IF present THEN AlignedOK(level, phase, excess, idle) ELSE excess + phase <= F
      BY <1>5, <1>11 DEF LimitInv
    <2>2. /\ phase' = IF phase + 1 = F THEN 0 ELSE phase + 1
          /\ present' <=> present /\ phase' # 0
      BY <1>1, <1>11, <2>1, PhaseFacts DEF Rates!Tick
    <2>3. F \in Nat /\ 1 <= F
      BY FullFacts
    <2>4. CASE phase + 1 = F
      <3>1. phase' = 0 /\ ~present'
        BY <2>2, <2>4
      <3>2. excess' <= F
        <4>1. CASE present
          BY <2>1, <2>4, <4>1, AlignedTicks
        <4>2. CASE ~present
          BY <1>1, <2>1, <2>4, <4>2, AlignedTicks
        <4> QED
          BY <4>1, <4>2
      <3>3. phase' \in Nat /\ phase' < F /\ excess' + phase' <= F
        <4>1. 0 < F /\ \A x \in Nat : x <= F => x + 0 <= F
          BY <2>3
        <4> QED
          BY <1>4, <3>1, <3>2, <4>1
      <3> QED
        BY <1>1, <1>2, <1>4, <1>11, <3>1, <3>3 DEF LimitInv, Rates!Buckets, Rates!Windows
    <2>5. CASE phase + 1 # F
      <3>1. phase + 1 < F /\ phase + 1 \in Nat /\ phase + 1 # 0
        BY <1>1, <2>1, <2>3, <2>5
      <3>2. phase' = phase + 1 /\ (present' <=> present)
        BY <2>2, <2>5, <3>1
      <3>3. CASE present
        <4>1. AlignedOK(level, phase + 1, excess', idle')
          BY <2>1, <3>1, <3>3, AlignedTicks
        <4>2. AlignedOK(level', phase', excess', idle') /\ phase' \in Nat /\ phase' < F
          BY <1>1, <3>1, <3>2, <4>1
        <4> QED
          BY <1>1, <1>2, <1>4, <1>11, <3>2, <3>3, <4>2 DEF LimitInv, Rates!Buckets, Rates!Windows
      <3>4. CASE ~present
        <4>1. excess' + (phase + 1) <= F
          BY <1>1, <2>1, <3>1, <3>4, AlignedTicks
        <4>2. excess' + phase' <= F /\ phase' \in Nat /\ phase' < F
          BY <3>1, <3>2, <4>1
        <4> QED
          BY <1>1, <1>2, <1>4, <1>11, <3>2, <3>4, <4>2 DEF LimitInv, Rates!Buckets, Rates!Windows
      <3> QED
        BY <3>3, <3>4
    <2> QED
      BY <2>4, <2>5
  <1> QED
    BY <1>1, <1>7, <1>8, <1>9, <1>10, <1>11

\* The steps of the QPS limiter's callers.
LEMMA CallerLimit ==
  ASSUME LimitInv, NEW c \in Pair, Rates!Acquire(c) \/ Rates!LoadCur(c) \/ Rates!SwapCur(c)
  PROVE  LimitInv'
  <1>1. /\ kind = "qps" /\ kind' = kind /\ phase' = phase /\ age' = age /\ maxLoaded' = maxLoaded
        /\ max' = max
    BY DEF Rates!Acquire, Rates!LoadCur, Rates!SwapCur, Rates!ruleVars, LimitInv, CallersInv
  <1>2. /\ level \in Nat /\ age \in Nat /\ excess \in Nat /\ idle \in Nat /\ phase \in Nat
        /\ QpsOK(level, age, excess, maxLoaded)
        /\ seen \in [Pair -> Nat] /\ at \in [Pair -> {"idle", "load", "swap"}]
        /\ \A d \in Pair : at[d] = "swap" => seen[d] >= 1
    BY <1>1 DEF LimitInv, CallersInv
  <1>3. /\ level' \in Nat /\ excess' \in Nat /\ idle' \in Nat
        /\ QpsOK(level', age', excess', maxLoaded')
    <2>1. CASE UNCHANGED <<level, excess, idle>>
      BY <1>1, <1>2, <2>1
    <2>2. CASE Rates!SwapCur(c) /\ level = seen[c]
      <3>1. level >= 1 /\ level \in Nat
        BY <1>2, <2>2 DEF Rates!SwapCur
      <3>2. level' = level - 1 /\ excess' = excess + Rates!Full /\ idle' = 0
        BY <1>1, <2>2, FullFacts DEF Rates!SwapCur, Rates!Decide, Rates!Cost
      <3>3. QpsOK(level - 1, age, excess + Rates!Full, maxLoaded)
        BY <1>2, <3>1, QpsSteps
      <3>4. QpsOK(level', age', excess', maxLoaded')
        BY <1>1, <3>2, <3>3
      <3> QED
        BY <3>2, <3>4 DEF QpsOK
    <2> QED
      BY <2>1, <2>2 DEF Rates!Acquire, Rates!LoadCur, Rates!SwapCur, Rates!ruleVars
  <1>4. /\ seen' \in [Pair -> Nat] /\ at' \in [Pair -> {"idle", "load", "swap"}]
        /\ \A d \in Pair : at'[d] = "swap" => seen'[d] >= 1
    <2>1. CASE Rates!Acquire(c)
      BY <1>2, <2>1 DEF Rates!Acquire
    <2>2. CASE Rates!LoadCur(c) /\ level = 0
      BY <1>2, <2>2 DEF Rates!LoadCur
    <2>3. CASE Rates!LoadCur(c) /\ level # 0
      <3>1. /\ at' = [at EXCEPT ![c] = "swap"] /\ seen' = [seen EXCEPT ![c] = level]
            /\ level >= 1
        BY <1>2, <2>3 DEF Rates!LoadCur
      <3> QED
        BY <1>2, <3>1
    <2>4. CASE Rates!SwapCur(c)
      <3>1. /\ at' = [at EXCEPT ![c] = "idle"] \/ at' = [at EXCEPT ![c] = "load"]
            /\ seen' = [seen EXCEPT ![c] = 0]
        BY <2>4 DEF Rates!SwapCur
      <3> QED
        BY <1>2, <3>1
    <2> QED
      BY <2>1, <2>2, <2>3, <2>4
  <1> QED
    BY <1>1, <1>2, <1>3, <1>4 DEF LimitInv, CallersInv, Rates!Buckets, Rates!Windows

\* The steps of the QPS limiter's run, and UpdateLimit.
LEMMA RefillLimit ==
  ASSUME LimitInv, Rates!LoadMax \/ Rates!StoreCur \/ Rates!UpdateLimit
  PROVE  LimitInv'
  <1>1. /\ kind = "qps" /\ kind' = kind /\ phase' = phase /\ excess' = excess /\ idle' = idle
        /\ seen' = seen /\ at' = at
    BY DEF Rates!LoadMax, Rates!StoreCur, Rates!UpdateLimit, Rates!ruleVars, LimitInv, CallersInv
  <1>2. /\ level \in Nat /\ age \in Nat /\ excess \in Nat /\ idle \in Nat /\ phase \in Nat
        /\ QpsOK(level, age, excess, maxLoaded) /\ max \in 1..MaxLimit /\ MaxLimit \in Nat
    BY <1>1, LimitersConstants DEF LimitInv, CallersInv
  <1>3. /\ level' \in Nat /\ age' \in Nat /\ maxLoaded' \in Nat /\ max' \in 1..MaxLimit
        /\ QpsOK(level', age', excess', maxLoaded')
    <2>1. CASE Rates!LoadMax
      <3>1. maxLoaded' = max /\ age' = 0 /\ level' = level /\ max' = max
        BY <2>1 DEF Rates!LoadMax
      <3>2. QpsOK(level, 0, excess, max)
        BY <1>2, <2>1, QpsSteps, FullFacts DEF Rates!LoadMax
      <3> QED
        BY <1>1, <1>2, <3>1, <3>2
    <2>2. CASE Rates!StoreCur
      <3>1. level' = maxLoaded /\ maxLoaded' = 0 /\ age' = age /\ max' = max /\ maxLoaded # 0
        BY <2>2 DEF Rates!StoreCur
      <3>2. QpsOK(maxLoaded, age, excess, 0) /\ maxLoaded \in Nat
        <4>1. maxLoaded \in Nat
          BY <1>2 DEF QpsOK
        <4> QED
          BY <1>2, <3>1, <4>1, QpsSteps
      <3> QED
        BY <1>1, <1>2, <3>1, <3>2
    <2>3. CASE Rates!UpdateLimit
      BY <1>1, <1>2, <2>3 DEF Rates!UpdateLimit, Rates!ruleVars, LimitInv, CallersInv
    <2> QED
      BY <2>1, <2>2, <2>3
  <1> QED
    BY <1>1, <1>2, <1>3 DEF LimitInv, CallersInv, Rates!Buckets, Rates!Windows

LEMMA LimitInit == Rates!Init => LimitInv
  <1> SUFFICES ASSUME Rates!Init PROVE LimitInv
    OBVIOUS
  <1> DEFINE F == Rates!Full
  <1>0. /\ F \in Nat /\ Interval \in Nat /\ 1 <= Interval /\ Interval <= F /\ Burst \in Nat /\ 1 <= Burst
        /\ MaxLimit \in Nat /\ Burst <= MaxLimit /\ Rates!Cap \in Nat /\ Times(0) = 0
    BY FullFacts, LimitersConstants, TimesFacts
  <1>1. /\ kind \in Rates!Buckets \cup Rates!Windows \cup {"leaky", "aligned", "qps"}
        /\ present <=> kind \in {"token", "leaky", "qps"}
        /\ level = IF kind = "token" THEN F ELSE IF kind = "qps" THEN Burst ELSE 0
        /\ age = 0 /\ phase = 0 /\ excess = 0 /\ idle = Rates!Cap /\ maxLoaded = 0 /\ max = Burst
    BY DEF Rates!Init
  <1>2. CallersInv
    BY <1>0, <1>1 DEF Rates!Init, CallersInv
  <1>3. level \in Nat /\ age \in Nat /\ excess \in Nat /\ idle \in Nat /\ phase \in Nat
    BY <1>0, <1>1
  <1> HIDE DEF F
  <1>4. kind = "token" => BucketOK(level, age, excess, idle)
    BY <1>0, <1>1 DEF BucketOK, F
  <1>5. kind = "leaky" => LeakyOK(level, age, excess, idle)
    BY <1>0, <1>1 DEF LeakyOK
  <1>6. kind = "qps" => QpsOK(level, age, excess, maxLoaded)
    <2>1. Places(Burst) \in Nat /\ Places(Burst) <= Drained(F) /\ Drained(0) = 0
          /\ Drained(2 * F) = Drained(F) + Drained(F) /\ Drained(F) \in Nat
      BY <1>0, PlacesFacts DEF F
    <2>2. 0 + Places(Burst) + Drained(0) <= Drained(2 * F)
      BY <2>1
    <2> QED
      BY <1>0, <1>1, <2>2 DEF QpsOK, F
  <1>7. kind = "aligned" => phase < F /\ excess + phase <= F
    BY <1>0, <1>1
  <1> QED
    BY <1>1, <1>2, <1>3, <1>4, <1>5, <1>6, <1>7 DEF LimitInv, F, Rates!Buckets, Rates!Windows

LEMMA LimitStep == LimitInv /\ [Rates!Next]_limitVars => LimitInv'
  <1> SUFFICES ASSUME LimitInv, [Rates!Next]_limitVars PROVE LimitInv'
    OBVIOUS
  <1>1. CASE UNCHANGED limitVars
    BY <1>1 DEF limitVars, LimitInv, CallersInv
  <1>2. CASE Rates!Next
    BY <1>2, AllowNLimit, LeakyLimit, WindowLimit, AlignedLimit, TickLimit, CallerLimit, RefillLimit
       DEF Rates!Next
  <1> QED
    BY <1>1, <1>2

LEMMA LimitAlways == AllSpec => []LimitInv
  <1>1. AllInit => LimitInv
    BY LimitInit DEF AllInit
  <1>2. LimitInv /\ [AllNext]_allVars => LimitInv'
    BY PartsMove, LimitStep
  <1> QED
    BY <1>1, <1>2, SafetyOfAll, PTL

\* Whatever the burst, the rate and the interleaving of calls, ticks, refills
\* and new limits, no limiter of pkg/ratelimit lets in more than it promises.
THEOREM RateAlwaysHeld == AllSpec => []RateHeld
  <1>1. LimitInv => RateHeld
    <2> SUFFICES ASSUME LimitInv PROVE Rates!RateHeld
      BY DEF RateHeld
    <2>0. /\ excess \in Nat /\ phase \in Nat
          /\ kind \in Rates!Buckets \cup Rates!Windows \cup {"leaky", "aligned", "qps"}
      BY DEF LimitInv
    <2>1. CASE kind \in Rates!Buckets
      <3>1. excess <= Rates!Full
        BY <2>1, FullFacts DEF LimitInv, BucketOK
      <3> QED
        BY <2>1, <3>1 DEF Rates!RateHeld, Rates!Buckets
    <2>2. CASE kind = "leaky"
      <3>1. /\ level \in Nat /\ level <= Burst /\ age \in Nat
            /\ excess = 0 \/ excess + age < Times(level) + Interval
        BY <2>2 DEF LimitInv, LeakyOK
      <3>2. Times(level) \in Nat /\ Times(level) <= Rates!Full
        BY <3>1, FullFacts, TimesFacts
      <3>3. excess <= Rates!Full + Interval - 1
        BY <2>0, <3>1, <3>2, FullFacts
      <3> QED
        BY <2>2, <3>3 DEF Rates!RateHeld, Rates!Buckets
    <2>3. CASE kind \in Rates!Windows
      <3>1. excess <= 2 * Rates!Full
        BY <2>3, FullFacts, CountedFacts DEF LimitInv, WindowOK
      <3> QED
        BY <2>3, <3>1 DEF Rates!RateHeld, Rates!Buckets, Rates!Windows
    <2>4. CASE kind = "aligned"
      <3>1. excess <= 2 * Rates!Full
        BY <2>4, FullFacts, CountedFacts DEF LimitInv, AlignedOK
      <3> QED
        BY <2>4, <3>1 DEF Rates!RateHeld, Rates!Buckets
    <2>5. CASE kind = "qps"
      <3>1. excess <= 2 * MaxLimit * Rates!Window
        <4>1. QpsOK(level, age, excess, maxLoaded)
          BY <2>5 DEF LimitInv
        <4>2. Places(level) \in Nat /\ Drained(age) \in Nat
          BY <4>1, PlacesFacts DEF QpsOK
        <4>3. /\ Drained(Rates!Full) \in Nat
              /\ Drained(2 * Rates!Full) = Drained(Rates!Full) + Drained(Rates!Full)
              /\ 2 * MaxLimit * Rates!Window = Drained(2 * Rates!Full)
          BY PlacesFacts
        <4>4. excess <= Drained(2 * Rates!Full)
          BY <2>0, <4>1, <4>2, <4>3 DEF QpsOK
        <4> QED
          BY <4>3, <4>4
      <3> QED
        BY <2>5, <3>1 DEF Rates!RateHeld, Rates!Buckets
    <2> QED
      BY <2>0, <2>1, <2>2, <2>3, <2>4, <2>5
  <1> QED
    BY <1>1, LimitAlways, PTL

\* A request that comes after one token's time (one window) without a grant is
\* let in: a refused request never costs the caller the time it has waited.
THEOREM WaitingAlwaysPays == AllSpec => WaitingPays
  <1>1. LimitInv =>
          [/\ Rates!AllowN \/ Rates!LeakyAllow \/ Rates!TakeWindow \/ Rates!TakeAligned
           /\ idle >= (IF kind \in Rates!Buckets \cup {"leaky"} THEN Interval ELSE Rates!Window)
           => idle' = 0]_(Rates!vars)
    <2>1. ASSUME LimitInv, Rates!AllowN, idle >= (IF kind \in Rates!Buckets \cup {"leaky"} THEN Interval ELSE Rates!Window)
          PROVE  idle' = 0
      BY <2>1, AllowNLimit DEF Rates!AllowN
    <2>2. ASSUME LimitInv, Rates!LeakyAllow, idle >= (IF kind \in Rates!Buckets \cup {"leaky"} THEN Interval ELSE Rates!Window)
          PROVE  idle' = 0
      BY <2>2, LeakyLimit DEF Rates!LeakyAllow
    <2>3. ASSUME LimitInv, Rates!TakeWindow, idle >= (IF kind \in Rates!Buckets \cup {"leaky"} THEN Interval ELSE Rates!Window)
          PROVE  idle' = 0
      BY <2>3, WindowLimit DEF Rates!TakeWindow, Rates!Buckets, Rates!Windows
    <2>4. ASSUME LimitInv, Rates!TakeAligned, idle >= (IF kind \in Rates!Buckets \cup {"leaky"} THEN Interval ELSE Rates!Window)
          PROVE  idle' = 0
      BY <2>4, AlignedLimit DEF Rates!TakeAligned, Rates!Buckets
    <2> QED
      BY <2>1, <2>2, <2>3, <2>4
  <1> QED
    BY <1>1, LimitAlways, PTL DEF WaitingPays, Rates!WaitingPays

-----------------------------------------------------------------------------
(* RedisBroker: what a group hands out.                                     *)

\* What a consumer was given lies behind its group's cursor, so that nobody of
\* the group is given it again; a message leaves the pending ones only when
\* its handler has settled it.
RedisInv ==
    /\ stream \in Nat
    /\ cursor \in [Redis!Groups -> Int]
    /\ unacked \in [Redis!Groups -> SUBSET Int] /\ settled \in [Redis!Groups -> SUBSET Int]
    /\ given \in [Subscribers -> SUBSET Int] /\ msg \in [Subscribers -> Int]
    /\ DOMAIN consumer = Subscribers
    /\ \A s \in Subscribers :
         /\ \A m \in given[s] : m <= cursor[Redis!group(s)]
         /\ given[s] \subseteq unacked[Redis!group(s)] \cup settled[Redis!group(s)]
         /\ consumer[s] = "ack" => msg[s] \in settled[Redis!group(s)]
    /\ \A s, t \in Subscribers :
         s # t /\ Redis!group(s) = Redis!group(t) => given[s] \cap given[t] = {}

LEMMA RedisInit == Redis!Init => RedisInv
  <1> SUFFICES ASSUME Redis!Init PROVE RedisInv
    OBVIOUS
  <1>1. \A s \in Subscribers : Redis!group(s) \in Redis!Groups
    BY DEF Redis!Groups
  <1> QED
    BY <1>1 DEF Redis!Init, RedisInv, Redis!None

LEMMA RedisStep == RedisInv /\ [Redis!Next]_redisVars => RedisInv'
  <1> SUFFICES ASSUME RedisInv, [Redis!Next]_redisVars PROVE RedisInv'
    OBVIOUS
  <1>0. \A s \in Subscribers : Redis!group(s) \in Redis!Groups
    BY DEF Redis!Groups
  <1>1. CASE UNCHANGED redisVars
    BY <1>1 DEF redisVars, RedisInv
  <1>2. CASE Redis!Publish
    BY <1>2 DEF Redis!Publish, RedisInv
  <1>3. ASSUME NEW s \in Subscribers, Redis!Subscribe(s)
        PROVE  RedisInv'
    BY <1>0, <1>3 DEF Redis!Subscribe, RedisInv, Redis!None
  <1>4. ASSUME NEW s \in Subscribers, Redis!Unsubscribe(s) \/ Redis!LoopTop(s) \/ Redis!ReadFails(s)
        PROVE  RedisInv'
    BY <1>4 DEF Redis!Unsubscribe, Redis!LoopTop, Redis!ReadFails, RedisInv
  <1>5. ASSUME NEW s \in Subscribers, NEW lost2 \in BOOLEAN, Redis!XReadGroup(s, lost2)
        PROVE  RedisInv'
    <2> DEFINE g == Redis!group(s)
               id == cursor[g] + 1
    <2>1. /\ g \in Redis!Groups /\ id \in Int /\ cursor[g] \in Int
          /\ cursor' = [cursor EXCEPT ![g] = id]
          /\ unacked' = [unacked EXCEPT ![g] = @ \cup {id}]
          /\ settled' = settled /\ stream' = stream
      BY <1>0, <1>5 DEF Redis!XReadGroup, RedisInv
    <2>2. /\ consumer' = [consumer EXCEPT ![s] = IF lost2 THEN "loop" ELSE "handler"]
          /\ msg' = [msg EXCEPT ![s] = IF lost2 THEN @ ELSE id]
          /\ given' = [given EXCEPT ![s] = IF lost2 THEN @ ELSE @ \cup {id}]
      BY <1>5 DEF Redis!XReadGroup
    <2>3. /\ cursor' \in [Redis!Groups -> Int] /\ unacked' \in [Redis!Groups -> SUBSET Int]
          /\ given' \in [Subscribers -> SUBSET Int] /\ msg' \in [Subscribers -> Int]
          /\ DOMAIN consumer' = Subscribers
      BY <2>1, <2>2 DEF RedisInv
    <2>4. \A h \in Redis!Groups : /\ cursor[h] <= cursor'[h] /\ unacked[h] \subseteq unacked'[h]
                                  /\ h = g => cursor'[h] = id /\ id \in unacked'[h] /\ cursor[h] < id
      BY <2>1 DEF RedisInv
    <2>5. \A t \in Subscribers : given'[t] = given[t] \/ (t = s /\ given'[t] = given[t] \cup {id})
      BY <2>2 DEF RedisInv
    <2>6. ASSUME NEW t \in Subscribers
          PROVE  /\ \A m \in given'[t] : m <= cursor'[Redis!group(t)]
                 /\ given'[t] \subseteq unacked'[Redis!group(t)] \cup settled'[Redis!group(t)]
                 /\ consumer'[t] = "ack" => msg'[t] \in settled'[Redis!group(t)]
      <3>1. /\ Redis!group(t) \in Redis!Groups
            /\ \A m \in given[t] : m <= cursor[Redis!group(t)] /\ m \in Int
            /\ cursor[Redis!group(t)] \in Int /\ cursor'[Redis!group(t)] \in Int
            /\ given[t] \subseteq unacked[Redis!group(t)] \cup settled[Redis!group(t)]
        BY <1>0, <2>3 DEF RedisInv
      <3>2. \A m \in given'[t] : m <= cursor'[Redis!group(t)]
        BY <2>1, <2>4, <2>5, <3>1
      <3>3. given'[t] \subseteq unacked'[Redis!group(t)] \cup settled'[Redis!group(t)]
        BY <2>1, <2>4, <2>5, <3>1
      <3>4. consumer'[t] = "ack" => msg'[t] \in settled'[Redis!group(t)]
        BY <2>1, <2>2 DEF RedisInv
      <3> QED
        BY <3>2, <3>3, <3>4
    <2>7. ASSUME NEW t \in Subscribers, NEW u \in Subscribers, t # u, Redis!group(t) = Redis!group(u)
          PROVE  given'[t] \cap given'[u] = {}
      <3>1. given[t] \cap given[u] = {}
        BY <2>7 DEF RedisInv
      <3>2. Redis!group(t) = g => id \notin given[t] /\ id \notin given[u]
        <4>1. ~(id <= cursor[g])
          BY <2>1
        <4> HIDE DEF id, g
        <4> QED
          BY <2>7, <4>1 DEF RedisInv
      <3> QED
        BY <2>5, <2>7, <3>1, <3>2
    <2> QED
      BY <2>1, <2>3, <2>6, <2>7 DEF RedisInv
  <1>6. ASSUME NEW s \in Subscribers, NEW ok \in BOOLEAN, Redis!Handler(s, ok)
        PROVE  RedisInv'
    <2> DEFINE g == Redis!group(s)
    <2>1. /\ consumer' = [consumer EXCEPT ![s] = IF ok THEN "ack" ELSE "loop"]
          /\ settled' = [settled EXCEPT ![g] = IF ok THEN @ \cup {msg[s]} ELSE @]
          /\ UNCHANGED <<stream, cursor, unacked, msg, given>>
      BY <1>6 DEF Redis!Handler
    <2>2. /\ g \in Redis!Groups /\ settled' \in [Redis!Groups -> SUBSET Int] /\ DOMAIN consumer' = Subscribers
          /\ \A h \in Redis!Groups : settled[h] \subseteq settled'[h]
      BY <1>0, <2>1 DEF RedisInv
    <2>3. \A t \in Subscribers : consumer'[t] = "ack" => msg'[t] \in settled'[Redis!group(t)]
      <3>1. CASE ok
        BY <1>0, <2>1, <2>2, <3>1 DEF RedisInv
      <3>2. CASE ~ok
        BY <1>0, <2>1, <2>2, <3>2 DEF RedisInv
      <3> QED
        BY <3>1, <3>2
    <2>4. \A t \in Subscribers : given'[t] \subseteq unacked'[Redis!group(t)] \cup settled'[Redis!group(t)]
      BY <1>0, <2>1, <2>2 DEF RedisInv
    <2> QED
      BY <2>1, <2>2, <2>3, <2>4 DEF RedisInv
  <1>7. ASSUME NEW s \in Subscribers, NEW lost2 \in BOOLEAN, Redis!Ack(s, lost2)
        PROVE  RedisInv'
    <2> DEFINE g == Redis!group(s)
    <2>1. /\ consumer[s] = "ack" /\ consumer' = [consumer EXCEPT ![s] = "loop"]
          /\ unacked' = [unacked EXCEPT ![g] = IF lost2 THEN @ ELSE @ \ {msg[s]}]
          /\ UNCHANGED <<stream, cursor, settled, msg, given>>
      BY <1>7 DEF Redis!Ack
    <2>2. /\ g \in Redis!Groups /\ unacked' \in [Redis!Groups -> SUBSET Int] /\ DOMAIN consumer' = Subscribers
          /\ msg[s] \in settled[g]
      BY <1>0, <2>1 DEF RedisInv
    <2>3. \A h \in Redis!Groups : unacked[h] \cup settled[h] = unacked'[h] \cup settled'[h]
      BY <2>1, <2>2 DEF RedisInv
    <2>4. \A t \in Subscribers : given'[t] \subseteq unacked'[Redis!group(t)] \cup settled'[Redis!group(t)]
      BY <1>0, <2>1, <2>3 DEF RedisInv
    <2> QED
      BY <2>1, <2>2, <2>4 DEF RedisInv
  <1> QED
    BY <1>1, <1>2, <1>3, <1>4, <1>5, <1>6, <1>7 DEF Redis!Next, Redis!consume

LEMMA RedisSafe == RedisInv => Redis!SettledOrPending
  BY DEF RedisInv, Redis!SettledOrPending

-----------------------------------------------------------------------------
(* Buses: whom a call reaches.                                              *)

LEMMA RangeTail ==
  ASSUME NEW S, NEW q \in Seq(S), q # << >>
  PROVE  /\ Head(q) \in S /\ Tail(q) \in Seq(S)
         /\ Bus!Range(q) = {Head(q)} \cup Bus!Range(Tail(q))
  <1>1. /\ Head(q) \in S /\ Tail(q) \in Seq(S) /\ Len(q) \in Nat /\ Len(q) >= 1
        /\ Len(Tail(q)) = Len(q) - 1 /\ Head(q) = q[1]
        /\ \A i \in 1..Len(Tail(q)) : Tail(q)[i] = q[i + 1]
    BY HeadTailProperties, LenProperties, EmptySeq
  <1>2. DOMAIN q = 1..Len(q) /\ DOMAIN Tail(q) = 1..Len(Tail(q))
    BY <1>1, LenProperties
  <1>3. ASSUME NEW i \in 1..Len(q)
        PROVE  q[i] = Head(q) \/ q[i] \in Bus!Range(Tail(q))
    <2>1. CASE i = 1
      BY <1>1, <2>1
    <2>2. CASE i # 1
      <3>1. i - 1 \in 1..Len(Tail(q)) /\ (i - 1) + 1 = i
        BY <1>1, <2>2
      <3>2. Tail(q)[i - 1] = q[i]
        BY <1>1, <3>1
      <3> QED
        BY <1>2, <3>1, <3>2 DEF Bus!Range
    <2> QED
      BY <2>1, <2>2
  <1>4. ASSUME NEW i \in 1..Len(Tail(q))
        PROVE  Tail(q)[i] \in Bus!Range(q)
    <2>1. i + 1 \in 1..Len(q) /\ Tail(q)[i] = q[i + 1]
      BY <1>1
    <2> QED
      BY <1>2, <2>1 DEF Bus!Range
  <1>5. Head(q) \in Bus!Range(q)
    <2>1. 1 \in 1..Len(q)
      BY <1>1
    <2> QED
      BY <1>1, <1>2, <2>1 DEF Bus!Range
  <1>6. Bus!Range(q) \subseteq {Head(q)} \cup Bus!Range(Tail(q))
    BY <1>2, <1>3 DEF Bus!Range
  <1>7. Bus!Range(Tail(q)) \subseteq Bus!Range(q)
    <2>1. Bus!Range(Tail(q)) = {Tail(q)[i] : i \in 1..Len(Tail(q))}
      BY <1>2 DEF Bus!Range
    <2> QED
      BY <1>4, <2>1
  <1> QED
    BY <1>1, <1>5, <1>6, <1>7

\* The copy of the callbacks names every one of them, whatever its order.
LEMMA OrdersAreComplete ==
  ASSUME NEW S, IsFiniteSet(S), NEW order \in Bus!SetToSeqs(S)
  PROVE  order \in Seq(S) /\ S \subseteq Bus!Range(order)
  <1> DEFINE n == Cardinality(S)
  <1>1. Bus!Cardinality(S) = n
    BY DEF Bus!Cardinality, Cardinality
  <1>2. n \in Nat
    BY FS_CardinalityType
  <1>3. order \in [1..n -> S] /\ \A i, j \in 1..n : i # j => order[i] # order[j]
    BY <1>1 DEF Bus!SetToSeqs
  <1> HIDE DEF n
  <1>4. order \in Seq(S)
    BY <1>2, <1>3, IsASeq
  <1>5. ASSUME NEW e \in S, e \notin Bus!Range(order)
        PROVE  FALSE
    <2>1. IsFiniteSet(S \ {e}) /\ Cardinality(S \ {e}) = n - 1
      BY FS_RemoveElement DEF n
    <2>2. IsFiniteSet(1..n) /\ Cardinality(1..n) = n
      <3>1. IsFiniteSet(1..n) /\ Cardinality(1..n) = IF 1 > n THEN 0 ELSE n - 1 + 1
        BY <1>2, FS_Interval
      <3> QED
        BY <1>2, <3>1
    <2>3. order \in [1..n -> S \ {e}]
      BY <1>3, <1>5 DEF Bus!Range
    <2>4. Cardinality(S \ {e}) < Cardinality(1..n)
      BY <1>2, <2>1, <2>2
    <2>5. \E i, j \in 1..n : i # j /\ order[i] = order[j]
      BY <2>1, <2>2, <2>3, <2>4, FS_PigeonHole
    <2> QED
      BY <1>3, <2>5
  <1> QED
    BY <1>4, <1>5

BusTypes ==
    /\ subs \in Seq(Receivers) /\ done \subseteq Receivers /\ watchers \subseteq Receivers
    /\ call \in [Bus!Senders -> {"idle", "next", "handler", "ok", "err"}]
    /\ rest \in [Bus!Senders -> Seq(Receivers)]
    /\ stayed \in [Bus!Senders -> SUBSET Receivers] /\ gone \in [Bus!Senders -> SUBSET Receivers]
    /\ got \in [Bus!Senders -> SUBSET Receivers]

\* A receiver that stays was reached or is still in the copy.
InCopy(c) ==
    /\ call[c] \in {"next", "handler"} => stayed[c] \subseteq got[c] \cup Bus!Range(rest[c])
    /\ call[c] = "ok" => stayed[c] \subseteq got[c]

\* Only those stay whose channel is open, and those gone before the call stay
\* closed; the handler a Publish is about to call is none of these.
Closed(c) ==
    /\ c \in Publishers => stayed[c] \cap done = {}
    /\ gone[c] \subseteq done /\ (c \in Dispatchers => gone[c] = {})
    /\ call[c] = "idle" => got[c] = {}
    /\ call[c] = "handler" => rest[c] # << >> /\ Head(rest[c]) \notin gone[c]
    /\ got[c] \cap gone[c] = {}

BusInv == BusTypes /\ \A c \in Bus!Senders : InCopy(c) /\ Closed(c)

LEMMA BusInit == Bus!Init => BusInv
  <1> SUFFICES ASSUME Bus!Init PROVE BusInv
    OBVIOUS
  <1>1. << >> \in Seq(Receivers)
    BY EmptySeq
  <1> QED
    BY <1>1 DEF Bus!Init, BusInv, BusTypes, InCopy, Closed

\* Receivers come and go.
LEMMA BusReceivers ==
  ASSUME BusInv, NEW r \in Receivers,
         Bus!Subscribe(r) \/ Bus!Unsubscribe(r) \/ Bus!Watch(r) \/ Bus!Unwatch(r)
  PROVE  BusInv'
  <1>1. /\ call' = call /\ rest' = rest /\ gone' = gone /\ got' = got
        /\ done \subseteq done' /\ done' \subseteq Receivers /\ watchers' \subseteq Receivers
    BY DEF Bus!Subscribe, Bus!Unsubscribe, Bus!Watch, Bus!Unwatch, Bus!callVars, Bus!memoryVars,
           Bus!SameID, BusInv, BusTypes
  <1>2. subs' \in Seq(Receivers)
    <2>1. subs \in Seq(Receivers)
      BY DEF BusInv, BusTypes
    <2>2. Append(subs, r) \in Seq(Receivers)
      BY <2>1, AppendProperties
    <2>3. subs' = subs \/ subs' = Append(subs, r)
      BY DEF Bus!Subscribe, Bus!Unsubscribe, Bus!Watch, Bus!Unwatch, Bus!memoryVars
    <2> QED
      BY <2>1, <2>2, <2>3
  <1>3. /\ stayed' \in [Bus!Senders -> SUBSET Receivers]
        /\ \A c \in Bus!Senders : stayed'[c] \subseteq stayed[c]
        /\ \A c \in Bus!Senders : c \in Publishers => stayed'[c] \cap done' = {}
    <2>1. CASE Bus!Subscribe(r)
      BY <2>1 DEF Bus!Subscribe, Bus!callVars, BusInv, BusTypes, Closed
    <2>2. CASE Bus!Unsubscribe(r)
      BY <2>2 DEF Bus!Unsubscribe, BusInv, BusTypes, Closed
    <2>3. CASE Bus!Watch(r) \/ Bus!Unwatch(r)
      <3>1. /\ stayed' = [c \in Bus!Senders |-> IF c \in Dispatchers THEN stayed[c] \ Bus!SameID(r)
                                                                     ELSE stayed[c]]
            /\ done' = done
        BY <2>3 DEF Bus!Watch, Bus!Unwatch, Bus!Departs, Bus!memoryVars
      <3> QED
        BY <3>1 DEF BusInv, BusTypes, Closed
    <2> QED
      BY <2>1, <2>2, <2>3
  <1>4. BusTypes'
    BY <1>1, <1>2, <1>3 DEF BusInv, BusTypes
  <1>5. ASSUME NEW c \in Bus!Senders
        PROVE  InCopy(c)' /\ Closed(c)'
    <2>1. InCopy(c)'
      BY <1>1, <1>3 DEF BusInv, InCopy
    <2>2. Closed(c)'
      BY <1>1, <1>3 DEF BusInv, Closed
    <2> QED
      BY <2>1, <2>2
  <1> QED
    BY <1>4, <1>5 DEF BusInv

\* A call moves: to place a with the copy q, the receivers t that stay, those
\* gone n and those reached h.
Moves(c, a, q, t, n, h) ==
    /\ call' = [call EXCEPT ![c] = a] /\ rest' = [rest EXCEPT ![c] = q]
    /\ stayed' = [stayed EXCEPT ![c] = t] /\ gone' = [gone EXCEPT ![c] = n]
    /\ got' = [got EXCEPT ![c] = h] /\ UNCHANGED <<subs, done, watchers>>

Sound(c, a, q, t, n, h) ==
    /\ a \in {"idle", "next", "handler", "ok", "err"} /\ q \in Seq(Receivers)
    /\ t \in SUBSET Receivers /\ n \in SUBSET Receivers /\ h \in SUBSET Receivers
    /\ a \in {"next", "handler"} => t \subseteq h \cup Bus!Range(q)
    /\ a = "ok" => t \subseteq h
    /\ c \in Publishers => t \cap done = {}
    /\ n \subseteq done /\ (c \in Dispatchers => n = {})
    /\ a = "idle" => h = {}
    /\ a = "handler" => q # << >> /\ Head(q) \notin n
    /\ h \cap n = {}

\* What the other calls know does not change.
LEMMA BusCalls ==
  ASSUME BusInv, NEW c \in Bus!Senders, NEW a, NEW q, NEW t, NEW n, NEW h,
         Moves(c, a, q, t, n, h), Sound(c, a, q, t, n, h)
  PROVE  BusInv'
  <1>1. BusTypes'
    BY DEF BusInv, BusTypes, Moves, Sound
  <1>2. /\ call'[c] = a /\ rest'[c] = q /\ stayed'[c] = t /\ gone'[c] = n /\ got'[c] = h
        /\ \A d \in Bus!Senders \ {c} : /\ call'[d] = call[d] /\ rest'[d] = rest[d] /\ got'[d] = got[d]
                                        /\ stayed'[d] = stayed[d] /\ gone'[d] = gone[d]
    BY DEF BusInv, BusTypes, Moves
  <1>3. InCopy(c)' /\ Closed(c)'
    BY <1>2 DEF InCopy, Closed, Moves, Sound
  <1>4. ASSUME NEW d \in Bus!Senders \ {c}
        PROVE  InCopy(d)' /\ Closed(d)'
    <2>1. InCopy(d) /\ Closed(d)
      BY DEF BusInv
    <2> QED
      BY <1>2, <2>1 DEF InCopy, Closed, Moves
  <1> QED
    BY <1>1, <1>3, <1>4 DEF BusInv

LEMMA BusSenders ==
  ASSUME BusInv, NEW c \in Bus!Senders,
         \/ c \in Publishers /\ (Bus!Publish(c) \/ Bus!CheckDone(c) \/ \E ok \in BOOLEAN : Bus!Handle(c, ok))
         \/ c \in Dispatchers /\ (Bus!Dispatch(c) \/ Bus!Callback(c))
         \/ Bus!Return(c)
  PROVE  BusInv'
  <1> USE DEF Bus!memoryVars
  <1>0. /\ BusTypes /\ InCopy(c) /\ Closed(c) /\ ~(c \in Publishers /\ c \in Dispatchers)
        /\ rest[c] \in Seq(Receivers)
        /\ stayed[c] \in SUBSET Receivers /\ gone[c] \in SUBSET Receivers /\ got[c] \in SUBSET Receivers
        /\ call = [call EXCEPT ![c] = call[c]] /\ rest = [rest EXCEPT ![c] = rest[c]]
        /\ stayed = [stayed EXCEPT ![c] = stayed[c]] /\ gone = [gone EXCEPT ![c] = gone[c]]
        /\ got = [got EXCEPT ![c] = got[c]] /\ call[c] \in {"idle", "next", "handler", "ok", "err"}
    BY SendersApart DEF BusInv, BusTypes
  <1>1. CASE c \in Publishers /\ Bus!Publish(c)
    <2>1. /\ call' = [call EXCEPT ![c] = "next"] /\ rest' = [rest EXCEPT ![c] = subs]
          /\ stayed' = [stayed EXCEPT ![c] = Bus!Range(subs) \ done]
          /\ gone' = [gone EXCEPT ![c] = done] /\ got' = got /\ UNCHANGED <<subs, done, watchers>>
          /\ got[c] = {}
      BY <1>0, <1>1 DEF Bus!Publish, Closed
    <2>2. Bus!Range(subs) \subseteq Receivers /\ subs \in Seq(Receivers) /\ done \in SUBSET Receivers
      <3>1. subs \in Seq(Receivers) /\ done \in SUBSET Receivers
        BY <1>0 DEF BusTypes
      <3>2. DOMAIN subs = 1..Len(subs) /\ \A i \in 1..Len(subs) : subs[i] \in Receivers
        BY <3>1, ElementOfSeq, LenProperties
      <3> QED
        BY <3>1, <3>2 DEF Bus!Range
    <2>3. got' = [got EXCEPT ![c] = got[c]]
      BY <1>0, <2>1
    <2>8. Moves(c, "next", subs, Bus!Range(subs) \ done, done, {})
      BY <1>0, <1>1, <2>1, <2>2, <2>3 DEF Moves
    <2>9. Sound(c, "next", subs, Bus!Range(subs) \ done, done, {})
      BY <1>0, <1>1, <2>1, <2>2, <2>3 DEF Sound
    <2> QED
      BY <2>8, <2>9, BusCalls
  <1>2. CASE c \in Publishers /\ Bus!CheckDone(c) /\ Head(rest[c]) \in done
    <2>1. /\ rest' = [rest EXCEPT ![c] = Tail(rest[c])] /\ rest[c] # << >> /\ call[c] = "next"
          /\ UNCHANGED <<call, stayed, gone, got, subs, done, watchers>>
      BY <1>2 DEF Bus!CheckDone
    <2>2. Tail(rest[c]) \in Seq(Receivers) /\ Bus!Range(rest[c]) = {Head(rest[c])} \cup Bus!Range(Tail(rest[c]))
      BY <1>0, <2>1, RangeTail
    <2>3. stayed[c] \subseteq got[c] \cup Bus!Range(Tail(rest[c]))
      BY <1>0, <1>2, <2>1, <2>2 DEF InCopy, Closed
    <2>4. /\ call' = [call EXCEPT ![c] = "next"] /\ stayed' = [stayed EXCEPT ![c] = stayed[c]]
          /\ gone' = [gone EXCEPT ![c] = gone[c]] /\ got' = [got EXCEPT ![c] = got[c]]
      BY <1>0, <2>1
    <2>5. /\ stayed[c] \cap done = {} /\ gone[c] \subseteq done /\ (c \in Dispatchers => gone[c] = {})
          /\ got[c] \cap gone[c] = {}
      BY <1>0, <1>2 DEF Closed
    <2>8. Moves(c, "next", Tail(rest[c]), stayed[c], gone[c], got[c])
      BY <1>0, <2>1, <2>2, <2>3, <2>4, <2>5 DEF Moves
    <2>9. Sound(c, "next", Tail(rest[c]), stayed[c], gone[c], got[c])
      BY <1>0, <2>1, <2>2, <2>3, <2>4, <2>5 DEF Sound
    <2> QED
      BY <2>8, <2>9, BusCalls
  <1>3. CASE c \in Publishers /\ Bus!CheckDone(c) /\ Head(rest[c]) \notin done
    <2>1. /\ call' = [call EXCEPT ![c] = "handler"] /\ rest[c] # << >> /\ call[c] = "next"
          /\ UNCHANGED <<rest, stayed, gone, got, subs, done, watchers>>
      BY <1>3 DEF Bus!CheckDone
    <2>2. /\ rest' = [rest EXCEPT ![c] = rest[c]] /\ stayed' = [stayed EXCEPT ![c] = stayed[c]]
          /\ gone' = [gone EXCEPT ![c] = gone[c]] /\ got' = [got EXCEPT ![c] = got[c]]
      BY <1>0, <2>1
    <2>3. /\ stayed[c] \cap done = {} /\ gone[c] \subseteq done /\ (c \in Dispatchers => gone[c] = {})
          /\ got[c] \cap gone[c] = {} /\ Head(rest[c]) \notin gone[c]
          /\ stayed[c] \subseteq got[c] \cup Bus!Range(rest[c])
      BY <1>0, <1>3, <2>1 DEF Closed, InCopy
    <2>8. Moves(c, "handler", rest[c], stayed[c], gone[c], got[c])
      BY <1>0, <2>1, <2>2, <2>3 DEF Moves
    <2>9. Sound(c, "handler", rest[c], stayed[c], gone[c], got[c])
      BY <1>0, <2>1, <2>2, <2>3 DEF Sound
    <2> QED
      BY <2>8, <2>9, BusCalls
  <1>4. ASSUME c \in Publishers, NEW ok \in BOOLEAN, Bus!Handle(c, ok)
        PROVE  BusInv'
    <2> DEFINE a == IF ok THEN "next" ELSE "err"
    <2>1. /\ call' = [call EXCEPT ![c] = a] /\ call[c] = "handler"
          /\ rest' = [rest EXCEPT ![c] = Tail(rest[c])]
          /\ got' = [got EXCEPT ![c] = got[c] \cup {Head(rest[c])}]
          /\ UNCHANGED <<stayed, gone, subs, done, watchers>>
      BY <1>4 DEF Bus!Handle
    <2>2. rest[c] # << >> /\ Head(rest[c]) \notin gone[c]
      BY <1>0, <2>1 DEF Closed
    <2>3. /\ Tail(rest[c]) \in Seq(Receivers) /\ Head(rest[c]) \in Receivers
          /\ Bus!Range(rest[c]) = {Head(rest[c])} \cup Bus!Range(Tail(rest[c]))
      BY <1>0, <2>2, RangeTail
    <2>4. /\ stayed' = [stayed EXCEPT ![c] = stayed[c]] /\ gone' = [gone EXCEPT ![c] = gone[c]]
          /\ got[c] \cup {Head(rest[c])} \in SUBSET Receivers
          /\ a \in {"idle", "next", "handler", "ok", "err"} /\ a \notin {"idle", "handler", "ok"}
      BY <1>0, <2>1, <2>3
    <2>5. /\ stayed[c] \cap done = {} /\ gone[c] \subseteq done /\ (c \in Dispatchers => gone[c] = {})
          /\ (got[c] \cup {Head(rest[c])}) \cap gone[c] = {}
          /\ stayed[c] \subseteq (got[c] \cup {Head(rest[c])}) \cup Bus!Range(Tail(rest[c]))
      BY <1>0, <1>4, <2>1, <2>2, <2>3 DEF Closed, InCopy
    <2> HIDE DEF a
    <2>8. Moves(c, a, Tail(rest[c]), stayed[c], gone[c], got[c] \cup {Head(rest[c])})
      BY <1>0, <2>1, <2>3, <2>4, <2>5 DEF Moves
    <2>9. Sound(c, a, Tail(rest[c]), stayed[c], gone[c], got[c] \cup {Head(rest[c])})
      BY <1>0, <2>1, <2>3, <2>4, <2>5 DEF Sound
    <2> QED
      BY <2>8, <2>9, BusCalls
  <1>5. CASE c \in Dispatchers /\ Bus!Dispatch(c)
    <2>1. PICK order \in Bus!SetToSeqs(watchers) : rest' = [rest EXCEPT ![c] = order]
      BY <1>5 DEF Bus!Dispatch
    <2>2. /\ call' = [call EXCEPT ![c] = "next"] /\ stayed' = [stayed EXCEPT ![c] = watchers]
          /\ UNCHANGED <<gone, got, subs, done, watchers>> /\ call[c] = "idle"
      BY <1>5 DEF Bus!Dispatch
    <2>3. IsFiniteSet(watchers) /\ watchers \in SUBSET Receivers
      BY <1>0, QueueConstants, FS_Subset DEF BusTypes
    <2>4. order \in Seq(watchers) /\ watchers \subseteq Bus!Range(order)
      BY <2>3, OrdersAreComplete
    <2>5. order \in Seq(Receivers)
      BY <2>3, <2>4, SeqMonotonic
    <2>6. /\ gone' = [gone EXCEPT ![c] = gone[c]] /\ got' = [got EXCEPT ![c] = got[c]]
          /\ got[c] = {} /\ gone[c] = {} /\ c \notin Publishers
      BY <1>0, <1>5, <2>2 DEF Closed
    <2>8. Moves(c, "next", order, watchers, {}, {})
      BY <1>0, <2>1, <2>2, <2>3, <2>4, <2>5, <2>6 DEF Moves
    <2>9. Sound(c, "next", order, watchers, {}, {})
      BY <1>0, <2>1, <2>2, <2>3, <2>4, <2>5, <2>6 DEF Sound
    <2> QED
      BY <2>8, <2>9, BusCalls
  <1>6. CASE c \in Dispatchers /\ Bus!Callback(c)
    <2>1. /\ call[c] = "next" /\ rest[c] # << >>
          /\ rest' = [rest EXCEPT ![c] = Tail(rest[c])]
          /\ got' = [got EXCEPT ![c] = got[c] \cup {Head(rest[c])}]
          /\ UNCHANGED <<call, stayed, gone, subs, done, watchers>>
      BY <1>6 DEF Bus!Callback
    <2>2. /\ Tail(rest[c]) \in Seq(Receivers) /\ Head(rest[c]) \in Receivers
          /\ Bus!Range(rest[c]) = {Head(rest[c])} \cup Bus!Range(Tail(rest[c]))
      BY <1>0, <2>1, RangeTail
    <2>3. /\ call' = [call EXCEPT ![c] = "next"] /\ stayed' = [stayed EXCEPT ![c] = stayed[c]]
          /\ gone' = [gone EXCEPT ![c] = gone[c]] /\ got[c] \cup {Head(rest[c])} \in SUBSET Receivers
      BY <1>0, <2>1, <2>2
    <2>4. /\ c \notin Publishers /\ gone[c] = {}
          /\ stayed[c] \subseteq (got[c] \cup {Head(rest[c])}) \cup Bus!Range(Tail(rest[c]))
      BY <1>0, <1>6, <2>1, <2>2 DEF Closed, InCopy
    <2>8. Moves(c, "next", Tail(rest[c]), stayed[c], {}, got[c] \cup {Head(rest[c])})
      BY <1>0, <2>1, <2>2, <2>3, <2>4 DEF Moves
    <2>9. Sound(c, "next", Tail(rest[c]), stayed[c], {}, got[c] \cup {Head(rest[c])})
      BY <1>0, <2>1, <2>2, <2>3, <2>4 DEF Sound
    <2> QED
      BY <2>8, <2>9, BusCalls
  <1>7. CASE Bus!Return(c)
    <2>1. /\ call' = [call EXCEPT ![c] = "ok"] /\ rest[c] = << >> /\ call[c] = "next"
          /\ UNCHANGED <<rest, stayed, gone, got, subs, done, watchers>>
      BY <1>7 DEF Bus!Return
    <2>2. /\ rest' = [rest EXCEPT ![c] = rest[c]] /\ stayed' = [stayed EXCEPT ![c] = stayed[c]]
          /\ gone' = [gone EXCEPT ![c] = gone[c]] /\ got' = [got EXCEPT ![c] = got[c]]
      BY <1>0, <2>1
    <2>3. Bus!Range(rest[c]) = {}
      BY <2>1 DEF Bus!Range
    <2>4. /\ c \in Publishers => stayed[c] \cap done = {}
          /\ gone[c] \subseteq done /\ (c \in Dispatchers => gone[c] = {})
          /\ got[c] \cap gone[c] = {} /\ stayed[c] \subseteq got[c]
      BY <1>0, <2>1, <2>3 DEF Closed, InCopy
    <2>8. Moves(c, "ok", rest[c], stayed[c], gone[c], got[c])
      BY <1>0, <2>1, <2>2, <2>4 DEF Moves
    <2>9. Sound(c, "ok", rest[c], stayed[c], gone[c], got[c])
      BY <1>0, <2>1, <2>2, <2>4 DEF Sound
    <2> QED
      BY <2>8, <2>9, BusCalls
  <1> QED
    BY <1>1, <1>2, <1>3, <1>4, <1>5, <1>6, <1>7

LEMMA BusStep == BusInv /\ [Bus!Next]_busVars => BusInv'
  <1> SUFFICES ASSUME BusInv, [Bus!Next]_busVars PROVE BusInv'
    OBVIOUS
  <1>1. CASE UNCHANGED busVars \/ Bus!Push
    BY <1>1 DEF busVars, Bus!Push, Bus!memoryVars, Bus!callVars, BusInv, BusTypes, InCopy, Closed
  <1>2. Publishers \subseteq Bus!Senders /\ Dispatchers \subseteq Bus!Senders
    BY DEF Bus!Senders
  <1>3. CASE Bus!Next /\ ~Bus!Push
    BY <1>2, <1>3, BusReceivers, BusSenders DEF Bus!Next
  <1> QED
    BY <1>1, <1>3

\* The event queue is the end of what was pushed, as long as it may be.
QueueOK(e, p) ==
    /\ e \in Seq(Nat) /\ p \in Seq(Nat)
    /\ \A n \in 1..Len(p) : p[n] = n
    /\ Capacity > 0 =>
         /\ Len(e) <= Len(p) /\ Len(e) <= Capacity /\ (Len(e) < Capacity => Len(e) = Len(p))
         /\ \A i \in 1..Len(e) : e[i] = Len(p) - Len(e) + i

QueueInv == QueueOK(events, pushed)

LEMMA QueueGrows ==
  ASSUME NEW e, NEW p, QueueOK(e, p)
  PROVE  LET all == Append(e, Len(p) + 1)
         IN  QueueOK(IF Capacity > 0 /\ Len(all) > Capacity
                     THEN SubSeq(all, Len(all) - Capacity + 1, Len(all)) ELSE all,
                     Append(p, Len(p) + 1))
  <1> DEFINE all == Append(e, Len(p) + 1)
             q == Append(p, Len(p) + 1)
  <1>0. /\ e \in Seq(Nat) /\ p \in Seq(Nat) /\ Len(e) \in Nat /\ Len(p) \in Nat /\ Capacity \in Nat
        /\ Len(p) + 1 \in Nat
    BY QueueConstants, LenProperties DEF QueueOK
  <1>1. /\ q \in Seq(Nat) /\ Len(q) = Len(p) + 1 /\ q[Len(p) + 1] = Len(p) + 1
        /\ \A n \in 1..Len(p) : q[n] = p[n]
    BY <1>0, AppendProperties
  <1>2. /\ all \in Seq(Nat) /\ Len(all) = Len(e) + 1 /\ all[Len(e) + 1] = Len(p) + 1
        /\ \A i \in 1..Len(e) : all[i] = e[i]
    BY <1>0, AppendProperties
  <1> HIDE DEF all, q
  <1>3. \A n \in 1..Len(q) : q[n] = n
    <2>1. ASSUME NEW n \in 1..Len(q)
          PROVE  q[n] = n
      <3>1. n \in 1..Len(p) \/ n = Len(p) + 1
        BY <1>0, <1>1
      <3> QED
        BY <1>1, <3>1 DEF QueueOK
    <2> QED
      BY <2>1
  <1>4. CASE ~(Capacity > 0)
    BY <1>1, <1>2, <1>3, <1>4 DEF QueueOK, all, q
  <1>5. CASE Capacity > 0
    <2>1. /\ Len(e) <= Len(p) /\ Len(e) <= Capacity /\ (Len(e) < Capacity => Len(e) = Len(p))
          /\ \A i \in 1..Len(e) : e[i] = Len(p) - Len(e) + i
      BY <1>5 DEF QueueOK
    <2>2. ASSUME NEW i \in 1..Len(all)
          PROVE  all[i] = Len(q) - Len(all) + i
      <3>1. CASE i \in 1..Len(e)
        <4>1. all[i] = Len(p) - Len(e) + i
          BY <1>2, <2>1, <3>1
        <4> QED
          BY <1>0, <1>1, <1>2, <3>1, <4>1
      <3>2. CASE i = Len(e) + 1
        <4>1. all[i] = Len(p) + 1
          BY <1>2, <3>2
        <4> QED
          BY <1>0, <1>1, <1>2, <3>2, <4>1
      <3> QED
        BY <1>0, <1>2, <3>1, <3>2
    <2>3. CASE Len(all) <= Capacity
      <3>1. /\ Len(all) <= Len(q) /\ (Len(all) < Capacity => Len(all) = Len(q))
            /\ ~(Len(all) > Capacity)
        BY <1>0, <1>1, <1>2, <2>1, <2>3
      <3>2. QueueOK(all, q)
        BY <1>1, <1>2, <1>3, <2>2, <2>3, <3>1 DEF QueueOK
      <3> QED
        BY <3>1, <3>2 DEF all, q
    <2>4. CASE Len(all) > Capacity
      <3> DEFINE m == Len(all) - Capacity + 1
                 end == SubSeq(all, m, Len(all))
      <3>1. m \in 1..Len(all) + 1 /\ Len(all) \in Nat /\ m \in Nat
        BY <1>0, <1>2, <1>5, <2>4
      <3>2. /\ end \in Seq(Nat) /\ Len(end) = IF m <= Len(all) THEN Len(all) - m + 1 ELSE 0
            /\ \A i \in 1..Len(all) - m + 1 : end[i] = all[m + i - 1]
        <4>1. m \in 1..(Len(all) + 1) /\ Len(all) \in (m - 1)..Len(all)
          BY <3>1
        <4> HIDE DEF m
        <4> QED
          BY <1>2, <4>1, SubSeqProperties
      <3>3. Len(end) = Capacity /\ Len(all) - m + 1 = Capacity /\ Capacity <= Len(q)
        BY <1>0, <1>1, <1>2, <1>5, <2>1, <2>4, <3>1, <3>2, SMTT(60)
      <3>4. ASSUME NEW i \in 1..Len(end)
            PROVE  end[i] = Len(q) - Len(end) + i
        <4>1. m + i - 1 \in 1..Len(all) /\ m + i - 1 = Len(all) - Capacity + i
          BY <1>0, <1>2, <3>1, <3>3
        <4>2. end[i] = all[m + i - 1]
          BY <3>2, <3>3
        <4>3. end[i] = Len(q) - Len(all) + (m + i - 1)
          BY <2>2, <4>1, <4>2
        <4> HIDE DEF m, end
        <4> QED
          BY <1>0, <1>1, <1>2, <3>3, <4>1, <4>3
      <3>5. QueueOK(end, q)
        <4> HIDE DEF m, end
        <4> QED
          BY <1>0, <1>1, <1>3, <3>2, <3>3, <3>4 DEF QueueOK
      <3> QED
        BY <1>5, <2>4, <3>5 DEF all, q
    <2> QED
      BY <1>0, <1>2, <2>3, <2>4
  <1> QED
    BY <1>4, <1>5

LEMMA QueueStep == QueueInv /\ [Bus!Next]_busVars => QueueInv'
  <1> SUFFICES ASSUME QueueInv, [Bus!Next]_busVars PROVE QueueInv'
    OBVIOUS
  <1>1. CASE Bus!Push
    BY <1>1, QueueGrows DEF Bus!Push, QueueInv
  <1>2. CASE ~Bus!Push
    <2>1. UNCHANGED <<events, pushed>>
      BY <1>2 DEF busVars, Bus!Next, Bus!queueVars, Bus!Subscribe, Bus!Unsubscribe, Bus!Watch, Bus!Unwatch,
                  Bus!Publish, Bus!CheckDone, Bus!Handle, Bus!Dispatch, Bus!Callback, Bus!Return
    <2> QED
      BY <2>1 DEF QueueInv
  <1> QED
    BY <1>1, <1>2

LEMMA BusSafe == BusInv /\ QueueInv => Bus!ReachesThoseWhoStay
  <1> SUFFICES ASSUME BusInv, QueueInv PROVE Bus!ReachesThoseWhoStay
    OBVIOUS
  <1>1. \A c \in Bus!Senders : (call[c] = "ok" => stayed[c] \subseteq got[c]) /\ got[c] \cap gone[c] = {}
    BY DEF BusInv, InCopy, Closed
  <1>2. ASSUME Capacity > 0, NEW n \in 1..Len(pushed)
        PROVE  (pushed[n] \in Bus!Range(events)) <=> (Len(pushed) - n < Capacity)
    <2>1. /\ Len(events) \in Nat /\ Len(pushed) \in Nat /\ Capacity \in Nat /\ pushed[n] = n
          /\ Len(events) <= Len(pushed) /\ Len(events) <= Capacity
          /\ Len(events) < Capacity => Len(events) = Len(pushed)
          /\ \A i \in 1..Len(events) : events[i] = Len(pushed) - Len(events) + i
          /\ DOMAIN events = 1..Len(events)
      BY <1>2, QueueConstants, LenProperties DEF QueueInv, QueueOK
    <2>2. ASSUME pushed[n] \in Bus!Range(events)
          PROVE  Len(pushed) - n < Capacity
      <3>1. PICK i \in 1..Len(events) : events[i] = n
        BY <2>1, <2>2 DEF Bus!Range
      <3>2. n = Len(pushed) - Len(events) + i
        BY <2>1, <3>1
      <3> QED
        BY <2>1, <3>2
    <2>3. ASSUME Len(pushed) - n < Capacity
          PROVE  pushed[n] \in Bus!Range(events)
      <3> DEFINE i == n - (Len(pushed) - Len(events))
      <3>1. i \in 1..Len(events) /\ Len(pushed) - Len(events) + i = n
        BY <2>1, <2>3
      <3>2. events[i] = n
        BY <2>1, <3>1
      <3> QED
        BY <2>1, <3>1, <3>2 DEF Bus!Range
    <2> QED
      BY <2>2, <2>3
  <1> QED
    BY <1>1, <1>2 DEF Bus!ReachesThoseWhoStay

\* With any number of publishers, dispatchers, receivers and Redis consumers, a
\* call that returns nil has reached everyone who stayed and nobody who left
\* before it, the event queue holds the newest events, and a message a Redis
\* group handed out went to one consumer and is settled or pending.
THEOREM MessagesAlwaysReach == AllSpec => []MessagesReach
  <1>1. AllInit => BusInv /\ QueueInv /\ RedisInv
    <2>1. Bus!Init => QueueInv
      <3> SUFFICES ASSUME Bus!Init PROVE QueueInv
        OBVIOUS
      <3>1. events = << >> /\ pushed = << >> /\ << >> \in Seq(Nat) /\ Len(<< >>) = 0
        BY EmptySeq DEF Bus!Init
      <3> QED
        BY <3>1, QueueConstants DEF QueueInv, QueueOK
    <2> QED
      BY <2>1, BusInit, RedisInit DEF AllInit
  <1>2. BusInv /\ QueueInv /\ RedisInv /\ [AllNext]_allVars => (BusInv /\ QueueInv /\ RedisInv)'
    BY PartsMove, BusStep, QueueStep, RedisStep
  <1>3. BusInv /\ QueueInv /\ RedisInv => MessagesReach
    BY BusSafe, RedisSafe DEF MessagesReach
  <1> QED
    BY <1>1, <1>2, <1>3, SafetyOfAll, PTL

-----------------------------------------------------------------------------
(* TimingWheel.                                                            *)

\* The ticks from slot t to slot p, a whole turn if they are the same.
Way(t, p) == IF p > t THEN p - t ELSE (p - t) + NumSlots

WheelItem == [pos : 0..(NumSlots - 1), circle : Nat, diff : 0..(NumSlots - 1), value : Values]

\* The ticks until the wheel fires entry e, when the last tick was in slot t.
Left(t, e) == (Way(t, e.pos) + NumSlots * e.circle) + e.diff

Turns == {-NumSlots, 0, NumSlots}

\* The inductive invariant: owed keys are on the wheel and within one turn.
WheelInv ==
    /\ tickedPos \in 0..(NumSlots - 1)
    /\ item \in [Key -> WheelItem] /\ latest \in [Key -> Values]
    /\ due \in [Key -> Int]
    /\ timers \subseteq Key /\ owed \subseteq timers /\ fired \subseteq Key
    /\ \A k \in owed : Left(tickedPos, item[k]) - due[k] \in Turns
    /\ \A k \in fired : due[k] \in Turns
    /\ \A k \in timers : item[k].value = latest[k]

LEMMA WheelSize == NumSlots \in Nat \ {0}
  BY CollectionConstants

LEMMA WayType ==
  ASSUME NEW t \in 0..(NumSlots - 1), NEW p \in 0..(NumSlots - 1)
  PROVE  Way(t, p) \in 1..NumSlots
  BY WheelSize DEF Way

\* x is n * q and a rest below 2 * n.
LEMMA ModOfSum ==
  ASSUME NEW n \in Nat \ {0}, NEW q \in Nat, NEW r \in Nat, r < n + n
  PROVE  (n * q + r) % n = Turn(n, r)
<1> DEFINE u == n * q
<1>1. u \in Nat /\ n * (q + 1) = u + n /\ n * (q + 1 + 1) = u + n + n
  <2>1. n * (q + 1 + 1) = n * (q + 1) + n
    BY Multiples
  <2>2. QED
    BY <2>1, Multiples
<1>2. CASE r < n
  <2>1. u <= u + r /\ u + r < u + n /\ u + r \in Nat /\ (u + r) - u = r
    <3> HIDE DEF u
    <3>1. QED
      BY <1>1, <1>2
  <2>2. (u + r) % n = (u + r) - n * q
    <3>1. n * q <= u + r /\ u + r < n * (q + 1)
      BY <1>1, <2>1
    <3> DEFINE x == u + r
    <3> HIDE DEF x
    <3>2. x % n = x - n * q
      BY <2>1, <3>1, DivIs DEF x
    <3>3. QED
      BY <3>2 DEF x
  <2>3. QED
    BY <1>2, <2>1, <2>2 DEF Turn
<1>3. CASE ~(r < n)
  <2>1. u + n <= u + r /\ u + r < u + n + n /\ u + r \in Nat /\ (u + r) - (u + n) = r - n /\ q + 1 \in Nat
    <3> HIDE DEF u
    <3>1. QED
      BY <1>1, <1>3
  <2>2. (u + r) % n = (u + r) - n * (q + 1)
    <3>1. n * (q + 1) <= u + r /\ u + r < n * (q + 1 + 1)
      BY <1>1, <2>1
    <3> DEFINE x == u + r
    <3> HIDE DEF x
    <3>2. x % n = x - n * (q + 1)
      BY <2>1, <3>1, DivIs DEF x
    <3>3. QED
      BY <3>2 DEF x
  <2>3. QED
    BY <1>1, <1>3, <2>1, <2>2 DEF Turn
<1>4. QED
  BY <1>2, <1>3

\* getPositionAndCircle: the way to the slot and the turns make up the delay.
LEMMA DelayPlaced ==
  ASSUME NEW t \in 0..(NumSlots - 1), NEW d \in Nat \ {0}
  PROVE  /\ (t + d) % NumSlots \in 0..(NumSlots - 1) /\ (d - 1) \div NumSlots \in Nat
         /\ Way(t, (t + d) % NumSlots) + NumSlots * ((d - 1) \div NumSlots) = d
<1> DEFINE S == NumSlots
           x == d - 1
           q == x \div S
           r == x % S
           u == S * q
           p == (t + d) % S
<1>1. S \in Nat \ {0} /\ x \in Nat
  BY WheelSize
<1>2. x = u + r /\ r \in Nat /\ r < S /\ q \in Nat
  <2> HIDE DEF S, x
  <2>1. QED
    BY <1>1, DivMod
<1>3. u \in Nat
  <2> HIDE DEF S, q
  <2>1. QED
    BY <1>1, <1>2, Multiples
<1> HIDE DEF S, q, r, x
<1>4. t \in 0..(S - 1)
  BY DEF S
<1>5. t + d = u + (t + r + 1) /\ t + r + 1 \in Nat /\ t + r + 1 < S + S
  <2> HIDE DEF u
  <2>1. d = x + 1
    BY <1>1 DEF x
  <2>2. QED
    BY <1>1, <1>2, <1>3, <1>4, <2>1
<1>6. p = Turn(S, t + r + 1)
  <2> DEFINE y == t + r + 1
  <2>1. y \in Nat /\ y < S + S /\ t + d = u + y
    BY <1>5
  <2> HIDE DEF y
  <2>2. (S * q + y) % S = Turn(S, y)
    BY <1>1, <1>2, <2>1, ModOfSum
  <2>3. QED
    BY <2>1, <2>2 DEF y
<1>7. p \in 0..(S - 1) /\ Way(t, p) = r + 1
  <2> HIDE DEF p
  <2>1. QED
    BY <1>1, <1>2, <1>4, <1>6 DEF Turn, Way, S
<1>8. Way(t, p) + u = d
  <2> HIDE DEF u, p
  <2>1. d = x + 1
    BY <1>1 DEF x
  <2>2. QED
    BY <1>1, <1>2, <1>3, <1>7, <2>1
<1>9. QED
  BY <1>2, <1>7, <1>8 DEF S, q, x

\* A new entry fires when it should.
LEMMA PlacedLeft ==
  ASSUME NEW t \in 0..(NumSlots - 1), NEW d \in Nat \ {0}, NEW v \in Values
  PROVE  LET e == [pos |-> (t + d) % NumSlots, circle |-> (d - 1) \div NumSlots, diff |-> 0, value |-> v]
         IN  e \in WheelItem /\ Left(t, e) = d
<1> DEFINE p == (t + d) % NumSlots
           c == (d - 1) \div NumSlots
<1>1. p \in 0..(NumSlots - 1) /\ c \in Nat /\ Way(t, p) + NumSlots * c = d
  BY DelayPlaced
<1> HIDE DEF p, c
<1> DEFINE e == [pos |-> p, circle |-> c, diff |-> 0, value |-> v]
<1>2. e \in WheelItem
  BY <1>1, WheelSize DEF WheelItem
<1>3. Left(t, e) = d
  BY <1>1 DEF Left
<1>4. QED
  BY <1>2, <1>3, Zenon DEF p, c

\* moveTask is at most a turn off.
LEMMA MovedLeft ==
  ASSUME tickedPos \in 0..(NumSlots - 1), NEW it \in WheelItem, NEW d \in Nat \ {0}
  PROVE  /\ Timing!Moved(it, d) \in WheelItem /\ Timing!Moved(it, d).value = it.value
         /\ Left(tickedPos, Timing!Moved(it, d)) - d \in Turns
<1> DEFINE t == tickedPos
           q == Timing!Position(d)
           c == Timing!Circle(d)
           e == Timing!Moved(it, d)
           w == Way(t, it.pos)
<1>1. q \in 0..(NumSlots - 1) /\ c \in Nat /\ Way(t, q) + NumSlots * c = d
  BY DelayPlaced DEF Timing!Position, Timing!Circle
<1>2. it.pos \in 0..(NumSlots - 1) /\ it.diff \in 0..(NumSlots - 1) /\ it.circle \in Nat /\ it.value \in Values
      /\ it = [pos |-> it.pos, circle |-> it.circle, diff |-> it.diff, value |-> it.value]
  BY DEF WheelItem
<1>3. w \in 1..NumSlots /\ Way(t, q) \in 1..NumSlots
  BY <1>1, <1>2, WayType
<1>4. e = IF q >= it.pos THEN [it EXCEPT !.circle = c, !.diff = q - it.pos]
          ELSE IF c > 0 THEN [it EXCEPT !.circle = c - 1, !.diff = (NumSlots + q) - it.pos]
          ELSE [it EXCEPT !.pos = q, !.circle = 0, !.diff = 0]
  <2>1. NumSlots + q - it.pos = (NumSlots + q) - it.pos
    BY <1>1, <1>2, WheelSize
  <2>2. QED
    BY <2>1 DEF Timing!Moved
<1> HIDE DEF q, c, e
<1> DEFINE u == NumSlots * c
<1>5. u \in Nat
  BY <1>1, WheelSize, Multiples
<1>6. CASE q >= it.pos
  <2>1. e \in WheelItem /\ e.pos = it.pos /\ e.circle = c /\ e.diff = q - it.pos /\ e.value = it.value
    <3>1. e = [it EXCEPT !.circle = c, !.diff = q - it.pos]
      BY <1>4, <1>6
    <3>2. q - it.pos \in 0..(NumSlots - 1)
      BY <1>1, <1>2, <1>6, WheelSize
    <3>3. QED
      BY <1>1, <3>1, <3>2 DEF WheelItem
  <2>2. Left(t, e) = (w + u) + (q - it.pos)
    BY <2>1 DEF Left
  <2> HIDE DEF u, w
  <2>3. ((w + u) + (q - it.pos)) - d \in Turns
    <3>1. d = Way(t, q) + u
      BY <1>1 DEF u
    <3>2. w + (q - it.pos) - Way(t, q) \in Turns
      BY <1>1, <1>2, <1>6, WheelSize DEF w, Way, Turns
    <3> HIDE DEF t
    <3>3. ((w + u) + (q - it.pos)) - d = w + (q - it.pos) - Way(t, q)
      BY <1>1, <1>2, <1>3, <1>5, <3>1
    <3>4. QED
      BY <3>2, <3>3
  <2>4. QED
    BY <2>1, <2>2, <2>3 DEF e
<1>7. CASE ~(q >= it.pos) /\ c > 0
  <2>1. e \in WheelItem /\ e.pos = it.pos /\ e.circle = c - 1 /\ e.diff = (NumSlots + q) - it.pos /\ e.value = it.value
    <3>1. e = [it EXCEPT !.circle = c - 1, !.diff = (NumSlots + q) - it.pos]
      BY <1>4, <1>7
    <3>2. (NumSlots + q) - it.pos \in 0..(NumSlots - 1) /\ c - 1 \in Nat
      BY <1>1, <1>2, <1>7, WheelSize
    <3>3. QED
      BY <1>1, <3>1, <3>2 DEF WheelItem
  <2> DEFINE y == NumSlots * (c - 1)
  <2>2. y \in Nat /\ u = y + NumSlots
    <3>1. c - 1 \in Nat /\ (c - 1) + 1 = c
      BY <1>1, <1>7
    <3>2. QED
      BY <3>1, WheelSize, Multiples
  <2>3. Left(t, e) = (w + y) + ((NumSlots + q) - it.pos)
    BY <2>1 DEF Left
  <2> HIDE DEF u, w, y
  <2>4. ((w + y) + ((NumSlots + q) - it.pos)) - d \in Turns
    <3>1. d = Way(t, q) + u
      BY <1>1 DEF u
    <3>2. w + (q - it.pos) - Way(t, q) \in Turns
      BY <1>1, <1>2, <1>7, WheelSize DEF w, Way, Turns
    <3> HIDE DEF t
    <3>3. ((w + y) + ((NumSlots + q) - it.pos)) - d = w + (q - it.pos) - Way(t, q)
      BY <1>1, <1>2, <1>3, <1>5, <2>2, <3>1, WheelSize
    <3>4. QED
      BY <3>2, <3>3
  <2>5. QED
    BY <2>1, <2>3, <2>4 DEF e
<1>8. CASE ~(q >= it.pos) /\ ~(c > 0)
  <2>1. e \in WheelItem /\ e.pos = q /\ e.circle = 0 /\ e.diff = 0 /\ e.value = it.value /\ c = 0
    <3>1. e = [it EXCEPT !.pos = q, !.circle = 0, !.diff = 0]
      BY <1>4, <1>8
    <3>2. 0 \in 0..(NumSlots - 1) /\ c = 0
      BY <1>1, <1>8, WheelSize
    <3>3. QED
      BY <1>1, <3>1, <3>2 DEF WheelItem
  <2>2. Left(t, e) = (Way(t, q) + NumSlots * c) + 0
    BY <2>1 DEF Left
  <2>3. Left(t, e) - d = 0
    BY <1>1, <2>2
  <2>4. QED
    BY <2>1, <2>3 DEF e, Turns
<1>9. QED
  BY <1>6, <1>7, <1>8

LEMMA WayNext ==
  ASSUME NEW t \in 0..(NumSlots - 1), NEW x \in 0..(NumSlots - 1), x # Turn(NumSlots, t + 1)
  PROVE  Way(Turn(NumSlots, t + 1), x) = Way(t, x) - 1
<1>1. CASE t + 1 < NumSlots
  BY <1>1, WheelSize DEF Way, Turn
<1>2. CASE t + 1 = NumSlots
  BY <1>2, WheelSize DEF Way, Turn
<1>3. QED
  BY <1>1, <1>2, WheelSize

\* A scan brings every entry one tick closer, and fires it when none is left.
LEMMA ScannedLeft ==
  ASSUME tickedPos \in 0..(NumSlots - 1), NEW k \in timers, item[k] \in WheelItem,
         NEW p, p = (tickedPos + 1) % NumSlots
  PROVE  /\ p \in 0..(NumSlots - 1)
         /\ Timing!Scanned(k, p) \in WheelItem /\ Timing!Scanned(k, p).value = item[k].value
         /\ Timing!Fires(k, p) => Left(tickedPos, item[k]) = 1
         /\ ~Timing!Fires(k, p) => Left(p, Timing!Scanned(k, p)) = Left(tickedPos, item[k]) - 1
<1> DEFINE t == tickedPos
           it == item[k]
           e == Timing!Scanned(k, p)
           S == NumSlots
<1>1. S \in Nat \ {0} /\ t \in 0..(S - 1)
  BY WheelSize
<1>2. p = Turn(S, t + 1) /\ p \in 0..(S - 1)
  BY <1>1, TurnIs
<1>3. it.pos \in 0..(S - 1) /\ it.circle \in Nat /\ it.diff \in 0..(S - 1) /\ it \in WheelItem
  BY DEF WheelItem
<1>4. Way(t, p) = 1 /\ Way(p, p) = S
  BY <1>1, <1>2 DEF Way, Turn
<1>5. CASE it.pos = p /\ it.circle > 0
  <2>1. e = [it EXCEPT !.circle = it.circle - 1] /\ ~Timing!Fires(k, p)
    BY <1>3, <1>5 DEF Timing!Scanned, Timing!Fires, Timing!Arrives
  <2>2. it.circle - 1 \in Nat /\ (it.circle - 1) + 1 = it.circle
    BY <1>3, <1>5
  <2>3. e \in WheelItem /\ e.value = it.value /\ e.pos = p /\ e.circle = it.circle - 1 /\ e.diff = it.diff
    BY <1>3, <1>5, <2>1, <2>2 DEF WheelItem
  <2> DEFINE u == NumSlots * (it.circle - 1)
             w == NumSlots * it.circle
  <2>4. u \in Nat /\ w = u + S
    BY <1>1, <2>2, Multiples
  <2>5. Left(p, e) = (S + u) + it.diff /\ Left(t, it) = (1 + w) + it.diff
    BY <1>4, <1>5, <2>3 DEF Left
  <2> HIDE DEF u, w, e, S
  <2>6. Left(p, e) = Left(t, it) - 1
    BY <1>1, <1>3, <2>4, <2>5
  <2>7. QED
    BY <1>2, <2>1, <2>3, <2>6 DEF e, S
<1>6. CASE it.pos = p /\ ~(it.circle > 0)
  <2>1. it.circle = 0 /\ NumSlots * it.circle = 0
    BY <1>1, <1>3, <1>6
  <2>2. e = [it EXCEPT !.pos = (p + it.diff) % NumSlots, !.diff = 0]
        /\ (Timing!Fires(k, p) <=> (it.diff = 0))
    BY <1>3, <1>6, <2>1 DEF Timing!Scanned, Timing!Fires, Timing!Arrives
  <2>3. Left(t, it) = 1 + it.diff
    BY <1>3, <1>4, <1>6, <2>1 DEF Left
  <2> DEFINE x == (p + it.diff) % NumSlots
  <2>4. x = Turn(S, p + it.diff) /\ x \in 0..(S - 1)
    <3>1. p + it.diff \in Nat /\ p + it.diff < S + S
      BY <1>1, <1>2, <1>3
    <3>2. QED
      BY <1>1, <3>1, TurnIs
  <2>5. it.diff # 0 => Way(p, x) = it.diff
    <3> HIDE DEF x
    <3>1. QED
      BY <1>1, <1>2, <1>3, <2>4 DEF Way, Turn
  <2>6. e \in WheelItem /\ e.value = it.value /\ e.pos = x /\ e.circle = it.circle /\ e.diff = 0
    <3> HIDE DEF x
    <3>1. 0 \in 0..(S - 1)
      BY <1>1
    <3>2. QED
      BY <1>3, <2>2, <2>4, <3>1 DEF WheelItem, x
  <2> HIDE DEF e, x
  <2>7. it.diff # 0 => Left(p, e) = it.diff
    BY <1>3, <2>1, <2>5, <2>6 DEF Left
  <2>8. QED
    BY <1>2, <1>3, <2>2, <2>3, <2>6, <2>7 DEF e
<1>7. CASE it.pos # p
  <2>1. e = it /\ ~Timing!Fires(k, p)
    BY <1>7 DEF Timing!Scanned, Timing!Fires, Timing!Arrives
  <2>2. Way(p, it.pos) = Way(t, it.pos) - 1
    BY <1>2, <1>3, <1>7, WayNext
  <2>3. Way(t, it.pos) \in 1..NumSlots /\ NumSlots * it.circle \in Nat
    BY <1>1, <1>3, WayType, Multiples
  <2> DEFINE w == NumSlots * it.circle
  <2> HIDE DEF w
  <2>4. (Way(p, it.pos) + w) + it.diff = ((Way(t, it.pos) + w) + it.diff) - 1
    BY <1>3, <2>2, <2>3 DEF w
  <2>5. QED
    BY <1>2, <1>3, <2>1, <2>4 DEF Left, w
<1>8. QED
  BY <1>5, <1>6, <1>7

LEMMA WheelInvInit == AllInit => WheelInv
<1> SUFFICES ASSUME AllInit PROVE WheelInv
  OBVIOUS
<1>1. PICK v \in Values : /\ item = [k \in Key |-> [pos |-> 0, circle |-> 0, diff |-> 0, value |-> v]]
                          /\ latest = [k \in Key |-> v]
  BY DEF AllInit, Timing!Init
<1>2. [pos |-> 0, circle |-> 0, diff |-> 0, value |-> v] \in WheelItem
  BY WheelSize DEF WheelItem
<1>3. item \in [Key -> WheelItem] /\ latest \in [Key -> Values]
  BY <1>1, <1>2
<1>4. tickedPos = NumSlots - 1 /\ timers = {} /\ owed = {} /\ fired = {} /\ due = [k \in Key |-> 0]
  BY DEF AllInit, Timing!Init
<1>5. tickedPos \in 0..(NumSlots - 1)
  BY <1>4, WheelSize
<1>6. due \in [Key -> Int]
  BY <1>4
<1>7. QED
  BY <1>3, <1>4, <1>5, <1>6 DEF WheelInv

\* Whatever sets or moves a key, its entry is at most a turn off.
LEMMA ScheduleInv ==
  ASSUME WheelInv, NEW k \in Key, NEW d \in Nat \ {0}, NEW e, NEW v,
         Timing!Schedule(k, d), item' = [item EXCEPT ![k] = e], e \in WheelItem, e.value = v, v \in Values,
         Left(tickedPos, e) - d \in Turns, latest' = [latest EXCEPT ![k] = v],
         timers' = timers \cup {k}, tickedPos' = tickedPos
  PROVE  WheelInv'
<1>1. owed' = owed \cup {k} /\ due' = [due EXCEPT ![k] = d] /\ fired' = {}
  BY DEF Timing!Schedule
<1>2. tickedPos' \in 0..(NumSlots - 1) /\ item' \in [Key -> WheelItem] /\ latest' \in [Key -> Values]
      /\ due' \in [Key -> Int]
  BY <1>1 DEF WheelInv
<1>3. timers' \subseteq Key /\ owed' \subseteq timers' /\ fired' \subseteq Key
  BY <1>1 DEF WheelInv
<1>4. \A j \in owed' : Left(tickedPos', item'[j]) - due'[j] \in Turns
  <2> SUFFICES ASSUME NEW j \in owed' PROVE Left(tickedPos', item'[j]) - due'[j] \in Turns
    OBVIOUS
  <2>1. CASE j = k
    <3>1. item'[j] = e /\ due'[j] = d
      BY <1>1, <2>1 DEF WheelInv
    <3>2. QED
      BY <3>1
  <2>2. CASE j # k
    <3>1. j \in owed /\ j \in Key
      BY <1>1, <1>3, <2>2
    <3>2. item'[j] = item[j] /\ due'[j] = due[j]
      BY <1>1, <2>2, <3>1 DEF WheelInv
    <3>3. QED
      BY <3>1, <3>2 DEF WheelInv
  <2>3. QED
    BY <2>1, <2>2
<1>5. \A j \in timers' : item'[j].value = latest'[j]
  BY DEF WheelInv
<1>6. QED
  BY <1>1, <1>2, <1>3, <1>4, <1>5 DEF WheelInv

LEMMA TickInv == WheelInv /\ Timing!Tick => WheelInv'
<1> SUFFICES ASSUME WheelInv, Timing!Tick PROVE WheelInv'
  OBVIOUS
<1> DEFINE p == (tickedPos + 1) % NumSlots
           fires == {k \in Key : Timing!Fires(k, p)}
<1>1. /\ tickedPos' = p /\ item' = [k \in Key |-> Timing!Scanned(k, p)]
      /\ timers' = timers \ fires /\ fired' = fires /\ owed' = owed \ fires
      /\ due' = [k \in Key |-> IF k \notin owed THEN 0
                                ELSE IF due[k] > Timing!Overdue THEN due[k] - 1 ELSE Timing!Overdue]
      /\ latest' = latest
  BY DEF Timing!Tick
<1>2. p \in 0..(NumSlots - 1)
  <2>1. tickedPos + 1 \in Nat
    BY DEF WheelInv
  <2>2. QED
    BY <2>1, WheelSize, DivMod
<1>3. /\ \A k \in timers : /\ Timing!Scanned(k, p) \in WheelItem /\ Timing!Scanned(k, p).value = item[k].value
                           /\ Timing!Fires(k, p) => Left(tickedPos, item[k]) = 1
                           /\ ~Timing!Fires(k, p) => Left(p, Timing!Scanned(k, p)) = Left(tickedPos, item[k]) - 1
      /\ \A k \in Key : k \notin timers => Timing!Scanned(k, p) = item[k] /\ ~Timing!Fires(k, p)
  <2>1. tickedPos \in 0..(NumSlots - 1) /\ \A k \in timers : item[k] \in WheelItem
    BY DEF WheelInv
  <2>2. ASSUME NEW k \in Key, k \notin timers
        PROVE  Timing!Scanned(k, p) = item[k] /\ ~Timing!Fires(k, p)
    BY <2>2 DEF Timing!Scanned, Timing!Fires, Timing!Arrives
  <2> HIDE DEF p
  <2>3. p = (tickedPos + 1) % NumSlots
    BY DEF p
  <2>4. QED
    BY <2>1, <2>2, <2>3, ScannedLeft
<1> HIDE DEF p
<1>4. item' \in [Key -> WheelItem] /\ due' \in [Key -> Int] /\ latest' \in [Key -> Values]
  <2>1. \A k \in Key : Timing!Scanned(k, p) \in WheelItem
    BY <1>3 DEF WheelInv
  <2>2. Timing!Overdue \in Int
    BY WheelSize DEF Timing!Overdue
  <2>3. \A k \in Key : due[k] \in Int
    BY DEF WheelInv
  <2>4. QED
    BY <1>1, <2>1, <2>2, <2>3 DEF WheelInv
<1>5. timers' \subseteq Key /\ owed' \subseteq timers' /\ fired' \subseteq Key
  BY <1>1 DEF WheelInv
<1>6. \A k \in owed : /\ k \in Key /\ k \in timers /\ due'[k] = due[k] - 1
                      /\ due[k] \in Int /\ Left(tickedPos, item[k]) \in Nat \ {0}
  <2> SUFFICES ASSUME NEW k \in owed
               PROVE  /\ k \in Key /\ k \in timers /\ due'[k] = due[k] - 1
                      /\ due[k] \in Int /\ Left(tickedPos, item[k]) \in Nat \ {0}
    OBVIOUS
  <2>1. k \in Key /\ k \in timers /\ due[k] \in Int /\ item[k] \in WheelItem /\ tickedPos \in 0..(NumSlots - 1)
        /\ Left(tickedPos, item[k]) - due[k] \in Turns
    BY DEF WheelInv
  <2>2. Left(tickedPos, item[k]) \in Nat \ {0}
    <3> DEFINE w == Way(tickedPos, item[k].pos)
               u == NumSlots * item[k].circle
               f == item[k].diff
    <3>1. w \in 1..NumSlots /\ f \in 0..(NumSlots - 1)
      BY <2>1, WayType DEF WheelItem
    <3>2. u \in Nat
      <4>1. item[k].circle \in Nat
        BY <2>1 DEF WheelItem
      <4>2. QED
        BY <4>1, WheelSize, Multiples
    <3>3. Left(tickedPos, item[k]) = (w + u) + f
      BY DEF Left
    <3> HIDE DEF w, u, f
    <3>4. QED
      BY <3>1, <3>2, <3>3, WheelSize
  <2>3. due[k] > Timing!Overdue
    <3> DEFINE l == Left(tickedPos, item[k])
    <3>1. l \in Nat \ {0} /\ l - due[k] \in Turns
      BY <2>1, <2>2
    <3> HIDE DEF l
    <3>2. QED
      BY <2>1, <3>1, WheelSize DEF Turns, Timing!Overdue
  <2>4. due'[k] = due[k] - 1
    BY <1>1, <2>1, <2>3
  <2>5. QED
    BY <2>1, <2>2, <2>4
<1>7. \A k \in owed' : Left(tickedPos', item'[k]) - due'[k] \in Turns
  <2> SUFFICES ASSUME NEW k \in owed' PROVE Left(tickedPos', item'[k]) - due'[k] \in Turns
    OBVIOUS
  <2> DEFINE l == Left(tickedPos, item[k])
  <2>1. k \in owed /\ ~Timing!Fires(k, p) /\ k \in Key
    BY <1>1, <1>6
  <2>2. Left(tickedPos', item'[k]) = l - 1
    BY <1>1, <1>3, <1>6, <2>1
  <2>3. l \in Nat /\ l - due[k] \in Turns /\ due[k] \in Int /\ due'[k] = due[k] - 1
    BY <1>6, <2>1 DEF WheelInv
  <2> HIDE DEF l
  <2>4. (l - 1) - (due[k] - 1) = l - due[k]
    BY <2>3
  <2>5. QED
    BY <2>2, <2>3, <2>4
<1>8. \A k \in fired' : due'[k] \in Turns
  <2> SUFFICES ASSUME NEW k \in fired' PROVE due'[k] \in Turns
    OBVIOUS
  <2>1. k \in Key /\ Timing!Fires(k, p) /\ k \in timers
    BY <1>1, <1>3
  <2>2. CASE k \notin owed
    BY <1>1, <2>1, <2>2 DEF Turns
  <2>3. CASE k \in owed
    <3>1. Left(tickedPos, item[k]) = 1 /\ Left(tickedPos, item[k]) - due[k] \in Turns
      BY <1>3, <2>1, <2>3 DEF WheelInv
    <3>2. 1 - due[k] \in Turns /\ due[k] \in Int /\ due'[k] = due[k] - 1
      BY <1>6, <2>3, <3>1
    <3>3. QED
      BY <3>2, WheelSize DEF Turns
  <2>4. QED
    BY <2>2, <2>3
<1>9. \A k \in timers' : item'[k].value = latest'[k]
  <2> SUFFICES ASSUME NEW k \in timers' PROVE item'[k].value = latest'[k]
    OBVIOUS
  <2>1. k \in timers /\ k \in Key
    BY <1>1, <1>5
  <2>2. QED
    BY <1>1, <1>3, <2>1 DEF WheelInv
<1>10. QED
  BY <1>1, <1>2, <1>4, <1>5, <1>7, <1>8, <1>9 DEF WheelInv

LEMMA WheelInvStep == WheelInv /\ [Timing!Next]_wheelVars => WheelInv'
<1> SUFFICES ASSUME WheelInv, [Timing!Next]_wheelVars PROVE WheelInv'
  OBVIOUS
<1>1. CASE Timing!Tick
  BY <1>1, TickInv
<1>2. CASE Timing!Drain
  <2>1. timers' = {} /\ owed' = {} /\ fired' = {} /\ due' \in [Key -> Int] /\ UNCHANGED <<tickedPos, item, latest>>
    BY <1>2 DEF Timing!Drain
  <2>2. QED
    BY <2>1 DEF WheelInv
<1>3. CASE Timing!Stop \/ Timing!RunReturns \/ UNCHANGED wheelVars
  <2>1. UNCHANGED <<tickedPos, timers, item, fired, owed, due, latest>>
    BY <1>3 DEF Timing!Stop, Timing!RunReturns, Timing!ghosts, wheelVars
  <2>2. QED
    BY <2>1 DEF WheelInv
<1>4. ASSUME NEW k \in Key, Timing!RemoveTimer(k) PROVE WheelInv'
  <2>1. /\ timers' = timers \ {k} /\ owed' = owed \ {k} /\ due' = [due EXCEPT ![k] = 0] /\ fired' = {}
        /\ UNCHANGED <<tickedPos, item, latest>>
    BY <1>4 DEF Timing!RemoveTimer
  <2>2. due' \in [Key -> Int] /\ \A j \in owed' : due'[j] = due[j]
    BY <2>1 DEF WheelInv
  <2>3. QED
    BY <2>1, <2>2 DEF WheelInv
<1>5. ASSUME NEW k \in Key, NEW d \in 0..MaxDelay, Timing!MoveTimer(k, d) PROVE WheelInv'
  <2>1. k \in timers /\ timers' = timers /\ tickedPos' = tickedPos /\ latest' = latest /\ item[k] \in WheelItem
    BY <1>5 DEF Timing!MoveTimer, WheelInv
  <2>2. CASE d = 0
    <3>1. fired' = {k} /\ owed' = owed \ {k} /\ due' = [due EXCEPT ![k] = 0] /\ item' = item
      BY <1>5, <2>2 DEF Timing!MoveTimer, Timing!ExecuteNow
    <3>2. due' \in [Key -> Int] /\ due'[k] \in Turns /\ \A j \in owed' : due'[j] = due[j]
      BY <3>1 DEF WheelInv, Turns
    <3>3. QED
      BY <2>1, <3>1, <3>2 DEF WheelInv
  <2>3. CASE d # 0
    <3> DEFINE e == Timing!Moved(item[k], d)
    <3>1. item' = [item EXCEPT ![k] = e] /\ Timing!Schedule(k, d)
      BY <1>5, <2>3 DEF Timing!MoveTimer, Timing!MoveTask
    <3>2. d \in Nat \ {0} /\ tickedPos \in 0..(NumSlots - 1)
      BY <2>3, CollectionConstants DEF WheelInv
    <3>3. e \in WheelItem /\ e.value = item[k].value /\ Left(tickedPos, e) - d \in Turns
      BY <2>1, <3>2, MovedLeft
    <3>4. latest' = [latest EXCEPT ![k] = item[k].value] /\ item[k].value \in Values /\ timers' = timers \cup {k}
      BY <2>1 DEF WheelInv, WheelItem
    <3> HIDE DEF e
    <3>5. QED
      BY <2>1, <3>1, <3>2, <3>3, <3>4, ScheduleInv
  <2>4. QED
    BY <2>2, <2>3
<1>6. ASSUME NEW k \in Key, NEW d \in 0..MaxDelay, NEW v \in Values, Timing!SetTimer(k, v, d) PROVE WheelInv'
  <2> DEFINE n == IF d = 0 THEN 1 ELSE d
             e == IF k \in timers THEN Timing!Moved([item[k] EXCEPT !.value = v], n)
                  ELSE [pos |-> Timing!Position(n), circle |-> Timing!Circle(n), diff |-> 0, value |-> v]
  <2>1. n \in Nat \ {0} /\ tickedPos \in 0..(NumSlots - 1) /\ item[k] \in WheelItem
    BY CollectionConstants DEF WheelInv
  <2>2. Timing!SetTask(k, v, n)
    BY <1>6 DEF Timing!SetTimer
  <2> HIDE DEF n
  <2>3. /\ item' = [item EXCEPT ![k] = e] /\ Timing!Schedule(k, n) /\ tickedPos' = tickedPos
        /\ latest' = [latest EXCEPT ![k] = v] /\ timers' = timers \cup {k}
    BY <2>2 DEF Timing!SetTask
  <2>4. e \in WheelItem /\ e.value = v /\ Left(tickedPos, e) - n \in Turns
    <3>1. CASE k \in timers
      <4>1. [item[k] EXCEPT !.value = v] \in WheelItem /\ [item[k] EXCEPT !.value = v].value = v
        BY <2>1 DEF WheelItem
      <4>2. QED
        BY <2>1, <3>1, <4>1, MovedLeft
    <3>2. CASE k \notin timers
      <4> DEFINE f == [pos |-> (tickedPos + n) % NumSlots, circle |-> (n - 1) \div NumSlots, diff |-> 0, value |-> v]
      <4>1. e = f
        BY <3>2 DEF Timing!Position, Timing!Circle
      <4>2. f \in WheelItem /\ Left(tickedPos, f) = n
        BY <2>1, PlacedLeft
      <4>3. n - n = 0 /\ f.value = v
        BY <2>1
      <4> HIDE DEF e, f
      <4>4. QED
        BY <4>1, <4>2, <4>3 DEF Turns
    <3>3. QED
      BY <3>1, <3>2
  <2> HIDE DEF e
  <2>5. QED
    BY <2>1, <2>3, <2>4, ScheduleInv
<1>7. QED
  BY <1>1, <1>2, <1>3, <1>4, <1>5, <1>6 DEF Timing!Next

LEMMA WheelInvHolds == WheelInv => Timing!WithinOneTurn /\ Timing!CarriesLatestValue
<1> SUFFICES ASSUME WheelInv PROVE Timing!WithinOneTurn /\ Timing!CarriesLatestValue
  OBVIOUS
<1>1. ASSUME NEW k \in owed PROVE Timing!Remaining(k) = Left(tickedPos, item[k])
  BY DEF Timing!Remaining, Timing!ToSlot, Left, Way
<1>2. Timing!WithinOneTurn
  BY <1>1 DEF WheelInv, Timing!WithinOneTurn, Turns
<1>3. Timing!CarriesLatestValue
  BY DEF WheelInv, Timing!CarriesLatestValue
<1>4. QED
  BY <1>2, <1>3

-----------------------------------------------------------------------------
(* ExpiringCache.                                                          *)

\* A list of keys, each once.
KeyList(s) ==
    s \in Seq(Keys) /\ \A i, j \in 1..Len(s) : s[i] = s[j] => i = j

Members(s) == {s[i] : i \in 1..Len(s)}

\* The place of a listed key, which RemoveFirst finds.
LEMMA PlaceFound ==
  ASSUME NEW s, KeyList(s), NEW j \in 1..Len(s), NEW k, s[j] = k
  PROVE  {i \in 1..Len(s) : s[i] = k} # {} /\ LRU!Min({i \in 1..Len(s) : s[i] = k}) = j
<1> DEFINE I == {i \in 1..Len(s) : s[i] = k}
<1>1. Len(s) \in Nat
  BY DEF KeyList
<1>2. I = {j}
  BY <1>1 DEF KeyList
<1>3. LRU!Min({j}) = j
  <2>1. \A x \in {j} : (\A y \in {j} : x =< y) <=> x = j
    BY <1>1
  <2>2. \E x \in {j} : \A y \in {j} : x =< y
    BY <2>1
  <2>3. QED
    BY <2>2 DEF LRU!Min
<1>4. QED
  BY <1>2, <1>3, Zenon

\* Taking the key at j out of the list.
LEMMA WithoutPlace ==
  ASSUME NEW s, KeyList(s), NEW j \in 1..Len(s)
  PROVE  LET r == SubSeq(s, 1, j - 1) \o SubSeq(s, j + 1, Len(s))
         IN  /\ r \in Seq(Keys) /\ Len(r) = Len(s) - 1
             /\ \A i \in 1..(Len(s) - 1) : r[i] = s[IF i < j THEN i ELSE i + 1]
<1> DEFINE n == Len(s)
           a == SubSeq(s, 1, j - 1)
           b == SubSeq(s, j + 1, n)
<1>1. s \in Seq(Keys) /\ n \in Nat
  BY DEF KeyList
<1>2. a \in Seq(Keys) /\ Len(a) = j - 1 /\ \A i \in 1..(j - 1) : a[i] = s[i]
  BY <1>1
<1>3. b \in Seq(Keys) /\ Len(b) = n - j /\ \A i \in 1..(n - j) : b[i] = s[j + i]
  BY <1>1
<1>4. /\ a \o b \in Seq(Keys) /\ Len(a \o b) = Len(a) + Len(b)
      /\ \A i \in 1..(Len(a) + Len(b)) : (a \o b)[i] = IF i <= Len(a) THEN a[i] ELSE b[i - Len(a)]
  BY <1>2, <1>3, ConcatProperties
<1>5. \A i \in 1..(n - 1) : (a \o b)[i] = s[IF i < j THEN i ELSE i + 1]
  <2> SUFFICES ASSUME NEW i \in 1..(n - 1) PROVE (a \o b)[i] = s[IF i < j THEN i ELSE i + 1]
    OBVIOUS
  <2> HIDE DEF a, b, n
  <2>0. (j - 1) + (n - j) = n - 1
    BY <1>1
  <2>1. CASE i < j
    BY <2>0, <2>1, <1>1, <1>2, <1>3, <1>4
  <2>2. CASE ~(i < j)
    <3>1. i - (j - 1) \in 1..(n - j) /\ j + (i - (j - 1)) = i + 1 /\ ~(i <= j - 1)
      BY <2>2, <1>1
    <3>2. (a \o b)[i] = b[i - (j - 1)]
      BY <3>1, <2>0, <1>1, <1>2, <1>3, <1>4
    <3>3. QED
      BY <3>1, <3>2, <1>3, <2>2
  <2>3. QED
    BY <2>1, <2>2
<1>6. Len(a \o b) = n - 1
  <2> HIDE DEF a, b, n
  <2>1. QED
    BY <1>1, <1>2, <1>3, <1>4
<1>7. QED
  BY <1>4, <1>5, <1>6, Zenon

\* RemoveFirst takes the key out and keeps the others, each once.
LEMMA RemovedKey ==
  ASSUME NEW s, KeyList(s), NEW k
  PROVE  LET r == LRU!RemoveFirst(s, k)
         IN  /\ KeyList(r) /\ Members(r) = Members(s) \ {k}
             /\ Len(r) = IF k \in Members(s) THEN Len(s) - 1 ELSE Len(s)
<1>1. CASE k \notin Members(s)
  <2>1. ~\E i \in 1..Len(s) : s[i] = k
    BY <1>1 DEF Members
  <2>2. LRU!RemoveFirst(s, k) = s
    BY <2>1, Zenon DEF LRU!RemoveFirst
  <2>3. QED
    BY <1>1, <2>2
<1>2. CASE k \in Members(s)
  <2>1. PICK j \in 1..Len(s) : s[j] = k
    BY <1>2 DEF Members
  <2> DEFINE n == Len(s)
             r == SubSeq(s, 1, j - 1) \o SubSeq(s, j + 1, n)
  <2>2. LRU!RemoveFirst(s, k) = r
    <3>1. {i \in 1..Len(s) : s[i] = k} # {} /\ LRU!Min({i \in 1..Len(s) : s[i] = k}) = j
      BY <2>1, PlaceFound
    <3>2. LRU!RemoveFirst(s, k) = LRU!RemoveAt(s, LRU!Min({i \in 1..Len(s) : s[i] = k}))
      BY <2>1, <3>1, Zenon DEF LRU!RemoveFirst, LRU!SelectInSeq
    <3>3. QED
      BY <3>1, <3>2, Zenon DEF LRU!RemoveAt
  <2>3. /\ r \in Seq(Keys) /\ Len(r) = n - 1
        /\ \A i \in 1..(n - 1) : r[i] = s[IF i < j THEN i ELSE i + 1]
    BY WithoutPlace
  <2>4. n \in Nat /\ \A i, l \in 1..n : s[i] = s[l] => i = l
    BY DEF KeyList
  <2> HIDE DEF r, n
  <2>5. \A i, l \in 1..(n - 1) : r[i] = r[l] => i = l
    <3> SUFFICES ASSUME NEW i \in 1..(n - 1), NEW l \in 1..(n - 1), r[i] = r[l] PROVE i = l
      OBVIOUS
    <3> DEFINE u == IF i < j THEN i ELSE i + 1
               v == IF l < j THEN l ELSE l + 1
    <3>1. u \in 1..n /\ v \in 1..n /\ (u = v => i = l)
      BY <2>4
    <3>2. s[u] = s[v]
      BY <2>3
    <3> HIDE DEF u, v
    <3>3. QED
      BY <2>4, <3>1, <3>2
  <2>6. Members(r) = Members(s) \ {k}
    <3>1. ASSUME NEW x \in Members(r) PROVE x \in Members(s) /\ x # k
      <4>1. PICK i \in 1..(n - 1) : x = r[i]
        BY <2>3 DEF Members
      <4> DEFINE l == IF i < j THEN i ELSE i + 1
      <4>2. x = s[l] /\ l \in 1..n /\ l # j
        BY <4>1, <2>3, <2>4
      <4>3. QED
        BY <4>2, <2>1, <2>4 DEF Members, n
    <3>2. ASSUME NEW x \in Members(s), x # k PROVE x \in Members(r)
      <4>1. PICK l \in 1..n : x = s[l]
        BY DEF Members, n
      <4>2. l # j
        BY <4>1, <3>2, <2>1
      <4> DEFINE i == IF l < j THEN l ELSE l - 1
      <4>3. i \in 1..(n - 1) /\ (IF i < j THEN i ELSE i + 1) = l
        BY <4>2, <2>4, <2>1 DEF n
      <4>4. x = r[i]
        BY <4>1, <4>3, <2>3
      <4>5. QED
        BY <4>3, <4>4, <2>3 DEF Members
    <3>3. QED
      BY <3>1, <3>2
  <2>7. KeyList(r)
    BY <2>3, <2>5 DEF KeyList
  <2>8. QED
    BY <1>2, <2>2, <2>3, <2>6, <2>7 DEF n
<1>3. QED
  BY <1>1, <1>2

\* The key moves to the front, or is new there.
LEMMA TouchedKey ==
  ASSUME NEW s, KeyList(s), NEW k \in Keys
  PROVE  LET t == <<k>> \o LRU!RemoveFirst(s, k)
         IN  /\ KeyList(t) /\ Members(t) = Members(s) \cup {k}
             /\ Len(t) = IF k \in Members(s) THEN Len(s) ELSE Len(s) + 1
<1> DEFINE r == LRU!RemoveFirst(s, k)
           t == <<k>> \o r
           m == Len(r)
<1>1. /\ KeyList(r) /\ Members(r) = Members(s) \ {k}
      /\ m = IF k \in Members(s) THEN Len(s) - 1 ELSE Len(s)
  BY RemovedKey
<1> HIDE DEF r, m
<1>2. r \in Seq(Keys) /\ Len(s) \in Nat /\ m \in Nat /\ m = Len(r)
  BY <1>1 DEF KeyList, m
<1>3. <<k>> \in Seq(Keys) /\ Len(<<k>>) = 1 /\ <<k>>[1] = k
  OBVIOUS
<1>4. /\ t \in Seq(Keys) /\ Len(t) = 1 + m
      /\ \A i \in 1..(1 + m) : t[i] = IF i <= 1 THEN <<k>>[i] ELSE r[i - 1]
  BY <1>2, <1>3, ConcatProperties
<1> HIDE DEF t
<1>5. t[1] = k /\ \A i \in 2..(m + 1) : i - 1 \in 1..m /\ t[i] = r[i - 1]
  BY <1>2, <1>3, <1>4
<1>6. \A i \in 1..m : r[i] # k /\ r[i] = t[i + 1]
  <2>1. \A i \in 1..m : r[i] \in Members(r)
    BY <1>2 DEF Members
  <2>2. \A i \in 1..m : i + 1 \in 2..(m + 1) /\ (i + 1) - 1 = i
    BY <1>2
  <2>3. QED
    BY <2>1, <2>2, <1>1, <1>5
<1>7. \A i, j \in 1..(m + 1) : t[i] = t[j] => i = j
  <2>1. \A i, j \in 1..m : r[i] = r[j] => i = j
    BY <1>1, <1>2 DEF KeyList
  <2>2. QED
    BY <2>1, <1>2, <1>5, <1>6
<1>8. Members(t) = Members(s) \cup {k}
  <2>1. Members(t) = Members(r) \cup {k}
    <3>1. \A x \in Members(t) : x \in Members(r) \cup {k}
      BY <1>2, <1>4, <1>5 DEF Members
    <3>2. k \in Members(t)
      BY <1>2, <1>4, <1>5 DEF Members
    <3>3. \A x \in Members(r) : x \in Members(t)
      <4>1. \A i \in 1..m : i + 1 \in 1..Len(t)
        BY <1>2, <1>4
      <4>2. QED
        BY <4>1, <1>2, <1>6 DEF Members
    <3>4. QED
      BY <3>1, <3>2, <3>3
  <2>2. QED
    BY <2>1, <1>1
<1>9. KeyList(t)
  BY <1>4, <1>7, <1>2 DEF KeyList
<1>10. Len(t) = IF k \in Members(s) THEN Len(s) ELSE Len(s) + 1
  BY <1>1, <1>2, <1>4
<1>11. QED
  BY <1>8, <1>9, <1>10 DEF t, r

\* Dropping the last key of the list.
LEMMA DroppedLast ==
  ASSUME NEW s, KeyList(s), Len(s) > 0
  PROVE  /\ KeyList(LRU!Front(s)) /\ Members(LRU!Front(s)) = Members(s) \ {LRU!Last(s)}
         /\ Len(LRU!Front(s)) = Len(s) - 1 /\ LRU!Last(s) \in Keys
<1> DEFINE n == Len(s)
           f == SubSeq(s, 1, n - 1)
<1>1. s \in Seq(Keys) /\ n \in Nat \ {0} /\ \A i, j \in 1..n : s[i] = s[j] => i = j
  BY DEF KeyList
<1>2. f \in Seq(Keys) /\ Len(f) = n - 1 /\ \A i \in 1..(n - 1) : f[i] = s[i]
  <2>1. n - 1 \in 0..n /\ \A i \in 1..(n - 1) : 1 + i - 1 = i
    BY <1>1
  <2>2. f \in Seq(Keys) /\ Len(f) = IF 1 <= n - 1 THEN (n - 1) - 1 + 1 ELSE 0
    BY <1>1, <2>1, SubSeqProperties
  <2>5. n \in Nat \ {0} => (IF 1 <= n - 1 THEN (n - 1) - 1 + 1 ELSE 0) = n - 1
    <3> HIDE DEF n
    <3>1. QED
      OBVIOUS
  <2>3. \A i \in 1..(n - 1) : f[i] = s[i]
    BY <1>1, <2>1, SubSeqProperties
  <2>4. QED
    BY <1>1, <2>2, <2>3, <2>5, Zenon
<1>3. LRU!Front(s) = f /\ LRU!Last(s) = s[n] /\ s[n] \in Keys
  BY <1>1 DEF LRU!Front, LRU!Last
<1> HIDE DEF f
<1>4. KeyList(f)
  <2> HIDE DEF n
  <2>1. QED
    BY <1>1, <1>2 DEF KeyList
<1>5. Members(f) = Members(s) \ {s[n]}
  <2>1. \A x \in Members(f) : x \in Members(s) /\ x # s[n]
    BY <1>1, <1>2 DEF Members
  <2>2. \A x \in Members(s) : x # s[n] => x \in Members(f)
    BY <1>1, <1>2 DEF Members
  <2>3. QED
    BY <2>1, <2>2
<1>6. QED
  BY <1>2, <1>3, <1>4, <1>5

\* An actor in these phases is in a call.
Busy == {"lock", "evict", "timer"}

\* The list has the cached keys, each once, and room; calls are about keys.
LruInv ==
    /\ KeyList(evicts) /\ Members(evicts) = data /\ Len(evicts) <= CacheLimit
    /\ actor \in [LRU!Actors -> LRU!Phase] /\ op \in [LRU!Actors -> LRU!Op]
    /\ \A x \in LRU!Actors : actor[x] \in Busy => op[x] # LRU!NoOp
    /\ keyTimers \in SUBSET Keys

LEMMA LruInvInit == AllInit => LruInv
<1> SUFFICES ASSUME AllInit PROVE LruInv
  OBVIOUS
<1>1. LRU!Init
  BY DEF AllInit
<1>2. KeyList(evicts) /\ Members(evicts) = data /\ Len(evicts) <= CacheLimit
  BY <1>1, CollectionConstants DEF LRU!Init, KeyList, Members
<1>3. actor \in [LRU!Actors -> LRU!Phase] /\ op \in [LRU!Actors -> LRU!Op]
  BY <1>1 DEF LRU!Init, LRU!Phase, LRU!Op
<1>4. QED
  BY <1>1, <1>2, <1>3 DEF LruInv, LRU!Init, Busy

LEMMA OpRecord ==
  ASSUME NEW o \in LRU!Op, o # LRU!NoOp
  PROVE  /\ o.key \in Keys /\ o.victim \in Keys
         /\ \A x \in {"set", "move"}, v \in Keys :
               [o EXCEPT !.kind = x, !.victim = v] \in LRU!Op
               /\ [o EXCEPT !.kind = x, !.victim = v] # LRU!NoOp
<1>1. o \in [kind : {"set", "move", "del"}, key : Keys, victim : Keys]
  BY DEF LRU!Op
<1>2. \A x \in {"set", "move"}, v \in Keys :
        [o EXCEPT !.kind = x, !.victim = v] \in [kind : {"set", "move", "del"}, key : Keys, victim : Keys]
  BY <1>1
<1>3. \A r \in [kind : {"set", "move", "del"}, key : Keys, victim : Keys] : r \in LRU!Op /\ r # LRU!NoOp
  BY DEF LRU!Op, LRU!NoOp
<1>4. QED
  BY <1>1, <1>2, <1>3


\* What the list and the map become in a critical section.
Listed(s, d) == KeyList(s) /\ Members(s) = d /\ Len(s) <= CacheLimit

LEMMA ListedTouched ==
  ASSUME NEW s, NEW d, Listed(s, d), NEW k \in d
  PROVE  Listed(<<k>> \o LRU!RemoveFirst(s, k), d)
<1>1. k \in Keys /\ k \in Members(s)
  BY DEF Listed, Members, KeyList
<1>2. LET t == <<k>> \o LRU!RemoveFirst(s, k)
      IN  KeyList(t) /\ Members(t) = Members(s) \cup {k} /\ Len(t) = Len(s)
  BY <1>1, TouchedKey DEF Listed
<1>3. QED
  BY <1>1, <1>2 DEF Listed

\* Set: the key first, and the last evicted when the list has grown too long.
LEMMA ListedSet ==
  ASSUME NEW s, NEW d, Listed(s, d), NEW k \in Keys
  PROVE  LET t == <<k>> \o LRU!RemoveFirst(s, k)
         IN  /\ Len(t) > CacheLimit => /\ Listed(LRU!Front(t), (d \cup {k}) \ {LRU!Last(t)})
                                       /\ LRU!Last(t) \in Keys
             /\ ~(Len(t) > CacheLimit) => Listed(t, d \cup {k})
<1> DEFINE t == <<k>> \o LRU!RemoveFirst(s, k)
<1>1. KeyList(t) /\ Members(t) = d \cup {k} /\ Len(t) <= CacheLimit + 1 /\ Len(t) \in Nat
  <2>1. KeyList(t) /\ Members(t) = Members(s) \cup {k}
        /\ Len(t) = IF k \in Members(s) THEN Len(s) ELSE Len(s) + 1
    BY TouchedKey DEF Listed
  <2>2. Len(s) \in Nat /\ Len(s) <= CacheLimit /\ CacheLimit \in Nat
    BY CollectionConstants DEF Listed, KeyList
  <2> HIDE DEF t
  <2>3. QED
    BY <2>1, <2>2 DEF Listed
<1> HIDE DEF t
<1>2. CASE Len(t) > CacheLimit
  <2>1. Len(t) > 0 /\ Len(t) - 1 <= CacheLimit
    BY <1>1, <1>2, CollectionConstants
  <2>2. /\ KeyList(LRU!Front(t)) /\ Members(LRU!Front(t)) = Members(t) \ {LRU!Last(t)}
        /\ Len(LRU!Front(t)) = Len(t) - 1 /\ LRU!Last(t) \in Keys
    BY <1>1, <2>1, DroppedLast
  <2>3. Listed(LRU!Front(t), (d \cup {k}) \ {LRU!Last(t)})
    BY <1>1, <2>1, <2>2 DEF Listed
  <2>4. QED
    BY <1>2, <2>2, <2>3 DEF t
<1>3. CASE ~(Len(t) > CacheLimit)
  <2>1. Listed(t, d \cup {k})
    BY <1>1, <1>3, CollectionConstants DEF Listed
  <2>2. QED
    BY <1>3, <2>1 DEF t
<1>4. QED
  BY <1>2, <1>3

\* Del: the key taken out of both.
LEMMA ListedDel ==
  ASSUME NEW s, NEW d, Listed(s, d), NEW k
  PROVE  Listed(LRU!RemoveFirst(s, k), d \ {k})
<1>1. LET r == LRU!RemoveFirst(s, k)
      IN  /\ KeyList(r) /\ Members(r) = Members(s) \ {k}
          /\ Len(r) = IF k \in Members(s) THEN Len(s) - 1 ELSE Len(s)
  BY RemovedKey DEF Listed
<1>2. Len(s) \in Nat /\ Len(s) <= CacheLimit /\ CacheLimit \in Nat
  BY CollectionConstants DEF Listed, KeyList
<1>3. QED
  BY <1>1, <1>2 DEF Listed

\* The calls under way.
Calling(p, o) ==
    /\ p \in [LRU!Actors -> LRU!Phase] /\ o \in [LRU!Actors -> LRU!Op]
    /\ \A x \in LRU!Actors : p[x] \in Busy => o[x] # LRU!NoOp

LEMMA CallMoves ==
  ASSUME NEW p, NEW o, Calling(p, o), NEW x \in LRU!Actors
  PROVE  /\ \A l \in {"idle", "gone"}, r \in LRU!Op : Calling([p EXCEPT ![x] = l], [o EXCEPT ![x] = r])
         /\ \A l \in {"idle", "gone"} : Calling([p EXCEPT ![x] = l], o)
         /\ \A l \in Busy, r \in LRU!Op \ {LRU!NoOp} : Calling([p EXCEPT ![x] = l], [o EXCEPT ![x] = r])
         /\ \A l \in Busy : p[x] \in Busy => Calling([p EXCEPT ![x] = l], o)
<1>1. LRU!Phase = {"idle", "gone"} \cup Busy /\ {"idle", "gone"} \cap Busy = {}
  BY DEF LRU!Phase, Busy
<1>2. QED
  BY <1>1 DEF Calling

LEMMA BeginCalls ==
  ASSUME Calling(actor, op), NEW x \in LRU!Actors, NEW y \in {"set", "del"}, NEW k \in Keys,
         LRU!Begin(x, y, k)
  PROVE  Calling(actor, op)'
<1> DEFINE r == [kind |-> y, key |-> k, victim |-> k]
<1>1. r \in LRU!Op \ {LRU!NoOp}
  <2>1. r \in [kind : {"set", "move", "del"}, key : Keys, victim : Keys]
    OBVIOUS
  <2>2. \A z \in [kind : {"set", "move", "del"}, key : Keys, victim : Keys] : z \in LRU!Op /\ z # LRU!NoOp
    BY DEF LRU!Op, LRU!NoOp
  <2>3. QED
    BY <2>1, <2>2
<1>2. actor' = [actor EXCEPT ![x] = "lock"] /\ op' = [op EXCEPT ![x] = r]
  BY DEF LRU!Begin
<1> HIDE DEF r
<1>3. Calling(actor', op')
  BY <1>1, <1>2, CallMoves DEF Busy
<1>4. QED
  BY <1>3 DEF Calling

LEMMA SetInv ==
  ASSUME LruInv, NEW x \in LRU!Actors, actor[x] = "lock", LRU!SetLocked(x)
  PROVE  Listed(evicts, data)' /\ Calling(actor, op)'
<1> DEFINE k == op[x].key
           t == <<k>> \o LRU!RemoveFirst(evicts, k)
           o == op[x]
<1>1. o \in LRU!Op /\ o # LRU!NoOp /\ k \in Keys
  BY OpRecord DEF LruInv, Busy
<1>2. Listed(evicts, data) /\ Calling(actor, op)
  BY DEF LruInv, Listed, Calling
<1>3. t = LRU!Touched(k)
  BY DEF LRU!Touched
<1>4. CASE Len(t) > CacheLimit
  <2>1. Listed(LRU!Front(t), (data \cup {k}) \ {LRU!Last(t)}) /\ LRU!Last(t) \in Keys
    BY <1>1, <1>2, <1>4, ListedSet
  <2>2. /\ evicts' = LRU!Front(t) /\ data' = (data \cup {k}) \ {LRU!Last(t)}
        /\ actor' = [actor EXCEPT ![x] = "evict"]
    BY <1>3, <1>4 DEF LRU!SetLocked, LRU!Evict
  <2>3. PICK y \in {"set", "move"} : y = IF k \in data THEN "move" ELSE "set"
    OBVIOUS
  <2>4. op' = [op EXCEPT ![x] = [o EXCEPT !.kind = y, !.victim = LRU!Last(t)]]
    <3>1. op' = [op EXCEPT ![x].kind = y, ![x].victim = LRU!Last(t)]
      BY <2>3, <1>3, <1>4, Zenon DEF LRU!SetLocked
    <3>2. QED
      BY <3>1, <1>2 DEF Calling
  <2>5. "evict" \in Busy
    BY DEF Busy
  <2>6. [o EXCEPT !.kind = y, !.victim = LRU!Last(t)] \in LRU!Op \ {LRU!NoOp}
    BY <1>1, <2>1, OpRecord
  <2>7. Calling(actor', op')
    BY <1>2, <2>2, <2>4, <2>5, <2>6, CallMoves
  <2>8. Listed(evicts', data')
    BY <2>1, <2>2
  <2>9. QED
    BY <2>7, <2>8 DEF Listed, Calling, KeyList, Members
<1>5. CASE ~(Len(t) > CacheLimit)
  <2>1. Listed(t, data \cup {k})
    BY <1>1, <1>2, <1>5, ListedSet
  <2>2. /\ evicts' = t /\ data' = data \cup {k}
        /\ actor' = [actor EXCEPT ![x] = "timer"]
    BY <1>3, <1>5 DEF LRU!SetLocked, LRU!NoEvict
  <2>3. PICK y \in {"set", "move"} : y = IF k \in data THEN "move" ELSE "set"
    OBVIOUS
  <2>4. op' = [op EXCEPT ![x] = [o EXCEPT !.kind = y, !.victim = k]]
    <3>1. op' = [op EXCEPT ![x].kind = y, ![x].victim = k]
      BY <2>3, <1>3, <1>5, Zenon DEF LRU!SetLocked
    <3>2. QED
      BY <3>1, <1>2 DEF Calling
  <2>5. "timer" \in Busy
    BY DEF Busy
  <2>6. [o EXCEPT !.kind = y, !.victim = k] \in LRU!Op \ {LRU!NoOp}
    BY <1>1, OpRecord
  <2>7. Calling(actor', op')
    BY <1>2, <2>2, <2>4, <2>5, <2>6, CallMoves
  <2>8. Listed(evicts', data')
    BY <2>1, <2>2
  <2>9. QED
    BY <2>7, <2>8 DEF Listed, Calling, KeyList, Members
<1>6. QED
  BY <1>4, <1>5

LEMMA DelInv ==
  ASSUME LruInv, NEW x \in LRU!Actors, actor[x] = "lock", LRU!DelLocked(x)
  PROVE  Listed(evicts, data)' /\ Calling(actor, op)'
<1> DEFINE k == op[x].key
<1>1. Listed(evicts, data) /\ Calling(actor, op)
  BY DEF LruInv, Listed, Calling
<1>2. evicts' = LRU!RemoveFirst(evicts, k) /\ data' = data \ {k} /\ op' = op
  BY DEF LRU!DelLocked
<1>3. PICK l \in {"evict", "timer"} : actor' = [actor EXCEPT ![x] = l]
  BY DEF LRU!DelLocked, LRU!Evict, LRU!NoEvict
<1>4. l \in Busy /\ actor[x] \in Busy
  BY DEF Busy
<1>5. Calling(actor', op')
  BY <1>1, <1>2, <1>3, <1>4, CallMoves
<1>6. Listed(evicts', data')
  BY <1>1, <1>2, ListedDel
<1>7. QED
  BY <1>5, <1>6 DEF Listed, Calling, KeyList, Members

LEMMA LruInvStep == LruInv /\ [LRU!Next]_lruVars => LruInv'
<1> SUFFICES ASSUME LruInv, [LRU!Next]_lruVars PROVE LruInv'
  OBVIOUS
<1>0. Listed(evicts, data) /\ Calling(actor, op) /\ keyTimers \in SUBSET Keys
  BY DEF LruInv, Listed, Calling
<1>a. Listed(evicts, data)' /\ Calling(actor, op)' /\ (keyTimers \in SUBSET Keys)' => LruInv'
  BY DEF LruInv, Listed, Calling
<1>b. evicts' = evicts /\ data' = data => Listed(evicts, data)'
  BY <1>0 DEF Listed, KeyList, Members
<1>c. \A x \in LRU!Actors, l \in {"idle", "gone"} \cup Busy :
        /\ actor' = [actor EXCEPT ![x] = l]
        /\ \/ l \notin Busy /\ op' = [op EXCEPT ![x] = LRU!NoOp]
           \/ (l \notin Busy \/ actor[x] \in Busy) /\ op' = op
        => Calling(actor, op)'
  <2> SUFFICES ASSUME NEW x \in LRU!Actors, NEW l \in {"idle", "gone"} \cup Busy,
                      actor' = [actor EXCEPT ![x] = l],
                      \/ l \notin Busy /\ op' = [op EXCEPT ![x] = LRU!NoOp]
                      \/ (l \notin Busy \/ actor[x] \in Busy) /\ op' = op
               PROVE  Calling(actor, op)'
    OBVIOUS
  <2>1. LRU!NoOp \in LRU!Op
    BY DEF LRU!Op
  <2>2. Calling([actor EXCEPT ![x] = l], op')
    <3>1. CASE l \notin Busy /\ op' = [op EXCEPT ![x] = LRU!NoOp]
      BY <1>0, <2>1, <3>1, CallMoves
    <3>2. CASE l \notin Busy /\ op' = op
      BY <1>0, <3>2, CallMoves
    <3>3. CASE l \in Busy /\ actor[x] \in Busy /\ op' = op
      BY <1>0, <3>3, CallMoves
    <3>4. QED
      BY <3>1, <3>2, <3>3, Zenon
  <2>3. QED
    BY <2>2 DEF Calling
<1>d. Busy = {"lock", "evict", "timer"}
  BY DEF Busy
<1>e. Clients \subseteq LRU!Actors /\ Wheel \in LRU!Actors
  BY DEF LRU!Actors
<1>1. ASSUME NEW x \in Clients, LRU!Call(x) PROVE LruInv'
  <2>1. PICK k \in Keys, y \in {"set", "del"} : LRU!Begin(x, y, k)
    BY <1>1 DEF LRU!Call
  <2>2. Calling(actor, op)'
    BY <1>0, <1>e, <2>1, BeginCalls
  <2>3. QED
    BY <1>0, <1>a, <1>b, <1>1, <2>2 DEF LRU!Call
<1>2. ASSUME NEW k \in Keys, LRU!Get(k) PROVE LruInv'
  <2>1. Listed(evicts', data')
    BY <1>0, <1>2, ListedTouched DEF LRU!Get, LRU!Touched
  <2>2. QED
    BY <1>0, <1>a, <1>2, <2>1 DEF LRU!Get, Listed, KeyList, Members, Calling
<1>3. ASSUME NEW x \in LRU!Actors, LRU!Locked(x) PROVE LruInv'
  <2>1. Listed(evicts, data)' /\ Calling(actor, op)'
    BY <1>3, SetInv, DelInv DEF LRU!Locked
  <2>2. QED
    BY <1>0, <1>a, <1>3, <2>1 DEF LRU!Locked
<1>4. ASSUME NEW x \in LRU!Actors, LRU!Evicted(x) PROVE LruInv'
  <2>1. (keyTimers \in SUBSET Keys)'
    BY <1>0, <1>4 DEF LRU!Evicted, LRU!Send
  <2>2. Calling(actor, op)'
    BY <1>c, <1>d, <1>4 DEF LRU!Evicted
  <2>3. QED
    BY <1>0, <1>a, <1>b, <1>4, <2>1, <2>2 DEF LRU!Evicted
<1>5. ASSUME NEW x \in LRU!Actors, LRU!Timer(x) PROVE LruInv'
  <2>1. (keyTimers \in SUBSET Keys)'
    <3>0. op[x] \in [kind : {"set", "move", "del"}, key : Keys, victim : Keys]
      BY <1>0, <1>5, <1>d DEF LRU!Timer, Calling, LRU!Op
    <3> DEFINE T == CASE op[x].kind = "set" -> keyTimers \cup {op[x].key}
                      [] op[x].kind = "move" -> keyTimers
                      [] op[x].kind = "del" -> keyTimers \ {op[x].key}
    <3>1. T \in SUBSET Keys /\ LRU!Send(T)
      <4>1. T \in SUBSET Keys
        BY <1>0, <3>0
      <4>2. LRU!Send(T)
        BY <1>5 DEF LRU!Timer
      <4>3. QED
        BY <4>1, <4>2
    <3>2. QED
      BY <1>0, <3>1 DEF LRU!Send
  <2>2. Calling(actor, op)'
    BY <1>c, <1>d, <1>5 DEF LRU!Timer
  <2>3. QED
    BY <1>0, <1>a, <1>b, <1>5, <2>1, <2>2 DEF LRU!Timer
<1>6. ASSUME LRU!Fire PROVE LruInv'
  <2>1. PICK k \in keyTimers : LRU!Begin(Wheel, "del", k) /\ keyTimers' = keyTimers \ {k}
    BY <1>6 DEF LRU!Fire
  <2>2. Calling(actor, op)'
    BY <1>0, <1>e, <2>1, BeginCalls
  <2>3. QED
    BY <1>0, <1>a, <1>b, <1>6, <2>1, <2>2 DEF LRU!Fire
<1>7. ASSUME LRU!Close PROVE LruInv'
  BY <1>0, <1>a, <1>b, <1>7 DEF LRU!Close, Calling
<1>8. ASSUME LRU!RunReturns PROVE LruInv'
  <2>1. Calling(actor, op)'
    BY <1>c, <1>d, <1>e, <1>8 DEF LRU!RunReturns
  <2>2. QED
    BY <1>0, <1>a, <1>b, <1>8, <2>1 DEF LRU!RunReturns
<1>9. ASSUME UNCHANGED lruVars PROVE LruInv'
  BY <1>0, <1>a, <1>b, <1>9 DEF lruVars, Calling
<1>10. LRU!vars = lruVars
  BY DEF LRU!vars, lruVars
<1>11. QED
  BY <1>1, <1>2, <1>3, <1>4, <1>5, <1>6, <1>7, <1>8, <1>9 DEF LRU!Next, LRU!Step

LEMMA LruInvMatches == LruInv => LRU!ListMatchesData
<1> SUFFICES ASSUME LruInv PROVE LRU!ListMatchesData
  OBVIOUS
<1>1. evicts \in Seq(Keys) /\ \A i, j \in 1..Len(evicts) : evicts[i] = evicts[j] => i = j
  BY DEF LruInv, KeyList
<1>2. DOMAIN evicts = 1..Len(evicts)
  BY <1>1
<1>3. LRU!ToSet(evicts) = data
  BY <1>2 DEF LruInv, Members, LRU!ToSet
<1>4. LRU!IsInjective(evicts)
  BY <1>1, <1>2, Zenon DEF LRU!IsInjective
<1>5. QED
  BY <1>3, <1>4 DEF LRU!ListMatchesData, LruInv

-----------------------------------------------------------------------------
(* Rings.                                                                  *)

\* Within one round no two positions share a cell.
LEMMA TurnApart ==
  ASSUME NEW n \in Nat \ {0}, NEW h \in 0..(n - 1), NEW j \in 0..(n - 1), NEW k \in 0..(n - 1),
         Turn(n, h + j) = Turn(n, h + k)
  PROVE  j = k
BY DEF Turn

\* The cells of a queue from position h on are the elements s, then nothing.
QueueHolds(es, h, c, t, s) ==
    /\ es \in Seq(Nat) /\ Len(es) \in Nat \ {0}
    /\ h \in 0..(Len(es) - 1) /\ c \in 0..Len(es) /\ t = Turn(Len(es), h + c)
    /\ s \in Seq(Nat) /\ Len(s) = c
    /\ \A k \in 1..c : s[k] = es[Turn(Len(es), h + k - 1) + 1]
    /\ \A k \in (c + 1)..Len(es) : es[Turn(Len(es), h + k - 1) + 1] = Circular!Nothing

\* An element put in the cell after the last.
LEMMA QueuePuts ==
  ASSUME NEW es, NEW h, NEW c, NEW t, NEW s, QueueHolds(es, h, c, t, s),
         c < Len(es), NEW v \in Nat
  PROVE  QueueHolds([es EXCEPT ![t + 1] = v], h, c + 1, (t + 1) % Len(es), Append(s, v))
<1> DEFINE n == Len(es)
           fs == [es EXCEPT ![t + 1] = v]
           r == Append(s, v)
<1>1. /\ es \in Seq(Nat) /\ n \in Nat \ {0} /\ h \in 0..(n - 1) /\ c \in 0..n /\ t = Turn(n, h + c)
      /\ s \in Seq(Nat) /\ Len(s) = c
  BY DEF QueueHolds
<1>2. t \in 0..(n - 1) /\ t + 1 \in 1..n
  <2>1. h + c \in Nat /\ h + c < n + n
    BY <1>1
  <2> HIDE DEF n
  <2>2. t \in 0..(n - 1)
    BY <1>1, <2>1, TurnIs
  <2>3. QED
    BY <1>1, <2>2
<1>3. fs \in Seq(Nat) /\ Len(fs) = n
  BY <1>1, <1>2
<1>4. r \in Seq(Nat) /\ Len(r) = c + 1 /\ r[c + 1] = v /\ \A k \in 1..c : r[k] = s[k]
  BY <1>1
<1>5. c + 1 \in 0..n /\ (t + 1) % n = Turn(n, h + (c + 1))
  <2>1. (t + 1) % n = Turn(n, t + 1)
    BY <1>1, <1>2, TurnIs
  <2>2. Turn(n, Turn(n, h + c) + 1) = Turn(n, h + (c + 1))
    BY <1>1 DEF Turn
  <2>3. QED
    BY <1>1, <2>1, <2>2
<1>6. \A k \in 1..n : /\ Turn(n, h + k - 1) \in 0..(n - 1)
                      /\ k # c + 1 => fs[Turn(n, h + k - 1) + 1] = es[Turn(n, h + k - 1) + 1]
  <2> SUFFICES ASSUME NEW k \in 1..n
               PROVE  /\ Turn(n, h + k - 1) \in 0..(n - 1)
                      /\ k # c + 1 => fs[Turn(n, h + k - 1) + 1] = es[Turn(n, h + k - 1) + 1]
    OBVIOUS
  <2>1. Turn(n, h + k - 1) \in 0..(n - 1)
    <3>1. h + k - 1 \in Nat /\ h + k - 1 < n + n
      BY <1>1
    <3> HIDE DEF n
    <3>2. QED
      BY <1>1, <3>1, TurnIs
  <2>2. ASSUME k # c + 1 PROVE Turn(n, h + k - 1) # t
    <3>1. k - 1 \in 0..(n - 1) /\ c \in 0..(n - 1) /\ h + k - 1 = h + (k - 1) /\ k - 1 # c
      BY <1>1, <2>2
    <3>2. QED
      BY <1>1, <3>1, TurnApart
  <2>3. DOMAIN es = 1..n
    BY <1>1
  <2> HIDE DEF n
  <2>4. \A u \in 0..(n - 1) : u # t => fs[u + 1] = es[u + 1]
    <3> SUFFICES ASSUME NEW u \in 0..(n - 1), u # t PROVE fs[u + 1] = es[u + 1]
      OBVIOUS
    <3>1. u + 1 \in 1..n /\ u + 1 # t + 1
      BY <1>1, <1>2
    <3>2. QED
      BY <2>3, <3>1
  <2>5. QED
    BY <2>1, <2>2, <2>4
<1>7. fs[Turn(n, h + (c + 1) - 1) + 1] = v
  <2>1. h + (c + 1) - 1 = h + c
    BY <1>1
  <2>2. QED
    BY <1>1, <1>2, <2>1
<1>8. \A k \in 1..(c + 1) : r[k] = fs[Turn(n, h + k - 1) + 1]
  <2> SUFFICES ASSUME NEW k \in 1..(c + 1) PROVE r[k] = fs[Turn(n, h + k - 1) + 1]
    OBVIOUS
  <2>1. CASE k = c + 1
    BY <1>4, <1>7, <2>1
  <2>2. CASE k # c + 1
    <3>1. k \in 1..c /\ k \in 1..n
      BY <1>1, <2>2
    <3>2. s[k] = es[Turn(n, h + k - 1) + 1]
      BY <3>1 DEF QueueHolds
    <3>3. QED
      BY <1>4, <1>6, <2>2, <3>1, <3>2
  <2>3. QED
    BY <2>1, <2>2
<1>9. \A k \in (c + 1 + 1)..n : fs[Turn(n, h + k - 1) + 1] = Circular!Nothing
  <2> SUFFICES ASSUME NEW k \in (c + 1 + 1)..n PROVE fs[Turn(n, h + k - 1) + 1] = Circular!Nothing
    OBVIOUS
  <2>1. k \in (c + 1)..n /\ k \in 1..n /\ k # c + 1
    BY <1>1
  <2>2. es[Turn(n, h + k - 1) + 1] = Circular!Nothing
    BY <2>1 DEF QueueHolds
  <2>3. QED
    BY <1>6, <2>1, <2>2
<1>10. QED
  <2> HIDE DEF fs, r
  <2>1. n = Len(fs) /\ (t + 1) % Len(es) = Turn(Len(fs), h + (c + 1))
    BY <1>3, <1>5
  <2>2. QueueHolds(fs, h, c + 1, (t + 1) % Len(es), r)
    BY <1>1, <1>3, <1>4, <1>5, <1>8, <1>9, <2>1 DEF QueueHolds
  <2>3. QED
    BY <2>2 DEF fs, r

\* The oldest element taken.
LEMMA QueueTakes ==
  ASSUME NEW es, NEW h, NEW c, NEW t, NEW s, QueueHolds(es, h, c, t, s), c > 0
  PROVE  QueueHolds([es EXCEPT ![h + 1] = Circular!Nothing], (h + 1) % Len(es), c - 1, t, Tail(s))
<1> DEFINE n == Len(es)
           fs == [es EXCEPT ![h + 1] = Circular!Nothing]
           g == Turn(n, h + 1)
           r == Tail(s)
<1>1. /\ es \in Seq(Nat) /\ n \in Nat \ {0} /\ h \in 0..(n - 1) /\ c \in 1..n /\ t = Turn(n, h + c)
      /\ s \in Seq(Nat) /\ Len(s) = c
  BY DEF QueueHolds
<1>2. h + 1 \in 1..n /\ fs \in Seq(Nat) /\ Len(fs) = n /\ fs[h + 1] = Circular!Nothing
      /\ \A j \in 1..n : j # h + 1 => fs[j] = es[j]
  BY <1>1 DEF Circular!Nothing
<1>3. r \in Seq(Nat) /\ Len(r) = c - 1 /\ \A k \in 1..(c - 1) : r[k] = s[k + 1]
  <2>1. s # << >>
    BY <1>1
  <2>2. QED
    BY <1>1, <2>1
<1>4. (h + 1) % n = g /\ g \in 0..(n - 1)
  <2>1. h + 1 \in Nat /\ h + 1 < n + n
    BY <1>1
  <2> HIDE DEF n
  <2>2. QED
    BY <1>1, <2>1, TurnIs
<1>5. /\ \A k \in 1..(n - 1) : /\ Turn(n, g + k - 1) = Turn(n, h + (k + 1) - 1)
                               /\ Turn(n, g + k - 1) \in 0..(n - 1) /\ Turn(n, g + k - 1) # h
      /\ Turn(n, g + n - 1) = h
  <2> HIDE DEF n
  <2>1. QED
    BY <1>1 DEF Turn
<1>6. t = Turn(n, g + (c - 1))
  <2> HIDE DEF n
  <2>1. QED
    BY <1>1 DEF Turn
<1>7. \A k \in 1..(n - 1) : fs[Turn(n, g + k - 1) + 1] = es[Turn(n, h + (k + 1) - 1) + 1]
  <2> SUFFICES ASSUME NEW k \in 1..(n - 1)
               PROVE  fs[Turn(n, g + k - 1) + 1] = es[Turn(n, h + (k + 1) - 1) + 1]
    OBVIOUS
  <2> DEFINE j == Turn(n, g + k - 1)
  <2>1. j \in 0..(n - 1) /\ j # h /\ j = Turn(n, h + (k + 1) - 1)
    BY <1>5
  <2> HIDE DEF j
  <2>2. j + 1 \in 1..n /\ j + 1 # h + 1
    <3> HIDE DEF n
    <3>1. QED
      BY <1>1, <2>1
  <2>3. fs[j + 1] = es[j + 1]
    BY <1>2, <2>2
  <2>4. QED
    BY <2>1, <2>3 DEF j
<1>8. \A k \in 1..(c - 1) : r[k] = fs[Turn(n, g + k - 1) + 1]
  <2> SUFFICES ASSUME NEW k \in 1..(c - 1) PROVE r[k] = fs[Turn(n, g + k - 1) + 1]
    OBVIOUS
  <2>1. k \in 1..(n - 1) /\ k + 1 \in 1..c
    BY <1>1
  <2>2. s[k + 1] = es[Turn(n, h + (k + 1) - 1) + 1]
    BY <2>1 DEF QueueHolds
  <2>3. QED
    BY <1>3, <1>7, <2>1, <2>2
<1>9. \A k \in ((c - 1) + 1)..n : fs[Turn(n, g + k - 1) + 1] = Circular!Nothing
  <2> SUFFICES ASSUME NEW k \in ((c - 1) + 1)..n PROVE fs[Turn(n, g + k - 1) + 1] = Circular!Nothing
    OBVIOUS
  <2>1. CASE k = n
    BY <1>2, <1>5, <2>1
  <2>2. CASE k # n
    <3>1. k \in 1..(n - 1) /\ k + 1 \in (c + 1)..n
      BY <1>1, <2>2
    <3>2. es[Turn(n, h + (k + 1) - 1) + 1] = Circular!Nothing
      BY <3>1 DEF QueueHolds
    <3>3. QED
      BY <1>7, <3>1, <3>2
  <2>3. QED
    BY <2>1, <2>2
<1>10. QED
  <2>1. c - 1 \in 0..n
    BY <1>1
  <2> HIDE DEF fs, r, g
  <2>2. QueueHolds(fs, g, c - 1, t, r)
    BY <1>1, <1>2, <1>3, <1>4, <1>6, <1>8, <1>9, <2>1 DEF QueueHolds
  <2>3. QED
    BY <1>4, <2>2 DEF fs, r

\* The cells from h on, those before it, and m more.
Grown(es, h, m) ==
    SubSeq(es, h + 1, Len(es)) \o SubSeq(es, 1, h) \o [k \in 1..m |-> Circular!Nothing]

\* A full queue moved to a larger array: the same elements from cell 1 on.
LEMMA CellsGrow ==
  ASSUME NEW es, NEW h, NEW c, NEW t, NEW s, QueueHolds(es, h, c, t, s), c = Len(es),
         NEW m \in Nat \ {0}
  PROVE  QueueHolds(Grown(es, h, m), 0, c, c, s) /\ Len(Grown(es, h, m)) = c + m
<1> DEFINE a == SubSeq(es, h + 1, c)
           b == SubSeq(es, 1, h)
           z == [k \in 1..m |-> Circular!Nothing]
           fs == a \o b \o z
<1>1. /\ es \in Seq(Nat) /\ Len(es) = c /\ c \in Nat \ {0} /\ h \in 0..(c - 1)
      /\ s \in Seq(Nat) /\ Len(s) = c /\ \A k \in 1..c : s[k] = es[Turn(c, h + k - 1) + 1]
  BY DEF QueueHolds
<1>0. c \in Nat \ {0} /\ h \in 0..(c - 1)
  BY <1>1
<1>2. a \in Seq(Nat) /\ Len(a) = c - h /\ \A k \in 1..(c - h) : a[k] = es[h + k]
  BY <1>1, SMTT(60)
<1>3. b \in Seq(Nat) /\ Len(b) = h /\ \A k \in 1..h : b[k] = es[k]
  BY <1>1, SMTT(60)
<1>4. z \in Seq(Nat) /\ Len(z) = m /\ \A k \in 1..m : z[k] = Circular!Nothing
  BY DEF Circular!Nothing
<1> HIDE DEF a, b, z
<1>5. /\ fs \in Seq(Nat) /\ Len(fs) = c + m
      /\ \A k \in 1..(c - h) : fs[k] = a[k]
      /\ \A k \in (c - h + 1)..c : fs[k] = b[k - (c - h)]
      /\ \A k \in (c + 1)..(c + m) : fs[k] = z[k - c]
  <2>1. a \o b \in Seq(Nat) /\ Len(a \o b) = c
        /\ \A k \in 1..c : (a \o b)[k] = IF k <= c - h THEN a[k] ELSE b[k - (c - h)]
    <3>1. (c - h) + h = c
      BY <1>1
    <3>2. /\ a \o b \in Seq(Nat) /\ Len(a \o b) = Len(a) + Len(b)
          /\ \A k \in 1..(Len(a) + Len(b)) : (a \o b)[k] = IF k <= Len(a) THEN a[k] ELSE b[k - Len(a)]
      <4>1. a \in Seq(Nat) /\ b \in Seq(Nat)
        BY <1>2, <1>3
      <4>2. QED
        BY <4>1, ConcatProperties, SMTT(60)
    <3>3. Len(a) + Len(b) = c
      BY <1>2, <1>3, <3>1
    <3>4. \A k \in 1..c : (a \o b)[k] = IF k <= c - h THEN a[k] ELSE b[k - (c - h)]
      BY <1>2, <3>2, <3>3, Zenon
    <3>5. QED
      BY <3>2, <3>3, <3>4
  <2> DEFINE ab == a \o b
  <2> HIDE DEF ab
  <2>2. ab \o z \in Seq(Nat) /\ Len(ab \o z) = c + m
        /\ \A k \in 1..(c + m) : (ab \o z)[k] = IF k <= c THEN ab[k] ELSE z[k - c]
    <3>1. ab \in Seq(Nat) /\ Len(ab) = c
      BY <2>1 DEF ab
    <3>2. /\ ab \o z \in Seq(Nat) /\ Len(ab \o z) = Len(ab) + Len(z)
          /\ \A k \in 1..Len(ab) + Len(z) : (ab \o z)[k] = IF k <= Len(ab) THEN ab[k] ELSE z[k - Len(ab)]
      BY <1>4, <3>1, ConcatProperties, Zenon
    <3>3. QED
      BY <1>4, <3>1, <3>2, Zenon
  <2>3. fs \in Seq(Nat) /\ Len(fs) = c + m
        /\ \A k \in 1..(c + m) : fs[k] = IF k <= c THEN (IF k <= c - h THEN a[k] ELSE b[k - (c - h)]) ELSE z[k - c]
    <3>1. \A k \in 1..(c + m) : k <= c => k \in 1..c
      BY <1>1
    <3>2. QED
      BY <2>1, <2>2, <3>1 DEF ab
  <2>4. /\ \A k \in 1..(c - h) : k \in 1..(c + m) /\ k <= c /\ k <= c - h
        /\ \A k \in (c - h + 1)..c : k \in 1..(c + m) /\ k <= c /\ ~(k <= c - h)
        /\ \A k \in (c + 1)..(c + m) : k \in 1..(c + m) /\ ~(k <= c)
    BY <1>0
  <2> HIDE DEF fs
  <2>5. QED
    BY <2>3, <2>4
<1> HIDE DEF fs
<1>6. \A k \in 1..(c + m) : Turn(c + m, 0 + k - 1) = k - 1
  BY <1>1 DEF Turn
<1>7. \A k \in 1..c : s[k] = fs[Turn(c + m, 0 + k - 1) + 1]
  <2> SUFFICES ASSUME NEW k \in 1..c PROVE s[k] = fs[Turn(c + m, 0 + k - 1) + 1]
    OBVIOUS
  <2>1. Turn(c + m, 0 + k - 1) + 1 = k
    BY <1>1 DEF Turn
  <2>2. CASE k <= c - h
    <3>1. Turn(c, h + k - 1) + 1 = h + k /\ k \in 1..(c - h)
      BY <1>1, <2>2 DEF Turn
    <3>2. s[k] = es[h + k] /\ fs[k] = a[k] /\ a[k] = es[h + k]
      BY <1>1, <1>2, <1>5, <3>1
    <3>3. QED
      BY <2>1, <3>2
  <2>3. CASE ~(k <= c - h)
    <3>1. Turn(c, h + k - 1) = h + k - 1 - c
      BY <1>1, <2>3 DEF Turn
    <3>2. (h + k - 1 - c) + 1 = k - (c - h) /\ k \in (c - h + 1)..c /\ k - (c - h) \in 1..h
      BY <1>0, <2>3
    <3>3. s[k] = es[k - (c - h)]
      BY <1>1, <3>1, <3>2
    <3> DEFINE l == k - (c - h)
    <3> HIDE DEF l
    <3>4. fs[k] = b[l] /\ b[l] = es[l]
      <4>1. l \in 1..h
        BY <3>2 DEF l
      <4>2. fs[k] = b[l]
        BY <1>5, <3>2 DEF l
      <4>3. QED
        BY <1>3, <4>1, <4>2
    <3>5. QED
      BY <2>1, <3>3, <3>4 DEF l
  <2>4. QED
    BY <2>2, <2>3
<1>8. \A k \in (c + 1)..(c + m) : fs[Turn(c + m, 0 + k - 1) + 1] = Circular!Nothing
  <2> SUFFICES ASSUME NEW k \in (c + 1)..(c + m) PROVE fs[Turn(c + m, 0 + k - 1) + 1] = Circular!Nothing
    OBVIOUS
  <2>1. Turn(c + m, 0 + k - 1) + 1 = k /\ k - c \in 1..m
    BY <1>1, <1>6
  <2>2. QED
    BY <1>4, <1>5, <2>1
<1>9. c = Turn(c + m, 0 + c) /\ c \in 0..(c + m) /\ 0 \in 0..(c + m - 1) /\ c + m \in Nat \ {0}
  BY <1>1 DEF Turn
<1>10. QueueHolds(fs, 0, c, c, s)
  BY <1>1, <1>5, <1>7, <1>8, <1>9 DEF QueueHolds
<1>11. QED
  <2>1. Grown(es, h, m) = fs
    BY <1>1 DEF Grown, fs, a, b, z
  <2>2. QED
    BY <1>5, <1>10, <2>1

\* The ring's Take gives s when its index is i.
RingHolds(es, i, s) ==
    LET n == Len(es) IN
    /\ es \in Seq(Nat) /\ n \in Nat \ {0} /\ i \in 0..(n + n - 1)
    /\ s \in Seq(Nat) /\ Len(s) = IF i > n THEN n ELSE i
    /\ \A k \in 1..Len(s) : s[k] = es[Turn(n, (IF i > n THEN i - n ELSE 0) + k - 1) + 1]

\* An element added, in place of the oldest if the ring is full.
LEMMA RingAdds ==
  ASSUME NEW es, NEW i, NEW s, RingHolds(es, i, s), NEW v \in Nat
  PROVE  RingHolds([es EXCEPT ![(i % Len(es)) + 1] = v],
                   IF i + 1 >= 2 * Len(es) THEN (i + 1) - Len(es) ELSE i + 1,
                   IF Len(Append(s, v)) > Len(es) THEN Tail(Append(s, v)) ELSE Append(s, v))
<1> DEFINE n == Len(es)
           fs == [es EXCEPT ![(i % n) + 1] = v]
           all == Append(s, v)
           j == Turn(n, i)
<1>1. /\ es \in Seq(Nat) /\ n \in Nat \ {0} /\ i \in 0..(n + n - 1) /\ s \in Seq(Nat)
      /\ Len(s) = IF i > n THEN n ELSE i
  BY DEF RingHolds
<1>2. i % n = j /\ j \in 0..(n - 1)
  <2>1. i \in Nat /\ i < n + n
    BY <1>1
  <2> HIDE DEF n
  <2>2. QED
    BY <1>1, <2>1, TurnIs
<1>3. /\ fs \in Seq(Nat) /\ Len(fs) = n /\ fs[j + 1] = v
      /\ \A k \in 0..(n - 1) : k # j => fs[k + 1] = es[k + 1]
  <2>1. j + 1 \in 1..n /\ (i % n) + 1 = j + 1
        /\ \A k \in 0..(n - 1) : k + 1 \in 1..n /\ (k # j => k + 1 # j + 1)
    <3> HIDE DEF n, j
    <3>1. QED
      BY <1>1, <1>2
  <2>2. fs = [es EXCEPT ![j + 1] = v]
    BY <2>1
  <2> HIDE DEF j, fs
  <2>3. QED
    BY <1>1, <2>1, <2>2, ExceptSeq
<1>4. all \in Seq(Nat) /\ Len(all) = Len(s) + 1 /\ all[Len(s) + 1] = v
      /\ \A k \in 1..Len(s) : all[k] = s[k]
  <2>1. s \in Seq(Nat) /\ v \in Nat
    BY <1>1
  <2>2. QED
    BY <2>1
<1>0. /\ n \in Nat \ {0} /\ i \in 0..(n + n - 1) /\ Len(s) = IF i > n THEN n ELSE i
      /\ Len(all) = Len(s) + 1
  BY <1>1, <1>4
<1> HIDE DEF n, fs, all
<1>5. CASE i < n
  <2>1. Len(s) = i /\ Len(all) = i + 1 /\ ~(Len(all) > n) /\ ~(i + 1 > n) /\ j = i
        /\ i + 1 \in 0..(n + n - 1) /\ ~(i + 1 >= 2 * n)
    BY <1>0, <1>5 DEF Turn
  <2>2. \A k \in 1..(i + 1) : all[k] = fs[Turn(n, 0 + k - 1) + 1]
    <3> SUFFICES ASSUME NEW k \in 1..(i + 1) PROVE all[k] = fs[Turn(n, 0 + k - 1) + 1]
      OBVIOUS
    <3>1. Turn(n, 0 + k - 1) = k - 1 /\ k - 1 \in 0..(n - 1) /\ Turn(n, 0 + k - 1) + 1 = k
      BY <1>1, <1>5 DEF Turn
    <3>2. CASE k = i + 1
      BY <1>3, <1>4, <2>1, <3>1, <3>2
    <3>3. CASE k # i + 1
      <4>1. k \in 1..Len(s) /\ k - 1 # j /\ (k - 1) + 1 = k
        BY <1>1, <2>1, <3>3
      <4>2. fs[k] = es[k]
        BY <1>3, <3>1, <4>1
      <4>3. s[k] = es[Turn(n, 0 + k - 1) + 1]
        <5>1. ~(i > n)
          BY <1>0, <1>5
        <5>2. QED
          BY <4>1, <5>1 DEF RingHolds, n
      <4>4. QED
        BY <1>4, <3>1, <4>1, <4>2, <4>3
    <3>4. QED
      BY <3>2, <3>3
  <2>3. RingHolds(fs, i + 1, all)
    BY <1>1, <1>3, <1>4, <2>1, <2>2 DEF RingHolds
  <2>4. QED
    BY <2>1, <2>3, Zenon DEF fs, all, n
<1>6. CASE ~(i < n)
  <2> DEFINE r == Tail(all)
             ii == IF i + 1 >= 2 * n THEN (i + 1) - n ELSE i + 1
  <2>1. Len(s) = n /\ Len(all) = n + 1 /\ Len(all) > n /\ j = i - n
        /\ ii \in n..(n + n - 1)
    BY <1>0, <1>6 DEF Turn
  <2>2. r \in Seq(Nat) /\ Len(r) = n /\ \A k \in 1..n : r[k] = all[k + 1]
    <3>1. all # << >>
      BY <1>0, <2>1
    <3>2. (n + 1) - 1 = n
      BY <1>1
    <3>3. r \in Seq(Nat) /\ Len(r) = Len(all) - 1 /\ \A k \in 1..Len(r) : r[k] = all[k + 1]
      BY <1>4, <3>1, HeadTailProperties
    <3>4. Len(r) = n
      BY <2>1, <3>2, <3>3, Zenon
    <3>5. QED
      BY <3>3, <3>4, Zenon
  <2>3. \A k \in 1..n : s[k] = es[Turn(n, j + k - 1) + 1]
    <3>1. (IF i > n THEN i - n ELSE 0) = j
      BY <1>1, <1>6, <2>1
    <3>2. QED
      <4>1. \A k \in 1..Len(s) : s[k] = es[Turn(n, (IF i > n THEN i - n ELSE 0) + k - 1) + 1]
        BY Zenon DEF RingHolds, n
      <4>2. QED
        BY <2>1, <3>1, <4>1
  <2> DEFINE start == IF ii > n THEN ii - n ELSE 0
  <2>4. /\ \A k \in 1..(n - 1) : /\ Turn(n, start + k - 1) = Turn(n, j + (k + 1) - 1)
                                 /\ Turn(n, start + k - 1) \in 0..(n - 1)
                                 /\ Turn(n, start + k - 1) # j
        /\ Turn(n, start + n - 1) = j
    <3> HIDE DEF n
    <3>1. QED
      BY <1>1, <1>6, <2>1 DEF Turn
  <2>5. \A k \in 1..n : r[k] = fs[Turn(n, start + k - 1) + 1]
    <3> SUFFICES ASSUME NEW k \in 1..n PROVE r[k] = fs[Turn(n, start + k - 1) + 1]
      OBVIOUS
    <3>1. CASE k = n
      BY <1>3, <1>4, <2>1, <2>2, <2>4, <3>1
    <3>2. CASE k # n
      <4>1. k \in 1..(n - 1) /\ k + 1 \in 1..n
        BY <1>1, <3>2
      <4> HIDE DEF start
      <4>2. fs[Turn(n, start + k - 1) + 1] = es[Turn(n, j + (k + 1) - 1) + 1]
        BY <1>3, <2>4, <4>1
      <4>3. r[k] = s[k + 1]
        BY <1>4, <2>1, <2>2, <4>1
      <4>4. QED
        BY <2>3, <4>1, <4>2, <4>3
    <3>3. QED
      BY <3>1, <3>2
  <2>6. ii \in 0..(n + n - 1) /\ n = (IF ii > n THEN n ELSE ii)
    BY <1>1, <2>1
  <2> HIDE DEF r, ii
  <2>7. RingHolds(fs, ii, r)
    BY <1>1, <1>3, <2>2, <2>5, <2>6 DEF RingHolds
  <2>8. QED
    BY <2>1, <2>7, Zenon DEF fs, r, ii, all, n
<1>7. QED
  BY <1>5, <1>6

\* The inductive invariant: what the cells hold, in terms of positions.
RingInv ==
    /\ shape \in {"queue", "ring"} /\ puts \in Nat
    /\ shape = "queue" => QueueHolds(elements, head, count, tail, held)
    /\ shape = "ring" => RingHolds(elements, index, held)

LEMMA RingInvInit == AllInit => RingInv
<1> SUFFICES ASSUME AllInit PROVE RingInv
  OBVIOUS
<1>1. PICK size \in 1..MaxSize : elements = [k \in 1..size |-> Circular!Nothing]
  BY DEF AllInit, Circular!Init
<1>2. size \in Nat \ {0} /\ elements \in Seq(Nat) /\ Len(elements) = size
      /\ \A k \in 1..size : elements[k] = Circular!Nothing
  BY <1>1, CollectionConstants DEF Circular!Nothing
<1>3. shape \in {"queue", "ring"} /\ puts = 0 /\ head = 0 /\ tail = 0 /\ count = 0 /\ index = 0 /\ held = << >>
  BY DEF AllInit, Circular!Init
<1>4. \A k \in 1..size : Turn(size, 0 + k - 1) + 1 = k
  BY <1>2 DEF Turn
<1>5. 0 = Turn(size, 0 + 0) /\ 0 \in 0..(size - 1) /\ 0 \in 0..size /\ 0 \in 0..(size + size - 1)
  BY <1>2 DEF Turn
<1>6. << >> \in Seq(Nat) /\ Len(<< >>) = 0
  OBVIOUS
<1>7. QueueHolds(elements, 0, 0, 0, << >>)
  <2>1. \A k \in 1..0 : << >>[k] = elements[Turn(size, 0 + k - 1) + 1]
    OBVIOUS
  <2>2. \A k \in 1..size : elements[Turn(size, 0 + k - 1) + 1] = Circular!Nothing
    <3> SUFFICES ASSUME NEW k \in 1..size
                 PROVE  elements[Turn(size, 0 + k - 1) + 1] = Circular!Nothing
      OBVIOUS
    <3>1. Turn(size, 0 + k - 1) + 1 = k /\ elements[k] = Circular!Nothing
      BY <1>2, <1>4, Zenon
    <3>2. QED
      BY <3>1, Zenon
  <2>4. 0 + 1 = 1
    OBVIOUS
  <2>3. QED
    BY <1>2, <1>5, <1>6, <2>1, <2>2, <2>4, SMTT(60) DEF QueueHolds
<1>8. RingHolds(elements, 0, << >>)
  BY <1>2, <1>5, <1>6 DEF RingHolds
<1>9. QED
  BY <1>3, <1>7, <1>8 DEF RingInv

\* A larger array really is larger.
LEMMA CapacityGrows ==
  ASSUME NEW c \in Nat \ {0}
  PROVE  Circular!nextQueueCapacity(c) - c \in Nat \ {0}
<1>1. CASE c < GrowThreshold
  BY <1>1, CollectionConstants DEF Circular!nextQueueCapacity
<1>2. CASE ~(c < GrowThreshold)
  <2> DEFINE x == c + 3 * GrowThreshold
  <2>1. x \in Nat /\ x >= 4
    BY <1>2, CollectionConstants
  <2> HIDE DEF x
  <2>2. x \div 4 \in Nat \ {0}
    BY <2>1
  <2>3. Circular!nextQueueCapacity(c) = c + (x \div 4)
    BY <1>2 DEF Circular!nextQueueCapacity, x
  <2>4. QED
    BY <2>2, <2>3
<1>3. QED
  BY <1>1, <1>2

LEMMA RingInvStep == RingInv /\ [Circular!Next]_ringVars => RingInv'
<1> SUFFICES ASSUME RingInv, [Circular!Next]_ringVars
             PROVE  RingInv'
  OBVIOUS
<1>1. CASE Circular!Put
  <2>1. shape = "queue" /\ shape' = shape /\ puts' = puts + 1 /\ puts + 1 \in Nat
        /\ count' = count + 1 /\ held' = Append(held, puts + 1)
    BY <1>1 DEF Circular!Put, RingInv
  <2>2. QueueHolds(elements, head, count, tail, held)
    BY <2>1 DEF RingInv
  <2>3. count \in 0..Len(elements) /\ Len(elements) \in Nat \ {0}
    BY <2>2 DEF QueueHolds
  <2>4. CASE count = Len(elements)
    <3> DEFINE m == Circular!nextQueueCapacity(Len(elements)) - Len(elements)
               fs == Circular!Regrown
    <3>1. elements' = [fs EXCEPT ![count + 1] = puts + 1] /\ tail' = (count + 1) % Len(fs) /\ head' = 0
      BY <1>1, <2>4 DEF Circular!Put
    <3>2. m \in Nat \ {0}
      BY <2>3, CapacityGrows
    <3> HIDE DEF m
    <3>3. QueueHolds(fs, 0, count, count, held) /\ Len(fs) = count + m
      <4>1. fs = Grown(elements, head, m)
        BY Zenon DEF Circular!Regrown, Grown, m
      <4> HIDE DEF fs
      <4>2. QueueHolds(Grown(elements, head, m), 0, count, count, held) /\ Len(Grown(elements, head, m)) = count + m
        BY <2>2, <2>4, <3>2, CellsGrow
      <4>3. QED
        BY <4>1, <4>2
    <3> HIDE DEF fs
    <3>4. count < Len(fs)
      BY <2>3, <3>2, <3>3
    <3>5. QueueHolds([fs EXCEPT ![count + 1] = puts + 1], 0, count + 1, (count + 1) % Len(fs), Append(held, puts + 1))
      BY <2>1, <3>3, <3>4, QueuePuts
    <3>6. QED
      BY <2>1, <3>1, <3>5 DEF RingInv
  <2>5. CASE count # Len(elements)
    <3>1. elements' = [elements EXCEPT ![tail + 1] = puts + 1] /\ tail' = (tail + 1) % Len(elements) /\ head' = head
      BY <1>1, <2>5 DEF Circular!Put
    <3>2. count < Len(elements)
      BY <2>3, <2>5
    <3>3. QueueHolds([elements EXCEPT ![tail + 1] = puts + 1], head, count + 1, (tail + 1) % Len(elements), Append(held, puts + 1))
      BY <2>1, <2>2, <3>2, QueuePuts
    <3>4. QED
      BY <2>1, <3>1, <3>3 DEF RingInv
  <2>6. QED
    BY <2>4, <2>5
<1>2. CASE Circular!Take
  <2>1. shape = "queue" /\ shape' = shape /\ puts' = puts /\ count > 0 /\ count' = count - 1 /\ tail' = tail
        /\ elements' = [elements EXCEPT ![head + 1] = Circular!Nothing]
        /\ head' = (head + 1) % Len(elements) /\ held' = Tail(held)
    BY <1>2 DEF Circular!Take
  <2>2. QueueHolds(elements', head', count', tail', held')
    BY <2>1, QueueTakes DEF RingInv
  <2>3. QED
    BY <2>1, <2>2 DEF RingInv
<1>3. CASE Circular!Add
  <2>0. puts + 1 \in Nat
    BY DEF RingInv
  <2>1. shape = "ring" /\ shape' = shape /\ puts' = puts + 1
        /\ elements' = [elements EXCEPT ![(index % Len(elements)) + 1] = puts + 1]
        /\ index' = (IF index + 1 >= 2 * Len(elements) THEN (index + 1) - Len(elements) ELSE index + 1)
        /\ held' = IF Len(Append(held, puts + 1)) > Len(elements) THEN Tail(Append(held, puts + 1))
                                                                  ELSE Append(held, puts + 1)
    <3>1. shape = "ring" /\ shape' = shape /\ puts' = puts + 1
      BY <1>3 DEF Circular!Add
    <3>2. /\ elements' = [elements EXCEPT ![(index % Len(elements)) + 1] = puts + 1]
          /\ index' = (IF index + 1 >= 2 * Len(elements) THEN (index + 1) - Len(elements) ELSE index + 1)
      <4>1. index' = Circular!Wrapped(index + 1)
            /\ elements' = [elements EXCEPT ![(index % Len(elements)) + 1] = puts + 1]
        BY <1>3, Zenon DEF Circular!Add
      <4>2. Circular!Wrapped(index + 1) = IF index + 1 >= 2 * Len(elements) THEN (index + 1) - Len(elements) ELSE index + 1
        BY DEF Circular!Wrapped
      <4>3. QED
        BY <4>1, <4>2
    <3>3. held' = IF Len(Append(held, puts + 1)) > Len(elements) THEN Tail(Append(held, puts + 1))
                                                                 ELSE Append(held, puts + 1)
      BY <1>3, Zenon DEF Circular!Add
    <3>4. QED
      BY <3>1, <3>2, <3>3, Zenon
  <2>2. RingHolds(elements', index', held')
    <3>1. RingHolds(elements, index, held)
      BY <2>1 DEF RingInv
    <3>2. QED
      BY <2>0, <2>1, <3>1, RingAdds
  <2>3. QED
    BY <2>0, <2>1, <2>2 DEF RingInv
<1>4. CASE UNCHANGED ringVars
  BY <1>4 DEF ringVars, RingInv
<1>5. QED
  BY <1>1, <1>2, <1>3, <1>4 DEF Circular!Next

LEMMA RingInvInOrder == RingInv => Circular!InOrder
<1> SUFFICES ASSUME RingInv PROVE Circular!InOrder
  OBVIOUS
<1> DEFINE n == Len(elements)
<1>1. ASSUME shape = "queue"
      PROVE  /\ held = [k \in 1..count |-> Circular!Cell(k)]
             /\ tail = (head + count) % n
             /\ \A k \in (count + 1)..n : Circular!Cell(k) = Circular!Nothing
  <2>1. /\ n \in Nat \ {0} /\ head \in 0..(n - 1) /\ count \in 0..n /\ tail = Turn(n, head + count)
        /\ held \in Seq(Nat) /\ Len(held) = count
        /\ \A k \in 1..count : held[k] = elements[Turn(n, head + k - 1) + 1]
        /\ \A k \in (count + 1)..n : elements[Turn(n, head + k - 1) + 1] = Circular!Nothing
    BY <1>1 DEF RingInv, QueueHolds
  <2> HIDE DEF n
  <2>2. \A k \in 1..n : (head + k - 1) % n = Turn(n, head + k - 1)
    <3> SUFFICES ASSUME NEW k \in 1..n PROVE (head + k - 1) % n = Turn(n, head + k - 1)
      OBVIOUS
    <3>1. head + k - 1 \in Nat /\ head + k - 1 < n + n
      BY <2>1
    <3>2. QED
      BY <2>1, <3>1, TurnIs
  <2>3. (head + count) % n = Turn(n, head + count)
    <3>1. head + count \in Nat /\ head + count < n + n
      BY <2>1
    <3>2. QED
      BY <2>1, <3>1, TurnIs
  <2>4. /\ \A k \in 1..count : Circular!Cell(k) = held[k]
        /\ \A k \in (count + 1)..n : Circular!Cell(k) = Circular!Nothing
    <3>1. (\A k \in 1..count : k \in 1..n) /\ (\A k \in (count + 1)..n : k \in 1..n)
      BY <2>1
    <3>2. QED
      BY <2>1, <2>2, <3>1 DEF Circular!Cell, n
  <2>5. held = [k \in 1..count |-> held[k]]
    BY <2>1
  <2>6. QED
    BY <2>1, <2>3, <2>4, <2>5
<1>2. ASSUME shape = "ring"
      PROVE  Circular!RingTake = held
  <2> DEFINE start == IF index > n THEN index - n ELSE 0
             size == IF index > n THEN n ELSE index
  <2>1. /\ n \in Nat \ {0} /\ index \in 0..(n + n - 1) /\ held \in Seq(Nat) /\ Len(held) = size
        /\ \A k \in 1..Len(held) : held[k] = elements[Turn(n, start + k - 1) + 1]
    BY <1>2 DEF RingInv, RingHolds
  <2>2. (IF index > n THEN index % n ELSE 0) = start
    <3> HIDE DEF n
    <3>1. CASE index > n
      <4>1. index \in Nat /\ n <= index /\ index < n + n
        BY <2>1, <3>1
      <4>2. index % n = index - n
        BY <2>1, <4>1, ModTwice
      <4>3. QED
        BY <3>1, <4>2
    <3>2. CASE ~(index > n)
      BY <3>2
    <3>3. QED
      BY <3>1, <3>2
  <2>3. start \in 0..(n - 1) /\ size \in 0..n
    <3> HIDE DEF n
    <3>1. QED
      BY <2>1
  <2> HIDE DEF start, size
  <2>4. Circular!RingTake = [k \in 1..size |-> elements[((start + k - 1) % n) + 1]]
    BY <2>2, Zenon DEF Circular!RingTake, n, size
  <2> HIDE DEF n
  <2>5. \A k \in 1..size : elements[((start + k - 1) % n) + 1] = held[k]
    <3> SUFFICES ASSUME NEW k \in 1..size PROVE elements[((start + k - 1) % n) + 1] = held[k]
      OBVIOUS
    <3>1. start + k - 1 \in Nat /\ start + k - 1 < n + n
      BY <2>1, <2>3
    <3>2. (start + k - 1) % n = Turn(n, start + k - 1)
      BY <2>1, <3>1, TurnIs
    <3>3. QED
      BY <2>1, <3>2
  <2>6. held = [k \in 1..size |-> held[k]]
    BY <2>1
  <2>7. QED
    BY <2>4, <2>5, <2>6
<1>3. QED
  BY <1>1, <1>2 DEF Circular!InOrder

-----------------------------------------------------------------------------
(* BufferPool.                                                             *)

\* Calls is the sum.
LEMMA CallsSums ==
  ASSUME NEW S, IsFiniteSet(S), NEW n, Counts(n, S)
  PROVE  \E h : Sums(n, S, h) /\ Bytes!Calls(n, S) = h[S]
<1> DEFINE h == CHOOSE f : f = [s \in SUBSET S |-> IF s = {} THEN 0
                          ELSE n[CHOOSE x \in s : TRUE] + f[s \ {CHOOSE x \in s : TRUE}]]
<1>1. Bytes!Calls(n, S) = h[S]
  BY Zenon DEF Bytes!Calls, Bytes!FoldSet, Bytes!MapThenFoldSet
<1>2. PICK g \in [SUBSET S -> Nat] : Sums(n, S, g)
  BY SumsExist
<1>3. \E f : f = [s \in SUBSET S |-> IF s = {} THEN 0
                          ELSE n[CHOOSE x \in s : TRUE] + f[s \ {CHOOSE x \in s : TRUE}]]
  <2>1. g = [s \in SUBSET S |-> IF s = {} THEN 0
                          ELSE n[CHOOSE x \in s : TRUE] + g[s \ {CHOOSE x \in s : TRUE}]]
    BY <1>2 DEF Sums, Pick
  <2>2. QED
    BY <2>1
<1>4. h = [s \in SUBSET S |-> IF s = {} THEN 0
                          ELSE n[CHOOSE x \in s : TRUE] + h[s \ {CHOOSE x \in s : TRUE}]]
  BY <1>3, Zenon
<1>5. Sums(n, S, h)
  <2> HIDE DEF h
  <2>1. QED
    BY <1>4 DEF Sums, Pick
<1>6. QED
  BY <1>1, <1>5

CallsBy(n, S, g) == \A T \in SUBSET S : Bytes!Calls(n, T) = g[T]

\* The sum over any subset is what it takes in the order of the whole.
LEMMA CallsParts ==
  ASSUME NEW S, IsFiniteSet(S), NEW n, Counts(n, S)
  PROVE  \E g \in [SUBSET S -> Nat] : Sums(n, S, g) /\ CallsBy(n, S, g)
<1>1. PICK g \in [SUBSET S -> Nat] : Sums(n, S, g)
  BY SumsExist
<1>2. ASSUME NEW T \in SUBSET S PROVE Bytes!Calls(n, T) = g[T]
  <2>1. IsFiniteSet(T) /\ Counts(n, T)
    BY FS_Subset DEF Counts
  <2>2. PICK h : Sums(n, T, h) /\ Bytes!Calls(n, T) = h[T]
    BY <2>1, CallsSums
  <2>3. \A s \in SUBSET T : g[s] = h[s]
    BY <1>1, <2>2, SumsAgree
  <2>4. QED
    BY <2>2, <2>3
<1>3. QED
  BY <1>1, <1>2 DEF CallsBy

LEMMA CallsGrow ==
  ASSUME NEW S, IsFiniteSet(S), NEW n, Counts(n, S)
  PROVE  \A t \in SUBSET S : /\ Bytes!Calls(n, t) \in Nat
                             /\ \A s \in SUBSET t : Bytes!Calls(n, s) <= Bytes!Calls(n, t)
<1>1. PICK g \in [SUBSET S -> Nat] : Sums(n, S, g) /\ CallsBy(n, S, g)
  BY CallsParts
<1>2. \A t \in SUBSET S : \A s \in SUBSET t : g[s] <= g[t]
  BY <1>1, SumsGrow
<1>3. QED
  BY <1>1, <1>2 DEF CallsBy

LEMMA BytesCardinality == ASSUME NEW S PROVE Bytes!Cardinality(S) = Cardinality(S)
  BY Zenon DEF Bytes!Cardinality, Cardinality

\* An order of the classes has every class.
LEMMA OrderHasAll ==
  ASSUME NEW n, NEW o \in Bytes!Sorted(n)
  PROVE  o \in [1..Steps -> 1..Steps] /\ \A c \in 1..Steps : \E k \in 1..Steps : o[k] = c
<1>1. IsFiniteSet(1..Steps) /\ Cardinality(1..Steps) = Steps
  BY FS_Interval, CollectionConstants
<1>2. Bytes!Cardinality(Bytes!Classes) = Steps
  BY <1>1, BytesCardinality DEF Bytes!Classes
<1>3. o \in Bytes!SetToSeqs(Bytes!Classes)
  BY Zenon DEF Bytes!Sorted
<1>4. o \in [1..Steps -> 1..Steps] /\ \A i, j \in 1..Steps : i # j => o[i] # o[j]
  BY <1>2, <1>3 DEF Bytes!SetToSeqs, Bytes!Classes
<1>5. o \in Injection(1..Steps, 1..Steps)
  BY <1>4 DEF Injection, IsInjective
<1>6. o \in Surjection(1..Steps, 1..Steps)
  BY <1>1, <1>5, FS_Injection
<1>7. QED
  BY <1>4, <1>6 DEF Surjection

\* The first k sizes of the order, the largest of them m.
LEMMA LargestOf ==
  ASSUME NEW o \in [1..Steps -> 1..Steps], NEW k \in 1..Steps
  PROVE  LET T == {o[l] : l \in 1..k}
         IN  Bytes!Max(T) \in 1..Steps /\ T \in SUBSET (1..Bytes!Max(T))
<1> DEFINE T == {o[l] : l \in 1..k}
<1>1. Steps \in Nat
  BY CollectionConstants
<1>2. T \in SUBSET (1..Steps) /\ o[1] \in T
  BY <1>1
<1> HIDE DEF T
<1>3. T \in SUBSET (0..Steps) /\ T # {}
  BY <1>1, <1>2
<1>4. \E x \in T : \A y \in T : x >= y
  BY <1>1, <1>3, GreatestNumber
<1>5. Bytes!Max(T) \in T /\ \A y \in T : Bytes!Max(T) >= y
  BY <1>4 DEF Bytes!Max
<1>6. QED
  BY <1>1, <1>2, <1>5 DEF T

\* The first k classes that cover the calls, k at least 1.
LEMMA FirstEnough ==
  ASSUME NEW E \in SUBSET (1..Steps), E # {}
  PROVE  Bytes!Min(E) \in E
<1>1. E \in SUBSET Nat
  BY CollectionConstants
<1>2. \E x \in E : \A y \in E : x =< y
  BY <1>1, LeastNumber
<1>3. QED
  BY <1>2 DEF Bytes!Min

\* More than the rounded-down percentage is at least the percentage.
LEMMA MoreThanShare ==
  ASSUME NEW s \in Nat, NEW c \in Nat, s > (c * 95) \div 100
  PROVE  100 * s >= 95 * c
<1>1. c * 95 \in Nat
  OBVIOUS
<1>2. PICK q \in Nat : q = (c * 95) \div 100 /\ c * 95 < 100 * (q + 1)
  BY <1>1
<1>3. QED
  BY <1>2

\* The sizes of a calibration.
Covers(n, z) ==
    /\ z = [default |-> z.default, max |-> z.max] /\ z.max \in 1..Steps
    /\ 100 * Bytes!Calls(n, 1..z.max) >= 95 * Bytes!Calls(n, Bytes!Classes)

LEMMA SizesCover ==
  ASSUME NEW n, Counts(n, 1..Steps), NEW o \in Bytes!Sorted(n)
  PROVE  Covers(n, Bytes!Sizes(n, o))
<1> DEFINE E == {k \in 1..Steps : Bytes!Covered(n, o, k)} \cup {Steps}
           k == Bytes!Min(E)
           T == {o[l] : l \in 1..k}
           m == Bytes!Max(T)
           C(s) == Bytes!Calls(n, s)
<1>0. Steps \in Nat \ {0} /\ IsFiniteSet(1..Steps)
  BY CollectionConstants, FS_Interval
<1>1. o \in [1..Steps -> 1..Steps] /\ \A c \in 1..Steps : \E l \in 1..Steps : o[l] = c
  BY OrderHasAll
<1>2. k \in E
  <2>1. E \in SUBSET (1..Steps) /\ E # {}
    BY <1>0
  <2> HIDE DEF E
  <2>2. QED
    BY <2>1, FirstEnough
<1>3. k \in 1..Steps
  <2>1. E \in SUBSET (1..Steps)
    BY <1>0
  <2> HIDE DEF E, k
  <2>2. QED
    BY <1>2, <2>1
<1>4. k = Steps \/ Bytes!Covered(n, o, k)
  <2> HIDE DEF k
  <2>1. QED
    BY <1>2
<1>5. Bytes!Sizes(n, o) = [default |-> o[1], max |-> m]
  BY Zenon DEF Bytes!Sizes, Bytes!Classes
<1> HIDE DEF k
<1>6. m \in 1..Steps /\ T \in SUBSET (1..m)
  BY <1>1, <1>3, LargestOf
<1>7. 1..m \in SUBSET (1..Steps) /\ 1..Steps \in SUBSET (1..Steps)
  <2> HIDE DEF m
  <2>1. QED
    BY <1>0, <1>6
<1>8. C(1..m) \in Nat /\ C(1..Steps) \in Nat /\ C(T) <= C(1..m) /\ C(T) \in Nat
  <2>1. \A t \in SUBSET (1..Steps) : /\ Bytes!Calls(n, t) \in Nat
                                     /\ \A s \in SUBSET t : Bytes!Calls(n, s) <= Bytes!Calls(n, t)
    BY <1>0, CallsGrow
  <2> HIDE DEF m, T
  <2>2. T \in SUBSET (1..Steps)
    BY <1>6, <1>7
  <2>3. QED
    BY <2>1, <2>2, <1>6, <1>7
<1>9. 100 * C(1..m) >= 95 * C(1..Steps)
  <2>1. CASE k = Steps
    <3>1. T = 1..Steps
      BY <1>1, <2>1
    <3>2. C(T) = C(1..Steps)
      BY <3>1, Zenon
    <3> HIDE DEF C, T, m
    <3>3. QED
      BY <3>2, <1>8
  <2>2. CASE Bytes!Covered(n, o, k)
    <3>1. C(T) > (C(1..Steps) * 95) \div 100
      BY <2>2 DEF Bytes!Covered, Bytes!Classes
    <3> HIDE DEF C, T, m
    <3>2. 100 * C(T) >= 95 * C(1..Steps)
      BY <3>1, <1>8, MoreThanShare
    <3>3. QED
      BY <3>2, <1>8
  <2>3. QED
    BY <1>4, <2>1, <2>2
<1>10. Bytes!Classes = 1..Steps
  BY DEF Bytes!Classes
<1> HIDE DEF m
<1>11. QED
  BY <1>5, <1>6, <1>9, <1>10 DEF Covers

\* The calibration a goroutine is in.
Stages == {"swap", "default", "max", "end"}

\* What one goroutine has of its calibration: p its place, n the calls it
\* counted, z the sizes, d and m the sizes in the pool.
Calibrates(p, n, z, d, m) ==
    /\ p \in {"idle", "calibrate", "load"} \cup Stages
    /\ n \in Seq(Nat)
    /\ p = "swap" => Len(n) < Steps
    /\ p \in {"default", "max", "end"} => Len(n) = Steps
    /\ p \in {"max", "end"} => Covers(n, z) /\ d = z.default
    /\ p = "end" => m = z.max

\* At most one goroutine calibrates, and calibrating says so; the sizes are
\* the last calibration's while none does.
ByteInv ==
    /\ calls \in [1..Steps -> Nat] /\ calibrating \in BOOLEAN
    /\ putter \in [Pair -> {"idle", "calibrate", "load"} \cup Stages]
    /\ counts = [p \in Pair |-> counts[p]] /\ sizes = [p \in Pair |-> sizes[p]]
    /\ \A p \in Pair : Calibrates(putter[p], counts[p], sizes[p], defaultSize, maxSize)
    /\ \A p \in Pair : putter[p] \in Stages => calibrating
    /\ \A p, q \in Pair : putter[p] \in Stages /\ putter[q] \in Stages => p = q
    /\ ~calibrating /\ calibrated.size # Bytes!None =>
          /\ Covers(calibrated.a, calibrated.size)
          /\ defaultSize = calibrated.size.default /\ maxSize = calibrated.size.max

LEMMA ByteInvHolds == ByteInv => Bytes!SizesOfOneCalibration
<1> SUFFICES ASSUME ByteInv, ~calibrating, calibrated.size # Bytes!None
             PROVE  /\ calibrated.size = [default |-> defaultSize, max |-> maxSize]
                    /\ 100 * Bytes!Calls(calibrated.a, 1..maxSize)
                          >= 95 * Bytes!Calls(calibrated.a, Bytes!Classes)
  BY DEF Bytes!SizesOfOneCalibration
<1>1. /\ Covers(calibrated.a, calibrated.size)
      /\ defaultSize = calibrated.size.default /\ maxSize = calibrated.size.max
  BY DEF ByteInv
<1>2. QED
  BY <1>1, Zenon DEF Covers

LEMMA ByteInvInit == AllInit => ByteInv
<1> SUFFICES ASSUME AllInit PROVE ByteInv
  OBVIOUS
<1>1. Bytes!Init
  BY DEF AllInit
<1>2. /\ calls = [k \in 1..Steps |-> 0] /\ calibrating = FALSE
      /\ putter = [p \in Pair |-> "idle"] /\ counts = [p \in Pair |-> << >>]
      /\ sizes = [p \in Pair |-> Bytes!None] /\ calibrated = [a |-> << >>, size |-> Bytes!None]
  BY <1>1 DEF Bytes!Init, Bytes!Classes
<1>3. \A p \in Pair : Calibrates(putter[p], counts[p], sizes[p], defaultSize, maxSize)
  BY <1>2 DEF Calibrates, Stages
<1>4. QED
  BY <1>2, <1>3 DEF ByteInv, Stages

\* One goroutine moves; the others are not in a calibration when the pool's
\* sizes change.
LEMMA ByteMoves ==
  ASSUME ByteInv, NEW p \in Pair, NEW x \in {"idle", "calibrate", "load"} \cup Stages, NEW n, NEW z,
         putter' = [putter EXCEPT ![p] = x], counts' = [counts EXCEPT ![p] = n],
         sizes' = [sizes EXCEPT ![p] = z],
         Calibrates(x, n, z, defaultSize', maxSize'),
         UNCHANGED <<defaultSize, maxSize>> \/ putter[p] \in Stages
  PROVE  /\ putter' \in [Pair -> {"idle", "calibrate", "load"} \cup Stages]
         /\ counts' = [q \in Pair |-> counts'[q]] /\ sizes' = [q \in Pair |-> sizes'[q]]
         /\ \A q \in Pair : Calibrates(putter'[q], counts'[q], sizes'[q], defaultSize', maxSize')
<1>1. ASSUME NEW q \in Pair PROVE Calibrates(putter'[q], counts'[q], sizes'[q], defaultSize', maxSize')
  <2>1. CASE q = p
    <3>1. putter'[q] = x /\ counts'[q] = n /\ sizes'[q] = z
      BY <2>1 DEF ByteInv
    <3>2. QED
      BY <3>1
  <2>2. CASE q # p
    <3>1. putter'[q] = putter[q] /\ counts'[q] = counts[q] /\ sizes'[q] = sizes[q]
      BY <2>2 DEF ByteInv
    <3>2. Calibrates(putter[q], counts[q], sizes[q], defaultSize, maxSize)
      BY DEF ByteInv
    <3>3. CASE UNCHANGED <<defaultSize, maxSize>>
      BY <3>1, <3>2, <3>3
    <3>4. CASE putter[p] \in Stages
      <4>1. putter[q] \notin Stages
        BY <2>2, <3>4 DEF ByteInv
      <4>2. QED
        BY <3>1, <3>2, <4>1 DEF Calibrates, Stages
    <3>5. QED
      BY <3>3, <3>4
  <2>3. QED
    BY <2>1, <2>2
<1>2. QED
  BY <1>1 DEF ByteInv

LEMMA ByteInvStep == ByteInv /\ [Bytes!Next]_byteVars => ByteInv'
<1> SUFFICES ASSUME ByteInv, [Bytes!Next]_byteVars PROVE ByteInv'
  OBVIOUS
<1>0. Bytes!Classes = 1..Steps /\ Steps \in Nat \ {0}
  BY CollectionConstants DEF Bytes!Classes
<1> DEFINE Spots == {"idle", "calibrate", "load"} \cup Stages
           Pieces == /\ putter' \in [Pair -> Spots]
                     /\ counts' = [q \in Pair |-> counts'[q]] /\ sizes' = [q \in Pair |-> sizes'[q]]
                     /\ \A q \in Pair : Calibrates(putter'[q], counts'[q], sizes'[q], defaultSize', maxSize')
           \* No calibration starts or ends, and what it leaves is untouched.
           Stays == /\ calibrating' = calibrating /\ calibrated' = calibrated
                    /\ UNCHANGED <<defaultSize, maxSize>> \/ calibrating
           Same(p, x) == /\ putter' = [putter EXCEPT ![p] = x]
                         /\ x \in Stages => putter[p] \in Stages
<1>a. ASSUME NEW p \in Pair, NEW x \in Spots, Same(p, x), Pieces, Stays, calls' \in [1..Steps -> Nat]
      PROVE  ByteInv'
  <2>1. \A q \in Pair : putter'[q] \in Stages => putter[q] \in Stages
    BY <1>a DEF ByteInv
  <2>2. /\ \A q \in Pair : putter'[q] \in Stages => calibrating'
        /\ \A q, r \in Pair : putter'[q] \in Stages /\ putter'[r] \in Stages => q = r
    BY <2>1, <1>a DEF ByteInv
  <2>3. ~calibrating' /\ calibrated'.size # Bytes!None =>
          /\ Covers(calibrated'.a, calibrated'.size)
          /\ defaultSize' = calibrated'.size.default /\ maxSize' = calibrated'.size.max
    BY <1>a DEF ByteInv
  <2>4. calibrating' \in BOOLEAN
    BY <1>a DEF ByteInv
  <2>5. Bytes!None = Bytes!None'
    BY DEF Bytes!None
  <2>6. QED
    BY <1>a, <2>2, <2>3, <2>4, <2>5 DEF ByteInv
<1>b. \A p \in Pair : /\ counts = [counts EXCEPT ![p] = counts[p]]
                      /\ sizes = [sizes EXCEPT ![p] = sizes[p]]
                      /\ putter = [putter EXCEPT ![p] = putter[p]]
                      /\ putter[p] \in Spots
                      /\ Calibrates(putter[p], counts[p], sizes[p], defaultSize, maxSize)
                      /\ putter[p] \in Stages => calibrating
  BY DEF ByteInv
<1>1. ASSUME NEW p \in Pair, NEW k \in Bytes!Classes, Bytes!Put(p, k) PROVE ByteInv'
  <2>1. PICK x \in {"calibrate", "load"} : putter' = [putter EXCEPT ![p] = x]
    BY <1>1 DEF Bytes!Put, Bytes!Goto
  <2>2. calls' \in [1..Steps -> Nat]
    BY <1>0, <1>1 DEF Bytes!Put, ByteInv
  <2>3. Calibrates(x, counts[p], sizes[p], defaultSize', maxSize')
    BY <1>b, <2>1 DEF Calibrates, Stages
  <2>4. Pieces
    BY <1>1, <1>b, <2>1, <2>3, ByteMoves DEF Bytes!Put
  <2>5. Same(p, x) /\ Stays /\ x \in Spots
    BY <1>1, <2>1 DEF Bytes!Put, Stages
  <2>6. QED
    BY <1>a, <2>2, <2>4, <2>5
<1>2. ASSUME NEW p \in Pair, Bytes!Calibrate(p) PROVE ByteInv'
  <2>0. putter[p] = "calibrate" /\ calls' = calls /\ UNCHANGED <<defaultSize, maxSize, sizes, calibrated>>
    BY <1>2 DEF Bytes!Calibrate
  <2>1. CASE calibrating
    <3>1. putter' = [putter EXCEPT ![p] = "load"] /\ UNCHANGED <<calibrating, counts>>
      BY <1>2, <2>1 DEF Bytes!Calibrate, Bytes!CompareAndSwap, Bytes!Goto
    <3>2. Calibrates("load", counts[p], sizes[p], defaultSize', maxSize')
      BY <1>b DEF Calibrates, Stages
    <3>3. Pieces
      BY <1>b, <2>0, <3>1, <3>2, ByteMoves
    <3>4. Same(p, "load") /\ Stays /\ calls' \in [1..Steps -> Nat]
      BY <2>0, <3>1 DEF Stages, ByteInv
    <3>5. QED
      BY <1>a, <3>3, <3>4
  <2>2. CASE ~calibrating
    <3>1. /\ putter' = [putter EXCEPT ![p] = "swap"] /\ counts' = [counts EXCEPT ![p] = << >>]
          /\ calibrating' = TRUE
      BY <1>2, <2>2 DEF Bytes!Calibrate, Bytes!CompareAndSwap, Bytes!Goto
    <3>2. Calibrates("swap", << >>, sizes[p], defaultSize', maxSize')
      BY <1>0 DEF Calibrates, Stages
    <3>3. Pieces
      BY <1>b, <2>0, <3>1, <3>2, ByteMoves DEF Stages
    <3>4. \A q \in Pair : putter'[q] \in Stages => q = p
      BY <2>2, <3>1 DEF ByteInv
    <3>5. QED
      BY <2>0, <3>1, <3>3, <3>4 DEF ByteInv
  <2>3. QED
    BY <2>1, <2>2
<1>3. ASSUME NEW p \in Pair, Bytes!Swap(p) PROVE ByteInv'
  <2> DEFINE k == Len(counts[p]) + 1
             n == Append(counts[p], calls[k])
  <2>1. putter[p] = "swap" /\ counts[p] \in Seq(Nat) /\ Len(counts[p]) < Steps
    BY <1>3, <1>b DEF Bytes!Swap, Calibrates
  <2>2. k \in 1..Steps /\ calls[k] \in Nat
    BY <1>0, <2>1 DEF ByteInv
  <2>3. n \in Seq(Nat) /\ Len(n) = k
    BY <2>1, <2>2
  <2>4. counts' = [counts EXCEPT ![p] = n] /\ calls' \in [1..Steps -> Nat]
    BY <1>3, <2>2 DEF Bytes!Swap, ByteInv
  <2> HIDE DEF n, k
  <2>5. PICK x \in {"swap", "default"} : /\ putter' = [putter EXCEPT ![p] = x]
                                         /\ x = IF k = Steps THEN "default" ELSE "swap"
    BY <1>3, <1>b, <2>1 DEF Bytes!Swap, Bytes!Goto, k
  <2>6. Calibrates(x, n, sizes[p], defaultSize', maxSize')
    BY <1>0, <2>2, <2>3, <2>5 DEF Calibrates, Stages
  <2>7. Pieces
    <3>1. sizes' = [sizes EXCEPT ![p] = sizes[p]] /\ UNCHANGED <<defaultSize, maxSize>>
      BY <1>3, <1>b DEF Bytes!Swap
    <3>2. x \in Spots
      BY DEF Stages
    <3>3. QED
      BY <2>4, <2>5, <2>6, <3>1, <3>2, ByteMoves
  <2>8. Same(p, x) /\ Stays /\ x \in Spots
    BY <1>3, <2>1, <2>5 DEF Bytes!Swap, Stages
  <2>9. QED
    BY <1>a, <2>4, <2>7, <2>8
<1>4. ASSUME NEW p \in Pair, Bytes!StoreDefault(p) PROVE ByteInv'
  <2>1. PICK o \in Bytes!Sorted(counts[p]) : sizes' = [sizes EXCEPT ![p] = Bytes!Sizes(counts[p], o)]
    BY <1>4 DEF Bytes!StoreDefault
  <2> DEFINE z == Bytes!Sizes(counts[p], o)
  <2>2. putter[p] = "default" /\ counts[p] \in Seq(Nat) /\ Len(counts[p]) = Steps
    BY <1>4, <1>b DEF Bytes!StoreDefault, Calibrates
  <2>3. Counts(counts[p], 1..Steps)
    BY <2>2 DEF Counts
  <2>4. Covers(counts[p], z)
    BY <2>3, SizesCover
  <2> HIDE DEF z
  <2>5. sizes' = [sizes EXCEPT ![p] = z] /\ defaultSize' = z.default
    <3>1. sizes'[p] = z
      BY <2>1 DEF ByteInv, z
    <3>2. QED
      BY <1>4, <2>1, <3>1 DEF Bytes!StoreDefault, z
  <2>6. Calibrates("max", counts[p], z, defaultSize', maxSize')
    BY <2>2, <2>4, <2>5 DEF Calibrates, Stages
  <2>7. Pieces
    BY <1>4, <1>b, <2>2, <2>5, <2>6, ByteMoves DEF Bytes!StoreDefault, Bytes!Goto, Stages
  <2>8. Same(p, "max") /\ Stays /\ calls' \in [1..Steps -> Nat]
    BY <1>4, <1>b, <2>2 DEF Bytes!StoreDefault, Bytes!Goto, Stages, ByteInv
  <2>9. QED
    BY <1>a, <2>7, <2>8 DEF Stages
<1>5. ASSUME NEW p \in Pair, Bytes!StoreMax(p) PROVE ByteInv'
  <2>1. putter[p] = "max" /\ maxSize' = sizes[p].max /\ defaultSize' = defaultSize
    BY <1>5 DEF Bytes!StoreMax
  <2>2. Calibrates("end", counts[p], sizes[p], defaultSize', maxSize')
    BY <1>b, <2>1 DEF Calibrates, Stages
  <2>3. Pieces
    <3>1. /\ putter' = [putter EXCEPT ![p] = "end"] /\ counts' = [counts EXCEPT ![p] = counts[p]]
          /\ sizes' = [sizes EXCEPT ![p] = sizes[p]]
      BY <1>5, <1>b DEF Bytes!StoreMax, Bytes!Goto
    <3>2. "end" \in Spots /\ putter[p] \in Stages
      BY <2>1 DEF Stages
    <3>3. QED
      BY <2>2, <3>1, <3>2, ByteMoves
  <2>4. Same(p, "end") /\ Stays /\ calls' \in [1..Steps -> Nat]
    BY <1>5, <1>b, <2>1 DEF Bytes!StoreMax, Bytes!Goto, Stages, ByteInv
  <2>5. QED
    BY <1>a, <2>3, <2>4 DEF Stages
<1>6. ASSUME NEW p \in Pair, Bytes!EndCalibration(p) PROVE ByteInv'
  <2>1. /\ putter[p] = "end" /\ putter' = [putter EXCEPT ![p] = "load"] /\ calibrating' = FALSE
        /\ calibrated' = [a |-> counts[p], size |-> sizes[p]]
        /\ counts' = [counts EXCEPT ![p] = << >>] /\ sizes' = [sizes EXCEPT ![p] = Bytes!None]
        /\ UNCHANGED <<calls, defaultSize, maxSize>>
    BY <1>6 DEF Bytes!EndCalibration, Bytes!Goto
  <2>2. Calibrates("load", << >>, Bytes!None, defaultSize', maxSize')
    BY DEF Calibrates, Stages
  <2>3. Pieces
    BY <2>1, <2>2, ByteMoves
  <2>4. \A q \in Pair : putter'[q] \notin Stages
    BY <2>1 DEF ByteInv, Stages
  <2>5. Covers(calibrated'.a, calibrated'.size) /\ defaultSize' = calibrated'.size.default
        /\ maxSize' = calibrated'.size.max
    BY <1>b, <2>1 DEF Calibrates
  <2>6. QED
    BY <2>1, <2>3, <2>4, <2>5 DEF ByteInv
<1>7. ASSUME NEW p \in Pair, Bytes!LoadMax(p) PROVE ByteInv'
  <2>1. putter' = [putter EXCEPT ![p] = "idle"]
    BY <1>7 DEF Bytes!LoadMax, Bytes!Goto
  <2>2. Calibrates("idle", counts[p], sizes[p], defaultSize', maxSize')
    BY <1>b DEF Calibrates, Stages
  <2>3. Pieces
    BY <1>7, <1>b, <2>1, <2>2, ByteMoves DEF Bytes!LoadMax
  <2>4. Same(p, "idle") /\ Stays /\ calls' \in [1..Steps -> Nat]
    BY <1>7, <2>1 DEF Bytes!LoadMax, Stages, ByteInv
  <2>5. QED
    BY <1>a, <2>3, <2>4
<1>8. ASSUME UNCHANGED byteVars PROVE ByteInv'
  BY <1>8 DEF byteVars, ByteInv, Bytes!None
<1>9. QED
  BY <1>1, <1>2, <1>3, <1>4, <1>5, <1>6, <1>7, <1>8 DEF Bytes!Next

-----------------------------------------------------------------------------
(* The collections together.                                               *)

LEMMA CollectionsMove ==
  ASSUME [AllNext]_allVars
  PROVE  /\ [Timing!Next]_wheelVars /\ [LRU!Next]_lruVars
         /\ [Circular!Next]_ringVars /\ [Bytes!Next]_byteVars
BY DEF AllNext, allVars, wheelVars, lruVars, ringVars, byteVars

\* Whatever interleaving of Set, Del, Get, eviction and expiry, of timer
\* operations and ticks, of puts and takes through growth and wrap-around, and
\* of Puts that calibrate: a timer fires within one turn of its time with the
\* value last set, the LRU list holds exactly the cached keys and at most the
\* limit, Take and TakeAll give the elements in order, and the pool's two sizes
\* come from one calibration and cover 95% of the calls it counted.
THEOREM CollectionsAlwaysConsistent == AllSpec => []CollectionsConsistent
<1> DEFINE Inv == WheelInv /\ LruInv /\ RingInv /\ ByteInv
<1>1. AllInit => Inv
  BY WheelInvInit, LruInvInit, RingInvInit, ByteInvInit
<1>2. Inv /\ [AllNext]_allVars => Inv'
  BY CollectionsMove, WheelInvStep, LruInvStep, RingInvStep, ByteInvStep
<1>3. Inv => CollectionsConsistent
  BY WheelInvHolds, LruInvMatches, RingInvInOrder, ByteInvHolds DEF CollectionsConsistent
<1>4. QED
  BY <1>1, <1>2, <1>3, SafetyOfAll, PTL
==============================================================================
