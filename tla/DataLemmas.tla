----------------------------- MODULE DataLemmas -----------------------------
(***************************************************************************)
(* Facts about numbers, finite sets and sums that the proofs share: nothing*)
(* here is about the program.                                              *)
(*                                                                         *)
(* What needs induction is proved by a least counterexample, from the      *)
(* well-foundedness of the numbers (WellFoundedInduction).                 *)
(***************************************************************************)
EXTENDS Integers, FiniteSets, FiniteSetTheorems, WellFoundedInduction, TLAPS

-----------------------------------------------------------------------------
(* Division.                                                               *)

LEMMA DivMod ==
  ASSUME NEW n \in Nat \ {0}, NEW x \in Nat
  PROVE  x = n * (x \div n) + (x % n) /\ x % n \in Nat /\ x % n < n /\ x \div n \in Nat
  OBVIOUS

LEMMA ModOnce == ASSUME NEW n \in Nat \ {0}, NEW x \in Nat, x < n PROVE x % n = x
  OBVIOUS

LEMMA ModTwice ==
  ASSUME NEW n \in Nat \ {0}, NEW x \in Nat, n <= x, x < n + n PROVE x % n = x - n
  OBVIOUS

LEMMA Multiples ==
  \A n, q, p \in Nat : n * q \in Nat /\ n * (q + 1) = n * q + n /\ (q <= p => n * q <= n * p)
  OBVIOUS

\* The quotient is the only one.
LEMMA DivIs ==
  ASSUME NEW n \in Nat \ {0}, NEW x \in Nat, NEW q \in Nat, n * q <= x, x < n * (q + 1)
  PROVE  x \div n = q /\ x % n = x - n * q
<1> DEFINE d == x \div n
           m == x % n
<1>1. x = n * d + m /\ m \in Nat /\ m < n /\ d \in Nat
  BY DivMod
<1> HIDE DEF d, m
<1>2. ~(d + 1 <= q)
  <2> SUFFICES ASSUME d + 1 <= q PROVE FALSE
    OBVIOUS
  <2> DEFINE u == n * d
             v == n * q
             w == n * (d + 1)
  <2>1. w <= v /\ w = u + n /\ u \in Nat /\ v \in Nat
    BY <1>1, Multiples
  <2>2. v <= x /\ x = u + m
    BY <1>1
  <2> HIDE DEF u, v, w
  <2>3. QED
    BY <1>1, <2>1, <2>2
<1>3. ~(q + 1 <= d)
  <2> SUFFICES ASSUME q + 1 <= d PROVE FALSE
    OBVIOUS
  <2> DEFINE u == n * d
             w == n * (q + 1)
  <2>1. w <= u /\ u \in Nat /\ w \in Nat
    BY <1>1, Multiples
  <2>2. x < w /\ x = u + m
    BY <1>1
  <2> HIDE DEF u, w
  <2>3. QED
    BY <1>1, <2>1, <2>2
<1>4. d = q
  BY <1>1, <1>2, <1>3
<1>5. m = x - n * q
  <2> DEFINE u == n * q
  <2>1. x = u + m /\ u \in Nat
    BY <1>1, <1>4, Multiples
  <2> HIDE DEF u
  <2>2. m = x - u
    BY <1>1, <2>1
  <2>3. QED
    BY <2>2 DEF u
<1>6. QED
  BY <1>4, <1>5 DEF d, m

\* One tick moves on within the interval or begins the next one.
LEMMA DivNext ==
  ASSUME NEW n \in Nat \ {0}, NEW x \in Nat
  PROVE  /\ (x % n) + 1 < n => (x + 1) \div n = x \div n /\ (x + 1) % n = (x % n) + 1
         /\ (x % n) + 1 = n => (x + 1) \div n = (x \div n) + 1 /\ (x + 1) % n = 0
<1> DEFINE d == x \div n
           m == x % n
           u == n * d
           w == n * (d + 1)
           y == x + 1
<1>1. x = u + m /\ m \in Nat /\ m < n /\ d \in Nat /\ y \in Nat
  BY DivMod
<1> HIDE DEF d, m
<1>2. u \in Nat /\ w = u + n /\ n * (d + 1 + 1) = w + n
  BY <1>1, Multiples
<1>3. CASE m + 1 < n
  <2>1. u <= y /\ y < w /\ y - u = m + 1
    <3> HIDE DEF u, w
    <3> QED
      BY <1>1, <1>2, <1>3
  <2>2. n * d <= y /\ y < n * (d + 1)
    BY <2>1
  <2>3. y \div n = d /\ y % n = y - n * d
    <3> HIDE DEF y, u, w
    <3> QED
      BY <1>1, <2>2, DivIs
  <2>4. QED
    BY <1>3, <2>1, <2>3 DEF d, m
<1>4. CASE m + 1 = n
  <2>1. w <= y /\ y < w + n /\ y - w = 0 /\ d + 1 \in Nat
    <3> HIDE DEF u, w
    <3> QED
      BY <1>1, <1>2, <1>4
  <2>2. n * (d + 1) <= y /\ y < n * (d + 1 + 1)
    BY <1>2, <2>1
  <2>3. y \div n = d + 1 /\ y % n = y - n * (d + 1)
    <3> HIDE DEF y, u, w
    <3> QED
      BY <1>1, <2>1, <2>2, DivIs, ZenonT(60)
  <2>4. QED
    BY <1>4, <2>1, <2>3 DEF d, m
<1>5. QED
  BY <1>3, <1>4 DEF m

\* x modulo n, for an x within two rounds.
Turn(n, x) == IF x < n THEN x ELSE x - n

LEMMA TurnIs ==
  ASSUME NEW n \in Nat \ {0}, NEW x \in Nat, x < n + n
  PROVE  x % n = Turn(n, x) /\ Turn(n, x) \in 0..(n - 1)
<1>1. CASE x < n
  BY <1>1, ModOnce DEF Turn
<1>2. CASE n <= x
  <2>1. x % n = x - n
    BY <1>2, ModTwice
  <2>2. Turn(n, x) = x - n /\ x - n \in 0..(n - 1)
    BY <1>2 DEF Turn
  <2>3. QED
    BY <2>1, <2>2
<1>3. QED
  BY <1>1, <1>2

-----------------------------------------------------------------------------
(* Induction, as the least counterexample.                                 *)

\* A set of numbers that is not empty has a least one.
LEMMA LeastNumber ==
  ASSUME NEW T \in SUBSET Nat, T # {}
  PROVE  \E x \in T : \A y \in T : x <= y
<1>1. PICK x \in T : \A y \in T : ~(<<y, x>> \in OpToRel(<, Nat))
  BY NatLessThanWellFounded, WFMin, Zenon
<1>2. \A y \in T : ~(y < x)
  BY <1>1 DEF OpToRel
<1>3. QED
  BY <1>2

\* Induction on a finite set: of the sets that break a claim one is smallest.
LEMMA SmallestSet ==
  ASSUME NEW S, IsFiniteSet(S), NEW F \in SUBSET (SUBSET S), F # {}
  PROVE  \E T \in F : \A x \in T : T \ {x} \notin F
<1> DEFINE N == {Cardinality(T) : T \in F}
<1>1. \A T \in F : IsFiniteSet(T) /\ Cardinality(T) \in Nat
  BY FS_Subset, FS_CardinalityType
<1>2. N \in SUBSET Nat /\ N # {}
  BY <1>1
<1>3. PICK m \in N : \A k \in N : m <= k
  BY <1>2, LeastNumber
<1>4. PICK T \in F : Cardinality(T) = m
  BY <1>3
<1>5. ASSUME NEW x \in T, T \ {x} \in F PROVE FALSE
  <2>1. Cardinality(T \ {x}) = m - 1
    BY <1>1, <1>4, FS_RemoveElement
  <2>2. m <= m - 1
    BY <2>1, <1>3, <1>5
  <2>3. m \in Nat
    BY <1>2
  <2>4. QED
    BY <2>2, <2>3
<1>6. QED
  BY <1>5

\* A bounded set of numbers that is not empty has a greatest one.
LEMMA GreatestNumber ==
  ASSUME NEW N \in Nat, NEW T \in SUBSET (0..N), T # {}
  PROVE  \E x \in T : \A y \in T : x >= y
<1> DEFINE U == {N - y : y \in T}
<1>1. U \in SUBSET Nat /\ U # {}
  <2>1. \A y \in T : N - y \in Nat
    OBVIOUS
  <2>2. QED
    BY <2>1
<1>2. PICK u \in U : \A v \in U : u <= v
  BY <1>1, LeastNumber
<1>3. PICK x \in T : u = N - x
  BY <1>2
<1>4. \A y \in T : N - x <= N - y
  BY <1>2, <1>3
<1>5. QED
  BY <1>4

-----------------------------------------------------------------------------
(* Recursion over a finite set: the function a fold computes exists.  What *)
(* an element adds is a function G here, and p the choice of the next one. *)

FoldsTo(S, p, b, G, f) ==
    \A s \in SUBSET S : f[s] = IF s = {} THEN b ELSE G[s][f[s \ {p[s]}]]

\* The same, as far as the sets of at most k elements.
FoldsUpTo(S, p, b, G, f, k) ==
    \A s \in SUBSET S : Cardinality(s) <= k => f[s] = IF s = {} THEN b ELSE G[s][f[s \ {p[s]}]]

\* p chooses from a set, and G stays in X.
Folding(S, p, b, G, X) ==
    /\ b \in X
    /\ \A s \in SUBSET S : s # {} => p[s] \in s /\ \A v \in X : G[s][v] \in X

LEMMA FoldsOneMore ==
  ASSUME NEW S, IsFiniteSet(S), NEW X, NEW p, NEW b, NEW G, Folding(S, p, b, G, X),
         NEW k \in Nat, NEW g \in [SUBSET S -> X], FoldsUpTo(S, p, b, G, g, k)
  PROVE  \E h \in [SUBSET S -> X] : FoldsUpTo(S, p, b, G, h, k + 1)
<1> DEFINE h == [s \in SUBSET S |-> IF Cardinality(s) = k + 1 THEN G[s][g[s \ {p[s]}]] ELSE g[s]]
<1>1. \A s \in SUBSET S : IsFiniteSet(s) /\ Cardinality(s) \in Nat
  BY FS_Subset, FS_CardinalityType
<1>2. \A s \in SUBSET S : s # {} => /\ p[s] \in s /\ s \ {p[s]} \in SUBSET S
                                    /\ Cardinality(s \ {p[s]}) = Cardinality(s) - 1
  BY <1>1, FS_RemoveElement DEF Folding
<1>3. \A s \in SUBSET S : Cardinality(s) = k + 1 => s # {}
  <2>1. Cardinality({}) = 0 /\ 0 # k + 1
    BY FS_EmptySet
  <2>2. QED
    BY <2>1
<1>4. h \in [SUBSET S -> X]
  <2>1. \A s \in SUBSET S : Cardinality(s) = k + 1 => G[s][g[s \ {p[s]}]] \in X
    <3> SUFFICES ASSUME NEW s \in SUBSET S, Cardinality(s) = k + 1 PROVE G[s][g[s \ {p[s]}]] \in X
      OBVIOUS
    <3>1. s # {} /\ g[s \ {p[s]}] \in X
      BY <1>2, <1>3
    <3>2. QED
      BY <3>1 DEF Folding
  <2>2. QED
    BY <2>1
<1>5. \A s \in SUBSET S : Cardinality(s) <= k => h[s] = g[s]
  BY <1>1
<1>6. \A s \in SUBSET S : Cardinality(s) = k + 1 => h[s] = G[s][g[s \ {p[s]}]]
  OBVIOUS
<1> HIDE DEF h
<1>7. ASSUME NEW s \in SUBSET S, Cardinality(s) <= k + 1
      PROVE  h[s] = IF s = {} THEN b ELSE G[s][h[s \ {p[s]}]]
  <2>1. s # {} => h[s \ {p[s]}] = g[s \ {p[s]}]
    BY <1>1, <1>2, <1>5, <1>7
  <2>2. CASE Cardinality(s) = k + 1
    BY <2>1, <2>2, <1>3, <1>6
  <2>3. CASE Cardinality(s) <= k
    BY <2>1, <2>3, <1>5 DEF FoldsUpTo
  <2>4. QED
    BY <2>2, <2>3, <1>1, <1>7
<1>8. QED
  BY <1>4, <1>7 DEF FoldsUpTo

LEMMA FoldExists ==
  ASSUME NEW S, IsFiniteSet(S), NEW X, NEW p, NEW b, NEW G, Folding(S, p, b, G, X)
  PROVE  \E g \in [SUBSET S -> X] : FoldsTo(S, p, b, G, g)
<1> DEFINE B == {k \in Nat : ~\E g \in [SUBSET S -> X] : FoldsUpTo(S, p, b, G, g, k)}
<1>1. \A s \in SUBSET S : IsFiniteSet(s) /\ Cardinality(s) \in Nat /\ Cardinality(s) <= Cardinality(S)
  BY FS_Subset, FS_CardinalityType
<1>2. B = {}
  <2> SUFFICES ASSUME B # {} PROVE FALSE
    OBVIOUS
  <2>1. PICK k \in B : \A j \in B : k <= j
    BY LeastNumber
  <2>2. k # 0
    <3> DEFINE z == [s \in SUBSET S |-> b]
    <3>1. z \in [SUBSET S -> X] /\ \A s \in SUBSET S : z[s] = b
      BY DEF Folding
    <3>2. \A s \in SUBSET S : Cardinality(s) <= 0 => s = {}
      BY <1>1, FS_EmptySet
    <3>3. FoldsUpTo(S, p, b, G, z, 0)
      BY <3>1, <3>2 DEF FoldsUpTo
    <3>4. 0 \notin B
      BY <3>1, <3>3
    <3>5. QED
      BY <2>1, <3>4
  <2>3. k - 1 \in Nat /\ ~(k <= k - 1) /\ (k - 1) + 1 = k
    BY <2>1, <2>2
  <2>4. PICK g \in [SUBSET S -> X] : FoldsUpTo(S, p, b, G, g, k - 1)
    BY <2>1, <2>3
  <2>5. \E h \in [SUBSET S -> X] : FoldsUpTo(S, p, b, G, h, (k - 1) + 1)
    BY <2>3, <2>4, FoldsOneMore
  <2>6. QED
    BY <2>1, <2>3, <2>5
<1>3. Cardinality(S) \in Nat
  BY FS_CardinalityType
<1>4. PICK g \in [SUBSET S -> X] : FoldsUpTo(S, p, b, G, g, Cardinality(S))
  BY <1>2, <1>3
<1>5. QED
  BY <1>1, <1>4 DEF FoldsUpTo, FoldsTo

-----------------------------------------------------------------------------
(* Sums over a finite set.                                                 *)

Counts(n, S) == \A x \in S : n[x] \in Nat

Pick(s) == CHOOSE x \in s : TRUE

LEMMA PickIn == ASSUME NEW s, s # {} PROVE Pick(s) \in s
  BY DEF Pick

\* g sums n over the subsets of S, picking one element after the other.
Sums(n, S, g) ==
    \A s \in SUBSET S : g[s] = IF s = {} THEN 0 ELSE n[Pick(s)] + g[s \ {Pick(s)}]

LEMMA SumsExist ==
  ASSUME NEW S, IsFiniteSet(S), NEW n, Counts(n, S)
  PROVE  \E g \in [SUBSET S -> Nat] : Sums(n, S, g)
<1> DEFINE p == [s \in SUBSET S |-> Pick(s)]
           G == [s \in SUBSET S |-> [v \in Nat |-> n[Pick(s)] + v]]
<1>1. \A s \in SUBSET S : s # {} => p[s] = Pick(s) /\ Pick(s) \in s /\ n[Pick(s)] \in Nat
  BY PickIn DEF Counts
<1>2. \A v \in Nat, s \in SUBSET S : G[s][v] = n[Pick(s)] + v
  OBVIOUS
<1> HIDE DEF p, G
<1>3. Folding(S, p, 0, G, Nat)
  BY <1>1, <1>2 DEF Folding
<1>4. PICK g \in [SUBSET S -> Nat] : FoldsTo(S, p, 0, G, g)
  BY <1>3, FoldExists
<1>5. ASSUME NEW s \in SUBSET S PROVE g[s] = IF s = {} THEN 0 ELSE n[Pick(s)] + g[s \ {Pick(s)}]
  <2>1. CASE s = {}
    BY <2>1, <1>4 DEF FoldsTo
  <2>2. CASE s # {}
    <3>1. g[s] = G[s][g[s \ {Pick(s)}]]
      BY <2>2, <1>1, <1>4 DEF FoldsTo
    <3>2. g[s \ {Pick(s)}] \in Nat
      OBVIOUS
    <3>3. QED
      BY <2>2, <3>1, <3>2, <1>2
  <2>3. QED
    BY <2>1, <2>2
<1>6. QED
  BY <1>5 DEF Sums

\* There is one way to sum.
LEMMA SumsAgree ==
  ASSUME NEW S, IsFiniteSet(S), NEW T \in SUBSET S, NEW n, NEW g, NEW h,
         Sums(n, S, g), Sums(n, T, h)
  PROVE  \A s \in SUBSET T : g[s] = h[s]
<1> DEFINE F == {s \in SUBSET T : g[s] # h[s]}
<1> SUFFICES ASSUME F # {} PROVE FALSE
  OBVIOUS
<1>1. F \in SUBSET (SUBSET S)
  OBVIOUS
<1>2. PICK s \in F : \A x \in s : s \ {x} \notin F
  <2> HIDE DEF F
  <2>1. QED
    BY <1>1, SmallestSet
<1>3. s # {}
  BY <1>2 DEF Sums
<1>4. Pick(s) \in s /\ s \ {Pick(s)} \in SUBSET T
  BY <1>2, <1>3, PickIn
<1>5. g[s \ {Pick(s)}] = h[s \ {Pick(s)}]
  BY <1>2, <1>4
<1>6. g[s] = n[Pick(s)] + g[s \ {Pick(s)}] /\ h[s] = n[Pick(s)] + h[s \ {Pick(s)}]
  BY <1>2, <1>3 DEF Sums
<1>7. QED
  BY <1>2, <1>5, <1>6

AnyOrder(n, S, g) == \A s \in SUBSET S : \A x \in s : g[s] = n[x] + g[s \ {x}]

\* Any element may come first.
LEMMA SumsAnyOrder ==
  ASSUME NEW S, IsFiniteSet(S), NEW n, Counts(n, S),
         NEW g \in [SUBSET S -> Nat], Sums(n, S, g)
  PROVE  AnyOrder(n, S, g)
<1> DEFINE F == {s \in SUBSET S : ~\A x \in s : g[s] = n[x] + g[s \ {x}]}
<1> SUFFICES ASSUME F # {} PROVE FALSE
  BY DEF AnyOrder
<1>1. F \in SUBSET (SUBSET S)
  OBVIOUS
<1>2. PICK s \in F : \A x \in s : s \ {x} \notin F
  <2> HIDE DEF F
  <2>1. QED
    BY <1>1, SmallestSet
<1>3. PICK x \in s : g[s] # n[x] + g[s \ {x}]
  BY <1>2
<1> DEFINE p == Pick(s)
<1>4. p \in s /\ g[s] = n[p] + g[s \ {p}]
  BY <1>2, <1>3, PickIn DEF Sums
<1> HIDE DEF p
<1>5. x # p
  BY <1>3, <1>4
<1>6. g[s \ {p}] = n[x] + g[(s \ {p}) \ {x}]
  BY <1>2, <1>3, <1>4, <1>5
<1>7. g[s \ {x}] = n[p] + g[(s \ {x}) \ {p}]
  BY <1>2, <1>3, <1>4, <1>5
<1>8. (s \ {p}) \ {x} = (s \ {x}) \ {p}
  OBVIOUS
<1>9. n[x] \in Nat /\ n[p] \in Nat /\ g[(s \ {p}) \ {x}] \in Nat
  BY <1>2, <1>3, <1>4 DEF Counts
<1> DEFINE r == g[(s \ {p}) \ {x}]
<1>10. g[s] = n[p] + (n[x] + r) /\ g[s \ {x}] = n[p] + r /\ r \in Nat
  BY <1>4, <1>6, <1>7, <1>8, <1>9
<1> HIDE DEF r
<1>11. QED
  BY <1>3, <1>9, <1>10

\* The more elements, the larger the sum.
LEMMA SumsGrow ==
  ASSUME NEW S, IsFiniteSet(S), NEW n, Counts(n, S),
         NEW g \in [SUBSET S -> Nat], Sums(n, S, g)
  PROVE  \A t \in SUBSET S : \A s \in SUBSET t : g[s] <= g[t]
<1> DEFINE F == {t \in SUBSET S : ~\A s \in SUBSET t : g[s] <= g[t]}
<1> SUFFICES ASSUME F # {} PROVE FALSE
  OBVIOUS
<1>1. F \in SUBSET (SUBSET S)
  OBVIOUS
<1>2. PICK t \in F : \A x \in t : t \ {x} \notin F
  <2> HIDE DEF F
  <2>1. QED
    BY <1>1, SmallestSet
<1>3. PICK s \in SUBSET t : ~(g[s] <= g[t])
  BY <1>2
<1>4. g[s] \in Nat /\ g[t] \in Nat
  BY <1>2, <1>3
<1>5. PICK x \in t : x \notin s
  <2>1. s # t
    BY <1>3, <1>4
  <2>2. QED
    BY <2>1
<1>6. g[s] <= g[t \ {x}] /\ g[t \ {x}] \in Nat
  BY <1>2, <1>3, <1>5
<1>7. g[t] = n[x] + g[t \ {x}] /\ n[x] \in Nat
  <2>1. AnyOrder(n, S, g)
    BY SumsAnyOrder
  <2>2. QED
    BY <2>1, <1>2, <1>5 DEF Counts, AnyOrder
<1>8. QED
  BY <1>3, <1>4, <1>6, <1>7
=============================================================================
