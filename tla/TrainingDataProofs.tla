-------------------------- MODULE TrainingDataProofs --------------------------
(***************************************************************************)
(* Proofs about TrainingData, for series of any length and any settings:   *)
(* what a fit answers, and what it saves of the data.                      *)
(*                                                                         *)
(* First come lemmas about sums over finite sets, order statistics and     *)
(* medians, increasing series, constant tails and the distances of pairs;  *)
(* none of them mentions the service.                                      *)
(***************************************************************************)
EXTENDS TrainingData, TLAPS, FiniteSetTheorems, SequenceTheorems,
        WellFoundedInduction

-----------------------------------------------------------------------------
(* Sums of a function over a finite set *)

\* The sum of f over S.
Total(f, S) == MapThenSumSet(LAMBDA x : f[x], S)

\* F adds the values of f, one by one in any order, over each subset of S.
AddsUp(F, f, S) ==
  /\ F \in [SUBSET S -> Int]
  /\ F[{}] = 0
  /\ \A s \in SUBSET S : \A x \in s : F[s] = f[x] + F[s \ {x}]

\* A finite set has a smallest subset among any of its subsets.
LEMMA SmallestSubset ==
  ASSUME NEW S, IsFiniteSet(S), NEW T, T \subseteq SUBSET S, T # {}
  PROVE  \E s \in T : \A x \in s : s \ {x} \notin T
  <1>1. T \subseteq FiniteSubsetsOf(S)
    BY FS_Subset DEF FiniteSubsetsOf
  <1>2. PICK s \in T : \A t \in T : <<t, s>> \notin StrictSubsetOrdering(S)
    <2>1. IsWellFoundedOn(StrictSubsetOrdering(S), FiniteSubsetsOf(S))
      BY FS_StrictSubsetOrderingWellFounded
    <2> QED
      BY <1>1, <2>1, WFMin
  <1>3. ASSUME NEW x \in s PROVE s \ {x} \notin T
    <2>1. s \ {x} \in SUBSET S /\ s \ {x} # s /\ s \ {x} \subseteq s /\ s \in SUBSET S
      OBVIOUS
    <2>2. <<s \ {x}, s>> \in StrictSubsetOrdering(S)
      BY <2>1 DEF StrictSubsetOrdering
    <2> QED
      BY <1>2, <2>2
  <1> QED
    BY <1>3

\* A function that adds up the values of f is their sum.
LEMMA TotalIs ==
  ASSUME NEW S, IsFiniteSet(S), NEW f, NEW F, AddsUp(F, f, S)
  PROVE  Total(f, S) = F[S]
  <1> USE DEF AddsUp
  <1> DEFINE OneLess(G, s) ==
        IF s = {} THEN 0 ELSE LET x == CHOOSE x \in s : TRUE IN f[x] + G[s \ {x}]
  <1>1. F = [s \in SUBSET S |-> OneLess(F, s)]
    <2>1. ASSUME NEW s \in SUBSET S PROVE F[s] = OneLess(F, s)
      <3>1. CASE s = {}
        BY <3>1
      <3>2. CASE s # {}
        <4>1. (CHOOSE x \in s : TRUE) \in s
          BY <3>2
        <4> QED
          BY <3>2, <4>1
      <3> QED
        BY <3>1, <3>2
    <2> HIDE DEF OneLess
    <2> QED
      BY <2>1
  <1>2. PICK G : G = [s \in SUBSET S |-> OneLess(G, s)] /\ Total(f, S) = G[S]
    BY <1>1 DEF Total, MapThenSumSet, MapThenFoldSet
  <1> DEFINE Differ == {s \in SUBSET S : F[s] # G[s]}
  <1>3. CASE Differ = {}
    BY <1>2, <1>3
  <1>4. CASE Differ # {}
    <2>1. PICK s \in Differ : \A x \in s : s \ {x} \notin Differ
      <3>1. Differ \subseteq SUBSET S
        OBVIOUS
      <3> HIDE DEF Differ
      <3> QED
        BY <1>4, <3>1, SmallestSubset
    <2>2. s # {}
      BY <1>2
    <2> DEFINE x == CHOOSE x \in s : TRUE
    <2>3. x \in s /\ s \ {x} \in SUBSET S
      BY <2>2
    <2>4. F[s \ {x}] = G[s \ {x}]
      BY <2>1, <2>3
    <2>5. G[s] = f[x] + G[s \ {x}]
      BY <1>2, <2>2
    <2>6. F[s] = f[x] + F[s \ {x}]
      BY <2>3
    <2> QED
      BY <2>4, <2>5, <2>6
  <1> QED
    BY <1>3, <1>4

\* One place for each unit of each value, where the values are naturals.
Units(f, S) == UNION {{x} \X (1 .. f[x]) : x \in S}

\* The numbers up to n.
LEMMA CountUpTo ==
  ASSUME NEW n \in Nat
  PROVE  IsFiniteSet(1 .. n) /\ Cardinality(1 .. n) = n
  <1>1. 1 \in Int /\ n \in Int
    OBVIOUS
  <1>2. IsFiniteSet(1 .. n) /\ Cardinality(1 .. n) = IF 1 > n THEN 0 ELSE n - 1 + 1
    BY <1>1, FS_Interval
  <1> QED
    BY <1>2

\* Finitely many values have finitely many units.
LEMMA UnitsFinite ==
  ASSUME NEW S, IsFiniteSet(S), NEW f, \A x \in S : f[x] \in Nat
  PROVE  IsFiniteSet(Units(f, S)) /\ Cardinality(Units(f, S)) \in Nat
  <1> DEFINE R == {{x} \X (1 .. f[x]) : x \in S}
             g == [x \in S |-> {x} \X (1 .. f[x])]
  <1>1. g \in Surjection(S, R)
    BY DEF Surjection
  <1>2. IsFiniteSet(R)
    BY <1>1, FS_Surjection
  <1>3. ASSUME NEW x \in S PROVE IsFiniteSet({x} \X (1 .. f[x]))
    <2>1. IsFiniteSet({x}) /\ IsFiniteSet(1 .. f[x])
      BY CountUpTo, FS_Singleton
    <2> QED
      BY <2>1, FS_Product
  <1>4. IsFiniteSet(Units(f, S))
    BY <1>2, <1>3, FS_UNION DEF Units
  <1> QED
    BY <1>4, FS_CardinalityType

\* One more value brings as many units as it says.
LEMMA UnitsGrow ==
  ASSUME NEW S, IsFiniteSet(S), NEW f, \A x \in S : f[x] \in Nat, NEW x \in S
  PROVE  Cardinality(Units(f, S)) = f[x] + Cardinality(Units(f, S \ {x}))
  <1> DEFINE U == {x} \X (1 .. f[x])
             W == Units(f, S \ {x})
  <1>1. Units(f, S) = U \cup W /\ U \cap W = {}
    BY DEF Units
  <1>2. IsFiniteSet(W) /\ Cardinality(W) \in Nat
    <2>1. IsFiniteSet(S \ {x})
      BY FS_Subset
    <2> QED
      BY <2>1, UnitsFinite
  <1>3. IsFiniteSet(U) /\ Cardinality(U) = f[x]
    <2>1. IsFiniteSet({x}) /\ Cardinality({x}) = 1
      BY FS_Singleton
    <2>2. IsFiniteSet(1 .. f[x]) /\ Cardinality(1 .. f[x]) = f[x] /\ f[x] \in Nat
      BY CountUpTo
    <2>3. IsFiniteSet(U) /\ Cardinality(U) = Cardinality({x}) * Cardinality(1 .. f[x])
      BY <2>1, <2>2, FS_Product
    <2>4. 1 * f[x] = f[x]
      BY <2>2
    <2> QED
      BY <2>1, <2>2, <2>3, <2>4
  <1> HIDE DEF U, W
  <1>4. Cardinality(U \cup W) = Cardinality(U) + Cardinality(W) - Cardinality({})
    BY <1>1, <1>2, <1>3, FS_Union
  <1>5. Cardinality({}) = 0
    BY FS_EmptySet
  <1>6. f[x] \in Nat
    OBVIOUS
  <1>7. Cardinality(Units(f, S)) = f[x] + Cardinality(W)
    BY <1>1, <1>2, <1>3, <1>4, <1>5, <1>6
  <1> QED
    BY <1>7 DEF W

\* Integers are the difference of naturals, so that what adds them up exists.
LEMMA AddsUpExists ==
  ASSUME NEW S, IsFiniteSet(S), NEW f, \A x \in S : f[x] \in Int
  PROVE  \E F : AddsUp(F, f, S)
  <1> DEFINE p == [x \in S |-> IF f[x] >= 0 THEN f[x] ELSE 0]
             q == [x \in S |-> IF f[x] >= 0 THEN 0 ELSE - f[x]]
             F == [s \in SUBSET S |->
                     Cardinality(Units(p, s)) - Cardinality(Units(q, s))]
  <1>1. \A x \in S : p[x] \in Nat /\ q[x] \in Nat /\ f[x] = p[x] - q[x]
    OBVIOUS
  <1> HIDE DEF p, q
  <1>2. \A s \in SUBSET S : /\ IsFiniteSet(s)
                            /\ Cardinality(Units(p, s)) \in Nat
                            /\ Cardinality(Units(q, s)) \in Nat
    BY <1>1, FS_Subset, UnitsFinite
  <1>3. F \in [SUBSET S -> Int]
    BY <1>2
  <1>4. F[{}] = 0
    <2>1. Units(p, {}) = {} /\ Units(q, {}) = {}
      BY DEF Units
    <2> QED
      BY <2>1, FS_EmptySet
  <1>5. ASSUME NEW s \in SUBSET S, NEW x \in s
        PROVE  F[s] = f[x] + F[s \ {x}]
    <2>1. /\ Cardinality(Units(p, s)) = p[x] + Cardinality(Units(p, s \ {x}))
          /\ Cardinality(Units(q, s)) = q[x] + Cardinality(Units(q, s \ {x}))
      BY <1>1, <1>2, UnitsGrow
    <2>2. /\ s \ {x} \in SUBSET S
          /\ Cardinality(Units(p, s \ {x})) \in Nat
          /\ Cardinality(Units(q, s \ {x})) \in Nat
      BY <1>2
    <2>3. p[x] \in Nat /\ q[x] \in Nat /\ f[x] = p[x] - q[x]
      BY <1>1
    <2> QED
      BY <2>1, <2>2, <2>3
  <1> HIDE DEF F
  <1>6. AddsUp(F, f, S)
    BY <1>3, <1>4, <1>5 DEF AddsUp
  <1> QED
    BY <1>6

\* A sum is an integer, 0 over no element, and one element can be taken apart.
LEMMA TotalStep ==
  ASSUME NEW S, IsFiniteSet(S), NEW f, \A x \in S : f[x] \in Int
  PROVE  /\ Total(f, {}) = 0
         /\ Total(f, S) \in Int
         /\ \A x \in S : Total(f, S) = f[x] + Total(f, S \ {x})
  <1>1. PICK F : AddsUp(F, f, S)
    BY AddsUpExists
  <1>2. ASSUME NEW s \in SUBSET S PROVE Total(f, s) = F[s]
    <2> DEFINE G == [t \in SUBSET s |-> F[t]]
    <2>1. AddsUp(G, f, s)
      BY <1>1 DEF AddsUp
    <2>2. IsFiniteSet(s)
      BY FS_Subset
    <2>3. Total(f, s) = G[s]
      <3> HIDE DEF G
      <3> QED
        BY <2>1, <2>2, TotalIs
    <2> QED
      BY <2>3
  <1> QED
    BY <1>1, <1>2 DEF AddsUp

\* The sum of what combines two functions combines their sums.
LEMMA TotalIsLinear ==
  ASSUME NEW S, IsFiniteSet(S), NEW f, NEW g, NEW h,
         NEW a \in Int, NEW b \in Int, NEW c \in Int,
         \A x \in S : /\ f[x] \in Int /\ g[x] \in Int
                      /\ h[x] = a * f[x] + b * g[x] + c
  PROVE  Total(h, S) = a * Total(f, S) + b * Total(g, S) + c * Cardinality(S)
  <1> DEFINE F == [s \in SUBSET S |->
                     a * Total(f, s) + b * Total(g, s) + c * Cardinality(s)]
  <1>1. ASSUME NEW s \in SUBSET S
        PROVE  /\ IsFiniteSet(s) /\ Cardinality(s) \in Nat
               /\ Total(f, s) \in Int /\ Total(g, s) \in Int
               /\ \A x \in s : /\ Total(f, s) = f[x] + Total(f, s \ {x})
                               /\ Total(g, s) = g[x] + Total(g, s \ {x})
                               /\ Cardinality(s) = Cardinality(s \ {x}) + 1
    <2>1. IsFiniteSet(s) /\ Cardinality(s) \in Nat
      BY FS_Subset, FS_CardinalityType
    <2>2. /\ Total(f, s) \in Int /\ Total(g, s) \in Int
          /\ \A x \in s : /\ Total(f, s) = f[x] + Total(f, s \ {x})
                          /\ Total(g, s) = g[x] + Total(g, s \ {x})
      BY <2>1, TotalStep
    <2>3. ASSUME NEW x \in s PROVE Cardinality(s) = Cardinality(s \ {x}) + 1
      <3>1. IsFiniteSet(s \ {x}) /\ (s \ {x}) \cup {x} = s /\ x \notin s \ {x}
        BY <2>1, FS_Subset
      <3> QED
        BY <3>1, FS_AddElement
    <2> QED
      BY <2>1, <2>2, <2>3
  <1>2. F \in [SUBSET S -> Int]
    BY <1>1
  <1>3. F[{}] = 0
    <2>1. Total(f, {}) = 0 /\ Total(g, {}) = 0 /\ Cardinality({}) = 0
      BY TotalStep, FS_EmptySet
    <2> QED
      BY <2>1
  <1>4. ASSUME NEW s \in SUBSET S, NEW x \in s
        PROVE  F[s] = h[x] + F[s \ {x}]
    <2> DEFINE t == s \ {x}
    <2>1. t \in SUBSET S /\ x \in S
      OBVIOUS
    <2> DEFINE u == Total(f, t)
               w == Total(g, t)
               k == Cardinality(t)
    <2>2. u \in Int /\ w \in Int /\ k \in Int
      BY <1>1, <2>1
    <2>3. Total(f, s) = f[x] + u /\ Total(g, s) = g[x] + w /\ Cardinality(s) = k + 1
      BY <1>1
    <2>4. F[t] = a * u + b * w + c * k
      BY <2>1
    <2>5. F[s] = a * (f[x] + u) + b * (g[x] + w) + c * (k + 1)
      BY <2>3
    <2> HIDE DEF u, w, k, F
    <2>6. /\ a * (f[x] + u) = a * f[x] + a * u
          /\ b * (g[x] + w) = b * g[x] + b * w
          /\ c * (k + 1) = c * k + c
      <3>1. \A i, j, l \in Int : i * (j + l) = i * j + i * l
        OBVIOUS
      <3>2. f[x] \in Int /\ g[x] \in Int
        BY <2>1
      <3> QED
        BY <2>2, <3>1, <3>2
    <2>7. /\ a * f[x] \in Int /\ a * u \in Int /\ b * g[x] \in Int /\ b * w \in Int
          /\ c * k \in Int
      BY <2>1, <2>2
    <2>8. h[x] = a * f[x] + b * g[x] + c
      BY <2>1
    <2> QED
      BY <2>4, <2>5, <2>6, <2>7, <2>8
  <1> HIDE DEF F
  <1>5. AddsUp(F, h, S)
    BY <1>2, <1>3, <1>4 DEF AddsUp
  <1>6. Total(h, S) = F[S]
    BY <1>5, TotalIs
  <1> QED
    BY <1>6 DEF F

\* A sum of naturals, of which some are c or more, is at least c times as much as
\* these are many.
LEMMA TotalIsAtLeast ==
  ASSUME NEW S, IsFiniteSet(S), NEW h, NEW c \in Nat, NEW K, K \subseteq S,
         \A x \in S : h[x] \in Nat,
         \A x \in K : h[x] >= c
  PROVE  Total(h, S) >= c * Cardinality(K)
  <1> DEFINE T == {s \in SUBSET S : ~(Total(h, s) >= c * Cardinality(s \cap K))}
  <1>1. CASE T = {}
    <2>1. S \cap K = K
      OBVIOUS
    <2> QED
      BY <1>1, <2>1
  <1>2. CASE T # {}
    <2>1. PICK s \in T : \A x \in s : s \ {x} \notin T
      <3>1. T \subseteq SUBSET S
        OBVIOUS
      <3> HIDE DEF T
      <3> QED
        BY <1>2, <3>1, SmallestSubset
    <2>2. IsFiniteSet(s) /\ IsFiniteSet(s \cap K)
      BY FS_Subset
    <2>3. s # {}
      <3> SUFFICES ASSUME s = {} PROVE FALSE
        OBVIOUS
      <3>1. Total(h, s) = 0 /\ Cardinality(s \cap K) = 0
        BY <2>2, TotalStep, FS_EmptySet
      <3> QED
        BY <3>1
    <2>4. PICK x \in s : TRUE
      BY <2>3
    <2> DEFINE t == s \ {x}
    <2>5. Total(h, s) = h[x] + Total(h, t) /\ Total(h, t) \in Int
      <3>1. IsFiniteSet(t)
        BY <2>2, FS_Subset
      <3> QED
        BY <2>2, <3>1, TotalStep
    <2>6. Total(h, t) >= c * Cardinality(t \cap K)
      BY <2>1, <2>4
    <2>7. IsFiniteSet(t \cap K) /\ Cardinality(t \cap K) \in Nat
      BY <2>2, FS_Subset, FS_CardinalityType
    <2> DEFINE k == Cardinality(t \cap K)
    <2>8. CASE x \in K
      <3>1. s \cap K = (t \cap K) \cup {x} /\ x \notin t \cap K
        BY <2>4, <2>8
      <3>2. Cardinality(s \cap K) = k + 1
        BY <2>7, <3>1, FS_AddElement
      <3>3. h[x] >= c /\ h[x] \in Nat
        BY <2>8
      <3> HIDE DEF t, k
      <3>4. c * (k + 1) = c * k + c /\ c * k \in Int
        BY <2>7 DEF k
      <3>5. Total(h, s) >= c * (k + 1)
        BY <2>5, <2>6, <3>3, <3>4 DEF k
      <3> QED
        BY <3>2, <3>5
    <2>9. CASE x \notin K
      <3>1. s \cap K = t \cap K
        BY <2>9
      <3>2. h[x] \in Nat /\ c * k \in Int
        BY <2>4, <2>7
      <3> HIDE DEF t
      <3>3. Total(h, s) >= c * k
        BY <2>5, <2>6, <3>2
      <3> QED
        BY <3>1, <3>3
    <2> QED
      BY <2>8, <2>9
  <1> QED
    BY <1>1, <1>2

-----------------------------------------------------------------------------
(* Sums over a series *)

\* The places of a series.
LEMMA Places ==
  ASSUME NEW R, NEW s \in Seq(R)
  PROVE  /\ Len(s) \in Nat /\ DOMAIN s = 1 .. Len(s)
         /\ IsFiniteSet(DOMAIN s) /\ Cardinality(DOMAIN s) = Len(s)
         /\ \A T : T \subseteq DOMAIN s =>
              IsFiniteSet(T) /\ Cardinality(T) \in Nat /\ Cardinality(T) <= Len(s)
  <1>1. Len(s) \in Nat /\ DOMAIN s = 1 .. Len(s)
    OBVIOUS
  <1>2. IsFiniteSet(DOMAIN s) /\ Cardinality(DOMAIN s) = Len(s)
    BY <1>1, CountUpTo
  <1>3. ASSUME NEW T, T \subseteq DOMAIN s
        PROVE  IsFiniteSet(T) /\ Cardinality(T) \in Nat /\ Cardinality(T) <= Len(s)
    BY <1>2, <1>3, FS_Subset, FS_CardinalityType
  <1> QED
    BY <1>1, <1>2, <1>3

\* Sum adds up the values.
LEMMA SumIsTotal ==
  ASSUME NEW s \in Seq(Int)
  PROVE  Sum(s) = Total(s, DOMAIN s) /\ Sum(s) \in Int
  <1>1. Sum(s) = Total(s, DOMAIN s)
    BY DEF Sum, Total
  <1>2. \A i \in DOMAIN s : s[i] \in Int
    OBVIOUS
  <1> QED
    BY <1>1, <1>2, Places, TotalStep

\* The sum of a * x^2 + b * x + c over the values x of a series.
LEMMA SumOfSquares ==
  ASSUME NEW v \in Seq(Int), NEW a \in Int, NEW b \in Int, NEW c \in Int, NEW h,
         \A i \in DOMAIN v : h[i] = a * (v[i] * v[i]) + b * v[i] + c
  PROVE  /\ Sum(Squares(v)) \in Int
         /\ Total(h, DOMAIN v) = a * Sum(Squares(v)) + b * Sum(v) + c * Len(v)
  <1> DEFINE q == Squares(v)
  <1>1. q \in Seq(Int) /\ DOMAIN q = DOMAIN v /\ \A i \in DOMAIN v : q[i] = v[i] * v[i]
    BY DEF Squares
  <1>2. /\ \A i \in DOMAIN v : v[i] \in Int /\ q[i] \in Int
        /\ \A i \in DOMAIN v : h[i] = a * q[i] + b * v[i] + c
    BY <1>1
  <1>3. IsFiniteSet(DOMAIN v) /\ Cardinality(DOMAIN v) = Len(v)
    BY Places
  <1> HIDE DEF q
  <1>4. Total(h, DOMAIN v) =
          a * Total(q, DOMAIN v) + b * Total(v, DOMAIN v) + c * Cardinality(DOMAIN v)
    <2> DEFINE D == DOMAIN v
    <2>1. \A i \in D : /\ q[i] \in Int /\ v[i] \in Int
                       /\ h[i] = a * q[i] + b * v[i] + c
      BY <1>2
    <2>2. IsFiniteSet(D)
      BY <1>3
    <2> HIDE DEF D
    <2>3. Total(h, D) = a * Total(q, D) + b * Total(v, D) + c * Cardinality(D)
      BY <2>1, <2>2, TotalIsLinear
    <2> QED
      BY <2>3 DEF D
  <1>5. Sum(q) = Total(q, DOMAIN v) /\ Sum(v) = Total(v, DOMAIN v) /\ Sum(q) \in Int
    BY <1>1, SumIsTotal
  <1> QED
    BY <1>3, <1>4, <1>5 DEF q

\* The least number of a set of naturals.
LEMMA LeastNatural ==
  ASSUME NEW T, T \subseteq Nat, T # {}
  PROVE  \E x \in T : \A y \in T : x <= y
  <1>1. PICK x \in T : \A y \in T : <<y, x>> \notin OpToRel(<, Nat)
    BY NatLessThanWellFounded, WFMin
  <1>2. \A y \in T : ~ (y < x)
    BY <1>1 DEF OpToRel
  <1> QED
    BY <1>2

-----------------------------------------------------------------------------
(* Deviations from the mean, and how few of them are large *)

\* The square of m times a deviation, and of w, in powers of the value.
LEMMA SquareOfDeviation ==
  ASSUME NEW m \in Int, NEW w \in Int, NEW n \in Int, NEW S \in Int, NEW x \in Int
  PROVE  (m * (n * x - S) + w) * (m * (n * x - S) + w) =
           ((m * m) * (n * n)) * (x * x)
           + (2 * (m * w) * n - 2 * (m * m) * (n * S)) * x
           + ((m * m) * (S * S) - 2 * (m * w) * S + w * w)
  OBVIOUS

\* The same, added up: the deviations themselves have sum 0.
LEMMA SumOfDeviations ==
  ASSUME NEW m \in Int, NEW w \in Int, NEW n \in Int, NEW S \in Int, NEW Q \in Int
  PROVE  ((m * m) * (n * n)) * Q
           + (2 * (m * w) * n - 2 * (m * m) * (n * S)) * S
           + ((m * m) * (S * S) - 2 * (m * w) * S + w * w) * n
         = (m * m) * (n * (n * Q - S * S)) + n * (w * w)
  OBVIOUS

\* Len(v) times the deviation of the value at i from the mean.
Deviation(v, i) == Len(v) * v[i] - Sum(v)

\* The squares of m * deviation + w, added up, by the spread.
LEMMA DeviationsAddUp ==
  ASSUME NEW v \in Seq(Int), NEW m \in Int, NEW w \in Int, NEW h,
         \A i \in DOMAIN v :
           h[i] = (m * Deviation(v, i) + w) * (m * Deviation(v, i) + w)
  PROVE  /\ Spread(v) \in Int
         /\ Total(h, DOMAIN v) = (m * m) * (Len(v) * Spread(v)) + Len(v) * (w * w)
  <1> DEFINE n == Len(v)
             S == Sum(v)
             Q == Sum(Squares(v))
             a == (m * m) * (n * n)
             b == 2 * (m * w) * n - 2 * (m * m) * (n * S)
             c == (m * m) * (S * S) - 2 * (m * w) * S + w * w
  <1>1. n \in Int /\ S \in Int /\ Q \in Int
    <2>1. Squares(v) \in Seq(Int)
      BY DEF Squares
    <2> QED
      BY <2>1, SumIsTotal
  <1>2. a \in Int /\ b \in Int /\ c \in Int
    <2> HIDE DEF n, S, Q
    <2>1. \A x, y \in Int : x * y \in Int
      OBVIOUS
    <2>2. /\ m * m \in Int /\ n * n \in Int /\ m * w \in Int /\ n * S \in Int
          /\ S * S \in Int /\ w * w \in Int
      BY <1>1, <2>1
    <2>3. a \in Int
      BY <2>1, <2>2
    <2>4. 2 * (m * w) \in Int /\ 2 * (m * m) \in Int
      BY <2>1, <2>2
    <2>5. 2 * (m * w) * n \in Int /\ 2 * (m * m) * (n * S) \in Int
          /\ (m * m) * (S * S) \in Int /\ 2 * (m * w) * S \in Int
      BY <1>1, <2>1, <2>2, <2>4
    <2>6. \A x, y, z \in Int : x - y \in Int /\ x - y + z \in Int
      OBVIOUS
    <2>7. b \in Int
      BY <2>5, <2>6
    <2>8. c \in Int
      BY <2>2, <2>5, <2>6
    <2> QED
      BY <2>3, <2>7, <2>8
  <1>3. ASSUME NEW i \in DOMAIN v
        PROVE  h[i] = a * (v[i] * v[i]) + b * v[i] + c
    <2>1. PICK x \in Int : x = v[i]
      OBVIOUS
    <2>2. h[i] = (m * (n * x - S) + w) * (m * (n * x - S) + w)
      BY <2>1 DEF Deviation
    <2> HIDE DEF n, S
    <2>3. h[i] = a * (x * x) + b * x + c
      BY <1>1, <2>2, SquareOfDeviation
    <2> QED
      BY <2>1, <2>3
  <1>4. Total(h, DOMAIN v) = a * Q + b * S + c * n
    <2> HIDE DEF a, b, c
    <2> QED
      BY <1>2, <1>3, SumOfSquares
  <1>5. Spread(v) = n * Q - S * S
    BY DEF Spread
  <1> HIDE DEF n, S, Q
  <1>6. a * Q + b * S + c * n = (m * m) * (n * (n * Q - S * S)) + n * (w * w)
    BY <1>1, SumOfDeviations
  <1>7. Spread(v) \in Int
    BY <1>1, <1>5
  <1> HIDE DEF a, b, c
  <1>8. Total(h, DOMAIN v) = (m * m) * (n * Spread(v)) + n * (w * w)
    BY <1>4, <1>5, <1>6
  <1> QED
    BY <1>7, <1>8 DEF n

\* No spread is negative.
LEMMA SpreadIsNatural ==
  ASSUME NEW v \in Seq(Int), v # <<>>
  PROVE  Spread(v) \in Nat
  <1> DEFINE n == Len(v)
             h == [i \in DOMAIN v |-> (1 * Deviation(v, i) + 0) * (1 * Deviation(v, i) + 0)]
  <1>1. n \in Nat /\ n > 0
    OBVIOUS
  <1>2. \A i \in DOMAIN v : Deviation(v, i) \in Int
    BY SumIsTotal DEF Deviation
  <1>3. \A i \in DOMAIN v : h[i] \in Nat
    <2>1. \A d \in Int : (1 * d + 0) * (1 * d + 0) \in Nat
      OBVIOUS
    <2> QED
      BY <1>2, <2>1
  <1>4. /\ Spread(v) \in Int
        /\ Total(h, DOMAIN v) = (1 * 1) * (n * Spread(v)) + n * (0 * 0)
    <2>1. \A i \in DOMAIN v : h[i] = (1 * Deviation(v, i) + 0) * (1 * Deviation(v, i) + 0)
      OBVIOUS
    <2> HIDE DEF h
    <2> QED
      BY <2>1, DeviationsAddUp
  <1>5. Total(h, DOMAIN v) >= 0 * Cardinality({})
    <2> HIDE DEF h
    <2> QED
      BY <1>3, Places, TotalIsAtLeast
  <1>6. Total(h, DOMAIN v) >= 0
    BY <1>5, FS_EmptySet
  <1> HIDE DEF h, n
  <1>7. n * Spread(v) >= 0
    BY <1>1, <1>4, <1>6
  <1> QED
    BY <1>1, <1>4, <1>7

\* What follows for the number k of large deviations among n.
LEMMA CantelliBound ==
  ASSUME NEW k \in Nat, NEW n \in Nat, NEW V \in Nat, NEW M \in Nat, M > 0, M >= 9 * V,
         M * (n * V) + n * (V * V) >= ((M + V) * (M + V)) * k
  PROVE  10 * k <= n
  <1> DEFINE W == M + V
             P == W * W
  <1>1. W \in Nat /\ W > 0 /\ 10 * V <= W
    OBVIOUS
  <1>2. M * (n * V) + n * (V * V) = n * (V * W)
    OBVIOUS
  <1> HIDE DEF W
  <1>3. P \in Nat /\ P > 0
    BY <1>1
  <1>4. 10 * (V * W) <= P /\ V * W \in Nat
    BY <1>1
  <1>5. n * (V * W) >= P * k
    BY <1>2 DEF W
  <1> HIDE DEF P
  <1>6. n * (10 * (V * W)) <= n * P
    BY <1>3, <1>4
  <1>7. P * (10 * k) <= P * n
    BY <1>3, <1>4, <1>5, <1>6
  <1>8. P * (10 * k - n) <= 0
    BY <1>3, <1>7
  <1> QED
    BY <1>3, <1>8

\* Cantelli's inequality for three deviations: at most a tenth of the values of a
\* series lie three or more standard deviations above its mean.
LEMMA FewAbove ==
  ASSUME NEW v \in Seq(Int), NEW K, K \subseteq DOMAIN v,
         \A i \in K : /\ Deviation(v, i) > 0
                      /\ Deviation(v, i) * Deviation(v, i) >= 9 * Spread(v)
  PROVE  10 * Cardinality(K) <= Len(v)
  <1> DEFINE n == Len(v)
             V == Spread(v)
             D(i) == Deviation(v, i)
  <1>1. n \in Nat /\ Cardinality(K) \in Nat
    BY Places
  <1>2. CASE K = {}
    BY <1>1, <1>2, FS_EmptySet
  <1>3. CASE K # {}
    <2>1. V \in Nat
      <3>1. v # <<>>
        BY <1>3
      <3> QED
        BY <3>1, SpreadIsNatural
    <2>2. \A i \in DOMAIN v : D(i) \in Int
      BY SumIsTotal DEF Deviation
    <2>3. PICK j \in K : \A i \in K : D(j) <= D(i)
      <3> DEFINE T == {D(i) : i \in K}
      <3>1. T \subseteq Nat /\ T # {}
        BY <1>3, <2>2
      <3>2. PICK x \in T : \A y \in T : x <= y
        <4> HIDE DEF T
        <4> QED
          BY <3>1, LeastNatural
      <3> QED
        BY <3>2
    <2> DEFINE m == D(j)
               W == m * m + V
               h == [i \in DOMAIN v |-> (m * D(i) + V) * (m * D(i) + V)]
    <2>4. m \in Nat /\ m > 0 /\ m * m \in Nat /\ m * m > 0 /\ m * m >= 9 * V
      <3>1. m \in Int /\ m > 0 /\ m * m >= 9 * V
        BY <2>2, <2>3
      <3> HIDE DEF m
      <3> QED
        BY <3>1
    <2>5. \A i \in DOMAIN v : h[i] \in Nat
      <3> HIDE DEF m, V, D
      <3>1. \A d \in Int : (m * d + V) * (m * d + V) \in Nat
        BY <2>1, <2>4
      <3> QED
        BY <2>2, <3>1
    <2>6. \A i \in K : h[i] >= W * W
      <3> SUFFICES ASSUME NEW i \in K PROVE h[i] >= W * W
        OBVIOUS
      <3>1. PICK d \in Int : d = D(i) /\ d >= m
        BY <2>2, <2>3
      <3>2. h[i] = (m * d + V) * (m * d + V)
        BY <3>1
      <3> HIDE DEF m, V, D, h
      <3>3. m * d >= m * m /\ m * d \in Int
        <4>1. PICK e \in Nat : e = d - m
          BY <2>4, <3>1
        <4>2. m * d = m * m + m * e /\ m * e \in Nat
          <5>1. \A x, y \in Nat : x * (x + y) = x * x + x * y /\ x * y \in Nat
            OBVIOUS
          <5>2. d = m + e /\ m \in Nat
            BY <2>4, <3>1, <4>1
          <5> QED
            BY <4>1, <5>1, <5>2
        <4> QED
          BY <2>4, <4>2
      <3>4. m * d + V >= W /\ W \in Nat /\ m * d + V \in Nat
        BY <2>1, <2>4, <3>3
      <3> HIDE DEF W
      <3>5. \A x, y \in Nat : x >= y => x * x >= y * y
        OBVIOUS
      <3> QED
        BY <3>2, <3>4, <3>5
    <2>7. Total(h, DOMAIN v) = (m * m) * (n * V) + n * (V * V)
      <3>1. \A i \in DOMAIN v : h[i] = (m * D(i) + V) * (m * D(i) + V)
        OBVIOUS
      <3> HIDE DEF h, m
      <3> QED
        BY <2>1, <2>4, <3>1, DeviationsAddUp
    <2> HIDE DEF h, m, n, V
    <2>8. Total(h, DOMAIN v) >= (W * W) * Cardinality(K)
      <3>1. W * W \in Nat
        BY <2>1, <2>4
      <3> HIDE DEF W
      <3> QED
        BY <2>5, <2>6, <3>1, Places, TotalIsAtLeast
    <2>9. PICK M \in Nat : M = m * m
      BY <2>4
    <2>10. M * (n * V) + n * (V * V) >= ((M + V) * (M + V)) * Cardinality(K)
      BY <2>7, <2>8, <2>9
    <2>11. 10 * Cardinality(K) <= n
      BY <1>1, <2>1, <2>4, <2>9, <2>10, CantelliBound
    <2> QED
      BY <2>11 DEF n
  <1> QED
    BY <1>2, <1>3

-----------------------------------------------------------------------------
(* Order statistics *)

\* The places with values below x, and with values up to x.
Below(s, x) == {i \in DOMAIN s : s[i] < x}
AtMost(s, x) == {i \in DOMAIN s : s[i] <= x}

\* How many they are.
LEMMA BelowFinite ==
  ASSUME NEW s \in Seq(Int), NEW x
  PROVE  /\ IsFiniteSet(Below(s, x)) /\ Cardinality(Below(s, x)) \in Nat
         /\ IsFiniteSet(AtMost(s, x)) /\ Cardinality(AtMost(s, x)) \in Nat
         /\ Cardinality(AtMost(s, x)) <= Len(s)
  <1>1. Below(s, x) \subseteq DOMAIN s /\ AtMost(s, x) \subseteq DOMAIN s
    BY DEF Below, AtMost
  <1> QED
    BY <1>1, Places

\* Among some places of a series, one has the greatest and one the least value.
LEMMA ExtremePlaces ==
  ASSUME NEW s \in Seq(Int), NEW U, U \subseteq DOMAIN s, U # {}
  PROVE  /\ \E i \in U : \A j \in U : s[j] <= s[i]
         /\ \E i \in U : \A j \in U : s[j] >= s[i]
  <1> DEFINE Has(V) == /\ \E i \in V : \A j \in V : s[j] <= s[i]
                       /\ \E i \in V : \A j \in V : s[j] >= s[i]
             T == {V \in SUBSET U : V # {} /\ ~Has(V)}
  <1>1. CASE T = {}
    BY <1>1
  <1>2. CASE T # {}
    <2>1. IsFiniteSet(U) /\ \A i \in U : s[i] \in Int
      BY Places
    <2>2. PICK V \in T : \A x \in V : V \ {x} \notin T
      <3>1. T \subseteq SUBSET U
        OBVIOUS
      <3> HIDE DEF T
      <3> QED
        BY <1>2, <2>1, <3>1, SmallestSubset
    <2>3. PICK x \in V : x \in U
      OBVIOUS
    <2>4. CASE V \ {x} = {}
      <3>1. V = {x} /\ s[x] \in Int
        BY <2>1, <2>3, <2>4
      <3>2. Has(V)
        BY <3>1
      <3> QED
        BY <3>2
    <2>5. CASE V \ {x} # {}
      <3>1. Has(V \ {x})
        BY <2>2, <2>5
      <3>2. PICK g \in V \ {x} : \A j \in V \ {x} : s[j] <= s[g]
        BY <3>1
      <3>3. PICK l \in V \ {x} : \A j \in V \ {x} : s[j] >= s[l]
        BY <3>1
      <3>4. s[g] \in Int /\ s[l] \in Int /\ s[x] \in Int /\ \A j \in V : s[j] \in Int
        BY <2>1, <2>3
      <3>5. \E i \in V : \A j \in V : s[j] <= s[i]
        <4>1. CASE s[x] <= s[g]
          BY <3>2, <4>1
        <4>2. CASE s[g] <= s[x]
          <5>1. \A j \in V : s[j] <= s[x]
            <6> SUFFICES ASSUME NEW j \in V PROVE s[j] <= s[x]
              OBVIOUS
            <6>1. s[j] <= s[g] \/ j = x
              BY <3>2
            <6>2. s[j] \in Int
              BY <3>4
            <6> QED
              BY <3>4, <4>2, <6>1, <6>2
          <5> QED
            BY <5>1
        <4> QED
          BY <3>4, <4>1, <4>2
      <3>6. \E i \in V : \A j \in V : s[j] >= s[i]
        <4>1. CASE s[x] >= s[l]
          BY <3>3, <4>1
        <4>2. CASE s[l] >= s[x]
          <5>1. \A j \in V : s[j] >= s[x]
            <6> SUFFICES ASSUME NEW j \in V PROVE s[j] >= s[x]
              OBVIOUS
            <6>1. s[j] >= s[l] \/ j = x
              BY <3>3
            <6>2. s[j] \in Int
              BY <3>4
            <6> QED
              BY <3>4, <4>2, <6>1, <6>2
          <5> QED
            BY <5>1
        <4> QED
          BY <3>4, <4>1, <4>2
      <3> QED
        BY <3>5, <3>6
    <2> QED
      BY <2>4, <2>5
  <1> QED
    BY <1>1, <1>2

\* The value at place k of the ascending order exists: it is the greatest one with
\* no more than k places below it.
LEMMA OrderStatisticIs ==
  ASSUME NEW s \in Seq(Int), NEW k \in 0 .. (Len(s) - 1)
  PROVE  /\ OrderStatistic(s, k) \in Range(s)
         /\ OrderStatistic(s, k) \in Int
         /\ Cardinality(Below(s, OrderStatistic(s, k))) <= k
         /\ Cardinality(AtMost(s, OrderStatistic(s, k))) > k
  <1> DEFINE D == DOMAIN s
             T == {i \in D : Cardinality(Below(s, s[i])) <= k}
  <1>1. D # {} /\ k \in Nat /\ k < Len(s) /\ \A i \in D : s[i] \in Int
    BY Places
  <1>2. T # {}
    <2>1. PICK i \in D : \A j \in D : s[j] >= s[i]
      BY <1>1, ExtremePlaces
    <2>2. Below(s, s[i]) = {}
      BY <1>1, <2>1 DEF Below
    <2>3. Cardinality(Below(s, s[i])) <= k
      BY <1>1, <2>2, FS_EmptySet
    <2> QED
      BY <2>3
  <1>3. PICK j \in T : \A i \in T : s[i] <= s[j]
    <2>1. T \subseteq D
      OBVIOUS
    <2> HIDE DEF T
    <2> QED
      BY <1>2, <2>1, ExtremePlaces
  <1>4. Cardinality(AtMost(s, s[j])) > k
    <2>1. CASE AtMost(s, s[j]) = D
      BY <1>1, <2>1, Places
    <2>2. CASE AtMost(s, s[j]) # D
      <3> DEFINE R == D \ AtMost(s, s[j])
      <3>1. R # {} /\ R \subseteq D /\ \A i \in R : s[i] > s[j]
        <4>1. j \in D /\ s[j] \in Int
          BY <1>1, <1>3
        <4>2. AtMost(s, s[j]) \subseteq D
          BY DEF AtMost
        <4>3. \A i \in R : s[i] \in Int /\ ~(s[i] <= s[j])
          BY <1>1 DEF AtMost
        <4> HIDE DEF D
        <4>4. R # {} /\ R \subseteq D
          BY <2>2, <4>2
        <4>5. \A i \in R : s[i] > s[j]
          <5> HIDE DEF R
          <5> QED
            BY <4>1, <4>3
        <4> QED
          BY <4>4, <4>5
      <3>2. PICK l \in R : \A i \in R : s[i] >= s[l]
        <4> HIDE DEF R
        <4> QED
          BY <3>1, ExtremePlaces
      <3>3. Below(s, s[l]) = AtMost(s, s[j])
        BY <1>1, <1>3, <3>1, <3>2 DEF Below, AtMost
      <3>4. l \notin T /\ l \in D
        BY <1>1, <1>3, <3>1
      <3>5. /\ Cardinality(Below(s, s[l])) \in Nat
            /\ ~(Cardinality(Below(s, s[l])) <= k)
        BY <3>4, BelowFinite
      <3> QED
        BY <3>3, <3>5
    <2> QED
      BY <2>1, <2>2
  <1>5. \E x \in Range(s) : /\ Cardinality(Below(s, x)) <= k
                            /\ Cardinality(AtMost(s, x)) > k
    BY <1>3, <1>4 DEF Range
  <1>6. /\ OrderStatistic(s, k) \in Range(s)
        /\ Cardinality(Below(s, OrderStatistic(s, k))) <= k
        /\ Cardinality(AtMost(s, OrderStatistic(s, k))) > k
    BY <1>5 DEF OrderStatistic, Below, AtMost
  <1> QED
    BY <1>1, <1>6 DEF Range

\* A value with more than k places up to it is not less than one with at most k
\* places below it.
LEMMA PlacesOrder ==
  ASSUME NEW s \in Seq(Int), NEW k \in Int, NEW x \in Int, NEW y \in Int,
         Cardinality(AtMost(s, x)) > k, Cardinality(Below(s, y)) <= k
  PROVE  y <= x
  <1> SUFFICES ASSUME x < y PROVE FALSE
    OBVIOUS
  <1>1. AtMost(s, x) \subseteq Below(s, y)
    <2>1. \A i \in DOMAIN s : s[i] \in Int
      OBVIOUS
    <2> QED
      BY <2>1 DEF AtMost, Below
  <1>2. Cardinality(AtMost(s, x)) <= Cardinality(Below(s, y))
    BY <1>1, BelowFinite, FS_Subset
  <1> QED
    BY <1>2, BelowFinite

\* The places with a value under the p10 are fewer than a tenth and one more.
LEMMA FewUnder ==
  ASSUME NEW s \in Seq(Int), s # <<>>,
         NEW K, K = {i \in DOMAIN s : 10 * s[i] < Percentile10(s)}
  PROVE  10 * Cardinality(K) < Len(s) + 9
  <1> DEFINE n == Len(s)
             k == (n - 1) \div 10
             part == (n - 1) % 10
             low == OrderStatistic(s, k)
             high == OrderStatistic(s, k + 1)
  <1>1. n \in Nat /\ n >= 1 /\ \A i \in DOMAIN s : s[i] \in Int
    OBVIOUS
  <1>2. /\ k \in Nat /\ part \in Nat /\ part < 10 /\ n = 10 * k + part + 1
        /\ k \in 0 .. (n - 1) /\ (part # 0 => k + 1 \in 0 .. (n - 1))
    <2> HIDE DEF n
    <2>1. k \in Nat /\ part \in Nat /\ part < 10 /\ n - 1 = 10 * k + part
      BY <1>1, Z3
    <2> HIDE DEF k, part
    <2> QED
      BY <1>1, <2>1
  <1>3. Percentile10(s) = IF part = 0 THEN 10 * low ELSE 10 * low + part * (high - low)
    BY DEF Percentile10
  <1> HIDE DEF n, k, part
  <1>4. /\ low \in Int /\ Cardinality(Below(s, low)) <= k
        /\ Cardinality(AtMost(s, low)) > k
    BY <1>2, OrderStatisticIs DEF n
  <1>5. CASE part = 0
    <2>1. K \subseteq Below(s, low)
      BY <1>1, <1>3, <1>4, <1>5 DEF Below
    <2>2. Cardinality(K) <= k /\ Cardinality(K) \in Nat
      BY <1>2, <1>4, <2>1, BelowFinite, FS_Subset, FS_CardinalityType
    <2> QED
      BY <1>2, <1>5, <2>2 DEF n
  <1>6. CASE part # 0
    <2>1. high \in Int /\ Cardinality(Below(s, high)) <= k + 1
          /\ Cardinality(AtMost(s, high)) > k + 1
      BY <1>2, <1>6, OrderStatisticIs DEF n
    <2> HIDE DEF low, high
    <2>2. low <= high
      <3>1. Cardinality(AtMost(s, high)) > k
        BY <1>2, <2>1, BelowFinite
      <3> QED
        BY <1>2, <1>4, <2>1, <3>1, PlacesOrder
    <2>3. Percentile10(s) <= 10 * high /\ Percentile10(s) \in Int
      <3>1. PICK d \in Nat : d = high - low
        BY <1>4, <2>1, <2>2
      <3>2. \A e \in Nat : part * e \in Nat /\ part * e <= 10 * e
        BY <1>2
      <3>3. PICK z \in Nat : z = part * d /\ z <= 10 * d
        BY <3>1, <3>2
      <3>4. Percentile10(s) = 10 * low + z /\ high = low + d
        BY <1>3, <1>4, <1>6, <2>1, <3>1, <3>3
      <3> QED
        BY <1>4, <3>1, <3>3, <3>4
    <2>4. K \subseteq Below(s, high)
      BY <1>1, <2>1, <2>3 DEF Below
    <2>5. Cardinality(K) <= k + 1 /\ Cardinality(K) \in Nat
      BY <1>2, <2>1, <2>4, BelowFinite, FS_Subset, FS_CardinalityType
    <2> QED
      BY <1>2, <1>6, <2>5 DEF n
  <1> QED
    BY <1>5, <1>6

-----------------------------------------------------------------------------
(* Extrema, and series in strict order *)

\* The greatest and the least element of a set of integers that has one.
LEMMA ExtremaAre ==
  ASSUME NEW S, S \subseteq Int, NEW m \in S
  PROVE  /\ (\A y \in S : m >= y) => Max(S) = m
         /\ (\A y \in S : m <= y) => Min(S) = m
  <1>1. ASSUME \A y \in S : m >= y PROVE Max(S) = m
    <2>1. Max(S) \in S /\ \A y \in S : Max(S) >= y
      BY <1>1 DEF Max
    <2>2. Max(S) \in Int /\ m \in Int /\ Max(S) >= m /\ m >= Max(S)
      BY <1>1, <2>1
    <2> QED
      BY <2>2
  <1>2. ASSUME \A y \in S : m <= y PROVE Min(S) = m
    <2>1. Min(S) \in S /\ \A y \in S : Min(S) <= y
      BY <1>2 DEF Min
    <2>2. Min(S) \in Int /\ m \in Int /\ Min(S) <= m /\ m <= Min(S)
      BY <1>2, <2>1
    <2> QED
      BY <2>2
  <1> QED
    BY <1>1, <1>2

\* Where no neighbours are out of order, each point is later by one or more for
\* every place in between.
LEMMA Increasing ==
  ASSUME NEW t \in Seq(Int), ~Unordered(t)
  PROVE  \A i, j \in DOMAIN t : i <= j => t[j] - t[i] >= j - i
  <1> SUFFICES ASSUME NEW i \in DOMAIN t, NEW k \in DOMAIN t, i <= k,
                      ~(t[k] - t[i] >= k - i)
               PROVE  FALSE
    OBVIOUS
  <1> DEFINE T == {j \in DOMAIN t : i <= j /\ ~(t[j] - t[i] >= j - i)}
  <1>1. /\ \A j \in DOMAIN t : t[j] \in Int /\ j \in Nat
        /\ DOMAIN t = 1 .. Len(t) /\ Len(t) \in Nat
    BY Places
  <1>2. T \subseteq Nat /\ T # {}
    BY <1>1
  <1>3. PICK j \in T : \A y \in T : j <= y
    <2> HIDE DEF T
    <2> QED
      BY <1>2, LeastNatural
  <1>4. /\ i \in Nat /\ j \in Nat /\ j \in 1 .. Len(t) /\ i <= j /\ i >= 1
        /\ t[i] \in Int /\ t[j] \in Int /\ ~(t[j] - t[i] >= j - i)
    BY <1>1, <1>3
  <1>5. j # i
    BY <1>4
  <1> DEFINE p == j - 1
  <1>6. /\ p \in DOMAIN t /\ i <= p /\ p \in 1 .. (Len(t) - 1) /\ j = p + 1
        /\ p \in Nat /\ ~(j <= p)
    <2>1. Len(t) \in Nat /\ j <= Len(t) /\ DOMAIN t = 1 .. Len(t)
      BY <1>4
    <2>2. i \in Nat /\ j \in Nat /\ 1 <= i /\ i < j
      BY <1>4, <1>5
    <2> QED
      BY <2>1, <2>2
  <1> HIDE DEF p
  <1>7. t[p] - t[i] >= p - i /\ t[p] \in Int
    <2>1. p \notin T
      BY <1>3, <1>6
    <2> QED
      BY <1>1, <1>6, <2>1
  <1>8. ~(t[j] <= t[p])
    BY <1>6 DEF Unordered
  <1>9. t[j] - t[i] >= j - i
    <2>1. \A b, x, y, z, a \in Int :
            ~(y <= z) /\ z - x >= b - a => y - x >= (b + 1) - a
      OBVIOUS
    <2>2. i \in Int /\ t[i] \in Int /\ t[j] \in Int /\ t[p] \in Int /\ p \in Int
      BY <1>4, <1>6, <1>7
    <2>3. t[j] - t[i] >= (p + 1) - i
      BY <1>7, <1>8, <2>1, <2>2
    <2> QED
      BY <1>6, <2>3
  <1> QED
    BY <1>4, <1>9

\* The range of such a series.
LEMMA RangeOfIncreasing ==
  ASSUME NEW t \in Seq(Int), t # <<>>, ~Unordered(t)
  PROVE  /\ Min(Range(t)) = t[1] /\ Max(Range(t)) = t[Len(t)]
         /\ t[1] \in Int /\ t[Len(t)] \in Int
         /\ t[Len(t)] - t[1] >= Len(t) - 1
  <1>1. /\ 1 \in DOMAIN t /\ Len(t) \in DOMAIN t /\ DOMAIN t \subseteq Int
        /\ \A i \in DOMAIN t : t[i] \in Int /\ 1 <= i /\ i <= Len(t)
    OBVIOUS
  <1>2. \A i \in DOMAIN t : t[1] <= t[i] /\ t[i] <= t[Len(t)]
    <2> SUFFICES ASSUME NEW i \in DOMAIN t PROVE t[1] <= t[i] /\ t[i] <= t[Len(t)]
      OBVIOUS
    <2>1. t[i] - t[1] >= i - 1 /\ t[Len(t)] - t[i] >= Len(t) - i
      BY <1>1, Increasing
    <2>2. t[i] \in Int /\ t[1] \in Int /\ t[Len(t)] \in Int /\ Len(t) \in Int
          /\ i \in Int /\ 1 <= i /\ i <= Len(t)
      BY <1>1
    <2> QED
      BY <2>1, <2>2
  <1>3. Range(t) \subseteq Int /\ t[1] \in Range(t) /\ t[Len(t)] \in Range(t)
        /\ \A y \in Range(t) : t[1] <= y /\ t[Len(t)] >= y
    BY <1>1, <1>2 DEF Range
  <1>4. Min(Range(t)) = t[1] /\ Max(Range(t)) = t[Len(t)]
    BY <1>3, ExtremaAre
  <1>5. t[Len(t)] - t[1] >= Len(t) - 1
    BY <1>1, Increasing
  <1> QED
    BY <1>1, <1>4, <1>5

-----------------------------------------------------------------------------
(* Numbers up to a bound *)

\* What holds of 0, and of k + 1 with k, holds up to n.
LEMMA UpTo ==
  ASSUME NEW n \in Nat, NEW T, 0 \in T, \A k \in 0 .. (n - 1) : k \in T => k + 1 \in T
  PROVE  \A k \in 0 .. n : k \in T
  <1> SUFFICES ASSUME NEW l \in 0 .. n, l \notin T PROVE FALSE
    OBVIOUS
  <1> DEFINE U == {k \in 0 .. n : k \notin T}
  <1>1. U \subseteq Nat /\ U # {}
    OBVIOUS
  <1>2. PICK k \in U : \A y \in U : k <= y
    <2> HIDE DEF U
    <2> QED
      BY <1>1, LeastNatural
  <1>3. k - 1 \in 0 .. (n - 1) /\ ~(k <= k - 1) /\ (k - 1) + 1 = k
    BY <1>2
  <1>4. k - 1 \in T
    BY <1>2, <1>3
  <1> QED
    BY <1>2, <1>3, <1>4

\* A set of numbers up to n has a greatest one.
LEMMA GreatestUpTo ==
  ASSUME NEW n \in Nat, NEW W, W \subseteq 0 .. n, W # {}
  PROVE  \E m \in W : \A y \in W : m >= y
  <1> DEFINE U == {k \in 0 .. n : n - k \in W}
  <1>1. \A y \in W : n - y \in U /\ n - (n - y) = y
    OBVIOUS
  <1>2. U \subseteq Nat /\ U # {}
    <2>1. PICK y \in W : TRUE
      OBVIOUS
    <2> HIDE DEF U
    <2>2. U # {}
      BY <1>1, <2>1
    <2> QED
      BY <2>2 DEF U
  <1>3. PICK k \in U : \A y \in U : k <= y
    <2> HIDE DEF U
    <2> QED
      BY <1>2, LeastNatural
  <1>4. n - k \in W
    BY <1>3
  <1>5. \A y \in W : n - k >= y
    <2> SUFFICES ASSUME NEW y \in W PROVE n - k >= y
      OBVIOUS
    <2>1. k <= n - y
      BY <1>1, <1>3
    <2>2. k \in Int /\ y \in Int
      BY <1>3
    <2> QED
      BY <2>1, <2>2
  <1> QED
    BY <1>4, <1>5

-----------------------------------------------------------------------------
(* Double and unordered timestamps, constant tails *)

\* A timestamp is double exactly where there are fewer of them than points.
LEMMA DuplicatesAre ==
  ASSUME NEW t \in Seq(Int)
  PROVE  Duplicates(t) <=> \E i, j \in DOMAIN t : i # j /\ t[i] = t[j]
  <1>1. t \in Surjection(DOMAIN t, Range(t))
    BY DEF Surjection, Range
  <1>2. Cardinality(Range(t)) = Len(t) <=> t \in Injection(DOMAIN t, Range(t))
    BY <1>1, Places, FS_Surjection
  <1>3. t \in Injection(DOMAIN t, Range(t)) <=>
          \A i, j \in DOMAIN t : t[i] = t[j] => i = j
    <2>1. t \in [DOMAIN t -> Range(t)]
      BY <1>1 DEF Surjection
    <2> QED
      BY <2>1, Zenon DEF Injection, IsInjective
  <1> QED
    BY <1>2, <1>3, Zenon DEF Duplicates

\* Without double timestamps, two points out of order mean two neighbours out of
\* order.
LEMMA DisorderIs ==
  ASSUME NEW t \in Seq(Int), ~Duplicates(t)
  PROVE  Unordered(t) <=> \E i, j \in DOMAIN t : i < j /\ t[i] > t[j]
  <1>1. ASSUME Unordered(t)
        PROVE  \E i, j \in DOMAIN t : i < j /\ t[i] > t[j]
    <2>1. PICK i \in 1 .. (Len(t) - 1) : t[i + 1] <= t[i]
      BY <1>1 DEF Unordered
    <2>2. i \in DOMAIN t /\ i + 1 \in DOMAIN t /\ i < i + 1 /\ i # i + 1
          /\ t[i] \in Int /\ t[i + 1] \in Int
      OBVIOUS
    <2>3. t[i] # t[i + 1]
      BY <2>2, DuplicatesAre
    <2>4. t[i] > t[i + 1]
      BY <2>1, <2>2, <2>3
    <2> QED
      BY <2>2, <2>4
  <1>2. ASSUME ~Unordered(t), NEW i \in DOMAIN t, NEW j \in DOMAIN t, i < j
        PROVE  ~(t[i] > t[j])
    <2>1. i \in Int /\ j \in Int /\ t[i] \in Int /\ t[j] \in Int
      OBVIOUS
    <2>2. t[j] - t[i] >= j - i
      BY <1>2, <2>1, Increasing
    <2> QED
      BY <1>2, <2>1, <2>2
  <1> QED
    BY <1>1, <1>2

\* The values of a series.
LEMMA RangeIs == ASSUME NEW s PROVE Range(s) = {s[i] : i \in DOMAIN s}
  BY DEF Range

\* The least and the greatest value of a series.
LEMMA ExtremesAre ==
  ASSUME NEW s \in Seq(Int), NEW U, U \subseteq DOMAIN s, U # {},
         NEW T, T = {s[i] : i \in U}
  PROVE  /\ Max(T) \in T /\ Min(T) \in T /\ T \subseteq Int
         /\ \A x \in T : Min(T) <= x /\ x <= Max(T)
  <1>1. T \subseteq Int
    OBVIOUS
  <1>2. PICK i \in U : \A l \in U : s[l] <= s[i]
    BY ExtremePlaces
  <1>3. PICK j \in U : \A l \in U : s[l] >= s[j]
    BY ExtremePlaces
  <1>4. s[i] \in T /\ (\A y \in T : s[i] >= y) /\ s[j] \in T /\ (\A y \in T : s[j] <= y)
    BY <1>1, <1>2, <1>3
  <1>5. Max(T) = s[i] /\ Min(T) = s[j]
    BY <1>1, <1>4, ExtremaAre
  <1> QED
    BY <1>1, <1>4, <1>5

\* The last m values.
LastOf(v, m) == {v[i] : i \in (Len(v) - m + 1) .. Len(v)}

\* values[-w:], for w = 0 too.
LEMMA TrailingIs ==
  ASSUME NEW v \in Seq(Int), NEW w \in Nat, w <= Len(v)
  PROVE  Range(Trailing(v, w)) = LastOf(v, IF w = 0 THEN Len(v) ELSE w)
  <1> DEFINE n == Len(v)
             m == IF w = 0 THEN n ELSE w
             a == n - m + 1
  <1>1. n \in Nat /\ m \in 0 .. n /\ a \in 1 .. (n + 1)
    <2>1. n \in Nat /\ m \in 0 .. n
      OBVIOUS
    <2> HIDE DEF n, m
    <2> QED
      BY <2>1
  <1>2. Trailing(v, w) = SubSeq(v, a, n)
    <2>1. (IF w = 0 THEN 1 ELSE n - w + 1) = a
      <3>1. n \in Nat
        OBVIOUS
      <3> HIDE DEF n
      <3> QED
        BY <3>1
    <2> HIDE DEF a
    <2> QED
      BY <2>1 DEF Trailing
  <1> HIDE DEF a
  <1>3. SubSeq(v, a, n) = [i \in 1 .. (n - a + 1) |-> v[a + i - 1]]
    BY <1>1
  <1>4. {v[a + i - 1] : i \in 1 .. (n - a + 1)} = {v[i] : i \in a .. n}
    <2>1. \A i \in 1 .. (n - a + 1) : a + i - 1 \in a .. n
      BY <1>1
    <2>2. \A i \in a .. n : i - a + 1 \in 1 .. (n - a + 1) /\ a + (i - a + 1) - 1 = i
      BY <1>1
    <2> QED
      BY <2>1, <2>2
  <1>5. Range(SubSeq(v, a, n)) = {v[a + i - 1] : i \in 1 .. (n - a + 1)}
    BY <1>3 DEF Range
  <1> QED
    BY <1>2, <1>4, <1>5 DEF LastOf, a

\* The longest constant tail is longer than exactly the constant tails.
LEMMA FlatTailIs ==
  ASSUME NEW v \in Seq(Int), v # <<>>
  PROVE  /\ FlatTail(v) \in 1 .. Len(v)
         /\ \A m \in 1 .. Len(v) :
              FlatTail(v) >= m <=> \A i \in (Len(v) - m + 1) .. Len(v) : v[i] = v[Len(v)]
  <1> DEFINE n == Len(v)
             Flat(m) == \A i \in n - m + 1 .. n : v[i] = v[n]
             W == {w \in DOMAIN v : Flat(w)}
  <1>1. n \in Nat /\ n >= 1 /\ DOMAIN v = 1 .. n /\ \A i \in 1 .. n : v[i] \in Int
    OBVIOUS
  <1>2. FlatTail(v) = Max(W)
    BY DEF FlatTail
  <1>3. W \subseteq 0 .. n /\ 1 \in W
    BY <1>1
  <1>4. PICK k \in W : \A y \in W : k >= y
    <2> HIDE DEF W
    <2> QED
      BY <1>1, <1>3, GreatestUpTo
  <1>5. Max(W) = k /\ k \in 1 .. n /\ Flat(k)
    <2>1. W \subseteq Int /\ k \in 1 .. n /\ Flat(k)
      BY <1>1, <1>3
    <2> HIDE DEF W
    <2> QED
      BY <1>4, <2>1, ExtremaAre
  <1>6. ASSUME NEW m \in 1 .. n PROVE k >= m <=> Flat(m)
    <2>1. Flat(m) => k >= m
      BY <1>1, <1>4
    <2>2. ASSUME k >= m PROVE Flat(m)
      <3> SUFFICES ASSUME NEW i \in n - m + 1 .. n PROVE v[i] = v[n]
        OBVIOUS
      <3>1. i \in n - k + 1 .. n
        BY <1>1, <1>5, <2>2
      <3> QED
        BY <1>5, <3>1
    <2> QED
      BY <2>1, <2>2
  <1> QED
    BY <1>2, <1>5, <1>6

\* The last m values are equal if the longest constant tail has m or more.
LEMMA FlatIs ==
  ASSUME NEW v \in Seq(Int), v # <<>>, NEW m \in 1 .. Len(v)
  PROVE  Max(LastOf(v, m)) = Min(LastOf(v, m)) <=> FlatTail(v) >= m
  <1> DEFINE n == Len(v)
             U == (n - m + 1) .. n
             T == LastOf(v, m)
  <1>1. U \subseteq DOMAIN v /\ n \in U
    OBVIOUS
  <1>2. T = {v[i] : i \in U}
    BY DEF LastOf
  <1>3. FlatTail(v) >= m <=> \A i \in U : v[i] = v[n]
    BY FlatTailIs
  <1> HIDE DEF U, T
  <1>4. /\ Max(T) \in T /\ Min(T) \in T /\ T \subseteq Int
        /\ \A x \in T : Min(T) <= x /\ x <= Max(T)
    <2>1. U # {}
      BY <1>1
    <2> QED
      BY <1>1, <1>2, <2>1, ExtremesAre
  <1>5. ASSUME Max(T) = Min(T), NEW i \in U PROVE v[i] = v[n]
    <2>1. v[i] \in T /\ v[n] \in T
      BY <1>1, <1>2
    <2>2. \A x \in T : x \in Int /\ Min(T) <= x /\ x <= Min(T)
      BY <1>4, <1>5
    <2>3. Min(T) \in Int
      BY <1>4
    <2>4. v[i] = Min(T) /\ v[n] = Min(T)
      <3> DEFINE a == v[i]
                 b == v[n]
                 z == Min(T)
      <3>1. a \in Int /\ b \in Int /\ z \in Int /\ z <= a /\ a <= z /\ z <= b /\ b <= z
        BY <2>1, <2>2, <2>3
      <3> HIDE DEF a, b, z
      <3>2. a = z /\ b = z
        BY <3>1
      <3> QED
        BY <3>2 DEF a, b, z
    <2> QED
      BY <2>4
  <1>6. ASSUME \A i \in U : v[i] = v[n] PROVE Max(T) = Min(T)
    <2>1. \A x \in T : x = v[n]
      BY <1>2, <1>6
    <2> QED
      BY <1>4, <2>1
  <1> QED
    BY <1>3, <1>5, <1>6 DEF T

-----------------------------------------------------------------------------
(* The median *)

\* The places with values up to x, below x and above x.
LEMMA PlacesSplit ==
  ASSUME NEW s \in Seq(Int), NEW x \in Int
  PROVE  /\ Cardinality({i \in DOMAIN s : s[i] > x}) = Len(s) - Cardinality(AtMost(s, x))
         /\ Cardinality(AtMost(s, x)) \in Nat /\ Cardinality(Below(s, x)) \in Nat
         /\ Len(s) \in Nat
  <1> DEFINE G == {i \in DOMAIN s : s[i] > x}
             A == AtMost(s, x)
  <1>1. G = (DOMAIN s) \ A /\ A \subseteq DOMAIN s
    <2>1. \A i \in DOMAIN s : s[i] \in Int
      OBVIOUS
    <2>2. \A i \in DOMAIN s : s[i] > x <=> ~(s[i] <= x)
      BY <2>1
    <2> QED
      BY <2>2, Zenon DEF AtMost
  <1> HIDE DEF G, A
  <1>2. Cardinality(G) = Cardinality(DOMAIN s) - Cardinality((DOMAIN s) \cap A)
    BY <1>1, Places, FS_Difference
  <1>3. (DOMAIN s) \cap A = A
    BY <1>1
  <1>4. Cardinality(DOMAIN s) = Len(s) /\ Len(s) \in Nat
    BY Places
  <1> QED
    BY <1>2, <1>3, <1>4, BelowFinite DEF G, A

\* A value in the middle, by the places below it and up to it.
LEMMA InMiddle ==
  ASSUME NEW s \in Seq(Int), NEW x \in Range(s)
  PROVE  x \in Middle(s) <=> /\ 2 * Cardinality(Below(s, x)) <= Len(s)
                             /\ 2 * Cardinality(AtMost(s, x)) >= Len(s)
  <1>1. x \in Int
    BY DEF Range
  <1>2. x \in Middle(s) <=>
          /\ 2 * Cardinality(Below(s, x)) <= Len(s)
          /\ 2 * Cardinality({i \in DOMAIN s : s[i] > x}) <= Len(s)
    BY Zenon DEF Middle, Below
  <1> DEFINE g == Cardinality({i \in DOMAIN s : s[i] > x})
             a == Cardinality(AtMost(s, x))
  <1>3. g = Len(s) - a /\ a \in Nat /\ Len(s) \in Nat
    BY <1>1, PlacesSplit
  <1> HIDE DEF g, a
  <1>4. 2 * g <= Len(s) <=> 2 * a >= Len(s)
    BY <1>3
  <1> QED
    BY <1>2, <1>4 DEF g, a

\* The lower and the upper median, which are equal for an odd length.
LowMedian(s) == OrderStatistic(s, (Len(s) - 1) \div 2)
HighMedian(s) == OrderStatistic(s, Len(s) \div 2)

\* They are the least and the greatest value in the middle, and numpy's median is
\* their mean.
LEMMA MediansAre ==
  ASSUME NEW s \in Seq(Int), s # <<>>
  PROVE  /\ Min(Middle(s)) = LowMedian(s) /\ Max(Middle(s)) = HighMedian(s)
         /\ LowMedian(s) \in Range(s) /\ HighMedian(s) \in Range(s)
         /\ Median2(s) = LowMedian(s) + HighMedian(s)
  <1> DEFINE n == Len(s)
             k == (n - 1) \div 2
             h == n \div 2
             lo == LowMedian(s)
             hi == HighMedian(s)
  <1>1. n \in Nat /\ n >= 1
    OBVIOUS
  <1>2. /\ k \in 0 .. (n - 1) /\ h \in 0 .. (n - 1)
        /\ n <= 2 * k + 2 /\ 2 * k < n /\ 2 * h <= n /\ n <= 2 * h + 1
        /\ n % 2 = 1 => k = h
        /\ n % 2 # 1 => k = h - 1
    <2> HIDE DEF n
    <2> QED
      BY <1>1, Z3
  <1>3. lo = OrderStatistic(s, k) /\ hi = OrderStatistic(s, h)
    BY DEF LowMedian, HighMedian
  <1>4. Median2(s) = IF n % 2 = 1 THEN 2 * OrderStatistic(s, h)
                     ELSE OrderStatistic(s, h - 1) + OrderStatistic(s, h)
    BY DEF Median2
  <1> HIDE DEF k, h, lo, hi
  <1>5. /\ lo \in Range(s) /\ lo \in Int
        /\ Cardinality(Below(s, lo)) <= k /\ Cardinality(AtMost(s, lo)) > k
    BY <1>2, <1>3, OrderStatisticIs
  <1>6. /\ hi \in Range(s) /\ hi \in Int
        /\ Cardinality(Below(s, hi)) <= h /\ Cardinality(AtMost(s, hi)) > h
    BY <1>2, <1>3, OrderStatisticIs
  <1>7. Median2(s) = lo + hi
    <2>1. CASE n % 2 = 1
      BY <1>2, <1>3, <1>4, <1>5, <2>1
    <2>2. CASE n % 2 # 1
      BY <1>2, <1>3, <1>4, <2>2
    <2> QED
      BY <2>1, <2>2
  <1> HIDE DEF n
  <1>8. lo \in Middle(s)
    <2> DEFINE b == Cardinality(Below(s, lo))
               a == Cardinality(AtMost(s, lo))
    <2>1. b \in Nat /\ a \in Nat /\ b <= k /\ a > k
      BY <1>5, BelowFinite
    <2> HIDE DEF a, b
    <2>2. 2 * b <= n /\ 2 * a >= n
      BY <1>1, <1>2, <2>1
    <2> QED
      BY <1>5, <2>2, InMiddle DEF a, b, n
  <1>9. hi \in Middle(s)
    <2> DEFINE b == Cardinality(Below(s, hi))
               a == Cardinality(AtMost(s, hi))
    <2>1. b \in Nat /\ a \in Nat /\ b <= h /\ a > h
      BY <1>6, BelowFinite
    <2> HIDE DEF a, b
    <2>2. 2 * b <= n /\ 2 * a >= n
      BY <1>1, <1>2, <2>1
    <2> QED
      BY <1>6, <2>2, InMiddle DEF a, b, n
  <1>10. ASSUME NEW x \in Middle(s)
         PROVE  x \in Int /\ lo <= x /\ x <= hi
    <2> DEFINE b == Cardinality(Below(s, x))
               a == Cardinality(AtMost(s, x))
    <2>1. x \in Range(s)
      BY DEF Middle
    <2>2. x \in Int
      BY <2>1 DEF Range
    <2>3. b \in Nat /\ a \in Nat /\ 2 * b <= n /\ 2 * a >= n
      BY <2>1, InMiddle, BelowFinite DEF n
    <2> HIDE DEF a, b
    <2>4. a > k /\ b <= h /\ k \in Int /\ h \in Int
      BY <1>1, <1>2, <2>3
    <2>5. lo <= x
      BY <1>5, <2>2, <2>4, PlacesOrder DEF a
    <2>6. x <= hi
      BY <1>6, <2>2, <2>4, PlacesOrder DEF b
    <2> QED
      BY <2>2, <2>5, <2>6
  <1>11. Min(Middle(s)) = lo /\ Max(Middle(s)) = hi
    <2> DEFINE M == Middle(s)
    <2>1. M \subseteq Int /\ lo \in M /\ hi \in M
          /\ (\A y \in M : lo <= y) /\ (\A y \in M : hi >= y)
      <3>1. \A y \in M : hi >= y
        BY <1>6, <1>10
      <3> QED
        BY <1>8, <1>9, <1>10, <3>1
    <2> HIDE DEF M
    <2>2. Min(M) = lo /\ Max(M) = hi
      BY <2>1, ExtremaAre
    <2> QED
      BY <2>2 DEF M
  <1> QED
    BY <1>5, <1>6, <1>7, <1>11 DEF lo, hi
-----------------------------------------------------------------------------
(* The distances of all pairs *)

\* The sum of the first k values, and one more.
LEMMA PrefixSum ==
  ASSUME NEW s \in Seq(Int), NEW k \in 0 .. Len(s)
  PROVE  /\ Total(s, 1 .. k) \in Int
         /\ k = 0 => Total(s, 1 .. k) = 0
         /\ k < Len(s) => Total(s, 1 .. (k + 1)) = s[k + 1] + Total(s, 1 .. k)
  <1>1. ASSUME NEW m \in 0 .. Len(s)
        PROVE  /\ IsFiniteSet(1 .. m) /\ \A i \in 1 .. m : s[i] \in Int
    <2>1. 1 .. m \subseteq DOMAIN s
      OBVIOUS
    <2>2. \A i \in DOMAIN s : s[i] \in Int
      OBVIOUS
    <2> QED
      BY <2>1, <2>2, Places
  <1>2. Total(s, 1 .. k) \in Int /\ Total(s, {}) = 0
    BY <1>1, TotalStep
  <1>3. k = 0 => Total(s, 1 .. k) = 0
    <2>1. k = 0 => 1 .. k = {}
      OBVIOUS
    <2> QED
      BY <1>2, <2>1
  <1>4. ASSUME k < Len(s) PROVE Total(s, 1 .. (k + 1)) = s[k + 1] + Total(s, 1 .. k)
    <2>1. k + 1 \in 0 .. Len(s) /\ k + 1 \in 1 .. (k + 1) /\ (1 .. (k + 1)) \ {k + 1} = 1 .. k
      BY <1>4
    <2>2. \A x \in 1 .. (k + 1) :
            Total(s, 1 .. (k + 1)) = s[x] + Total(s, (1 .. (k + 1)) \ {x})
      BY <1>1, <2>1, TotalStep
    <2> QED
      BY <2>1, <2>2
  <1> QED
    BY <1>2, <1>3, <1>4

\* The pairs of n places, and those up to place k with j pairs of the next.
Pairs(n) == {q \in (1 .. n) \X (1 .. n) : q[1] < q[2]}
Front(n, k, j) == {q \in Pairs(n) : q[2] <= k \/ (q[2] = k + 1 /\ q[1] <= j)}

\* Where these sets begin and end.
LEMMA FrontsMeet ==
  ASSUME NEW n \in Nat, NEW k \in 0 .. n
  PROVE  /\ Front(n, 0, 0) = {} /\ Front(n, n, 0) = Pairs(n)
         /\ k < n => Front(n, k, k) = Front(n, k + 1, 0)
  <1>1. \A q \in Pairs(n) : /\ q = <<q[1], q[2]>> /\ q[1] \in Nat /\ q[2] \in Nat
                            /\ 1 <= q[1] /\ q[1] < q[2] /\ q[2] <= n
    BY DEF Pairs
  <1>2. Front(n, 0, 0) = {}
    <2>1. \A q \in Pairs(n) : ~(q[2] <= 0 \/ (q[2] = 0 + 1 /\ q[1] <= 0))
      BY <1>1
    <2> QED
      BY <2>1, Zenon DEF Front
  <1>3. Front(n, n, 0) = Pairs(n)
    BY <1>1 DEF Front
  <1>4. ASSUME k < n PROVE Front(n, k, k) = Front(n, k + 1, 0)
    <2>1. \A a, b \in Nat : 1 <= a /\ a < b =>
            ((b <= k \/ (b = k + 1 /\ a <= k)) <=> (b <= k + 1 \/ (b = (k + 1) + 1 /\ a <= 0)))
      OBVIOUS
    <2>2. \A q \in Pairs(n) :
            (q[2] <= k \/ (q[2] = k + 1 /\ q[1] <= k))
              <=> (q[2] <= k + 1 \/ (q[2] = (k + 1) + 1 /\ q[1] <= 0))
      BY <1>1, <2>1
    <2> QED
      BY <2>2, Zenon DEF Front
  <1> QED
    BY <1>2, <1>3, <1>4

\* One pair more.
LEMMA FrontGrows ==
  ASSUME NEW n \in Nat, NEW k \in 0 .. n, k < n, NEW j \in 0 .. (k - 1)
  PROVE  /\ <<j + 1, k + 1>> \in Front(n, k, j + 1)
         /\ Front(n, k, j + 1) \ {<<j + 1, k + 1>>} = Front(n, k, j)
  <1>1. \A q \in Pairs(n) : /\ q = <<q[1], q[2]>> /\ q[1] \in Nat /\ q[2] \in Nat
                            /\ 1 <= q[1] /\ q[1] < q[2] /\ q[2] <= n
    BY DEF Pairs
  <1> DEFINE p == <<j + 1, k + 1>>
  <1>2. p \in Pairs(n) /\ p[1] = j + 1 /\ p[2] = k + 1
    BY DEF Pairs
  <1>3. p \in Front(n, k, j + 1)
    BY <1>2 DEF Front
  <1>4. \A a, b \in Nat : a < b =>
          ((b <= k \/ (b = k + 1 /\ a <= j))
            <=> (b <= k \/ (b = k + 1 /\ a <= j + 1)) /\ ~(a = j + 1 /\ b = k + 1))
    OBVIOUS
  <1>5. \A q \in Pairs(n) : q = p <=> (q[1] = j + 1 /\ q[2] = k + 1)
    BY <1>1, <1>2, Zenon
  <1> HIDE DEF p
  <1>6. \A q \in Pairs(n) :
          (q[2] <= k \/ (q[2] = k + 1 /\ q[1] <= j))
            <=> (q[2] <= k \/ (q[2] = k + 1 /\ q[1] <= j + 1)) /\ q # p
    BY <1>1, <1>4, <1>5
  <1>7. Front(n, k, j + 1) \ {p} = Front(n, k, j)
    BY <1>6, Zenon DEF Front
  <1> QED
    BY <1>3, <1>7 DEF p

\* Adding a pair.
LEMMA PairAdded ==
  ASSUME NEW A \in Int, NEW q \in Int, NEW s \in Int,
         NEW j \in Int, NEW x \in Int, NEW y \in Int
  PROVE  (y - x) * (y - x) + (A + (q - (2 * x) * s + j * (x * x)))
           = A + ((y * y + q) - (2 * x) * (y + s) + (j + 1) * (x * x))
  OBVIOUS

\* Going on to the next place.
LEMMA PlaceDone ==
  ASSUME NEW k \in Int, NEW Q \in Int, NEW S \in Int, NEW x \in Int
  PROVE  (k * Q - S * S) + (Q - (2 * x) * S + k * (x * x))
           = (k + 1) * (x * x + Q) - (x + S) * (x + S)
  OBVIOUS

\* The squared distances of all pairs add up to the spread.
LEMMA DistancesAddUp ==
  ASSUME NEW v \in Seq(Int)
  PROVE  PairDistances(v) = Spread(v)
  <1> DEFINE n == Len(v)
             d == [p \in Pairs(n) |-> (v[p[1]] - v[p[2]]) * (v[p[1]] - v[p[2]])]
             r == Squares(v)
             S(k) == Total(v, 1 .. k)
             Q(k) == Total(r, 1 .. k)
             All(k) == k * Q(k) - S(k) * S(k)
             Some(k, j) == Q(j) - (2 * v[k + 1]) * S(j) + j * (v[k + 1] * v[k + 1])
  <1>1. n \in Nat /\ DOMAIN v = 1 .. n /\ \A i \in 1 .. n : v[i] \in Int
    OBVIOUS
  <1>2. r \in Seq(Int) /\ Len(r) = n /\ \A i \in 1 .. n : r[i] = v[i] * v[i]
    <2>1. r \in Seq(Int) /\ DOMAIN r = DOMAIN v /\ \A i \in DOMAIN v : r[i] = v[i] * v[i]
      BY DEF Squares
    <2> HIDE DEF r
    <2>2. Len(r) = Cardinality(DOMAIN r) /\ n = Cardinality(DOMAIN v)
      BY <2>1, Places
    <2> QED
      BY <1>1, <2>1, <2>2
  <1>3. PairDistances(v) = Total(d, Pairs(n))
    <2>1. PairDistances(v) = Sum(d)
      BY <1>1 DEF PairDistances, Pairs
    <2>2. DOMAIN d = Pairs(n)
      OBVIOUS
    <2> HIDE DEF d
    <2> QED
      BY <2>1, <2>2 DEF Sum, Total
  <1>4. Spread(v) = All(n)
    <2>1. Sum(v) = S(n) /\ Sum(r) = Q(n)
      <3>1. DOMAIN r = 1 .. n
        BY <1>2
      <3> QED
        BY <1>1, <1>2, <3>1, SumIsTotal
    <2> QED
      BY <2>1 DEF Spread
  <1>5. IsFiniteSet(Pairs(n)) /\ \A p \in Pairs(n) : d[p] \in Int
    <2>1. IsFiniteSet(Pairs(n))
      <3>1. IsFiniteSet((1 .. n) \X (1 .. n))
        <4>1. IsFiniteSet(1 .. n)
          BY <1>1, Places
        <4> QED
          BY <4>1, FS_Product
      <3> QED
        BY <3>1, FS_Subset DEF Pairs
    <2>2. ASSUME NEW p \in Pairs(n) PROVE d[p] \in Int
      <3>1. v[p[1]] \in Int /\ v[p[2]] \in Int
        BY <1>1 DEF Pairs
      <3>2. \A x, y \in Int : (x - y) * (x - y) \in Int
        OBVIOUS
      <3> QED
        BY <3>1, <3>2
    <2> QED
      BY <2>1, <2>2
  <1>6. ASSUME NEW k \in 0 .. n, NEW j \in 0 .. n
        PROVE  /\ IsFiniteSet(Front(n, k, j))
               /\ Total(d, Front(n, k, j)) \in Int /\ Total(d, {}) = 0
               /\ \A p \in Front(n, k, j) :
                    Total(d, Front(n, k, j)) = d[p] + Total(d, Front(n, k, j) \ {p})
    <2>1. Front(n, k, j) \subseteq Pairs(n)
      BY DEF Front
    <2>2. IsFiniteSet(Front(n, k, j))
      BY <1>5, <2>1, FS_Subset
    <2>3. \A p \in Front(n, k, j) : d[p] \in Int
      BY <1>5, <2>1
    <2> HIDE DEF d, n
    <2> QED
      BY <2>2, <2>3, TotalStep
  <1>7. ASSUME NEW k \in 0 .. n
        PROVE  /\ S(k) \in Int /\ Q(k) \in Int
               /\ k = 0 => S(k) = 0 /\ Q(k) = 0
               /\ k < n => /\ S(k + 1) = v[k + 1] + S(k)
                           /\ Q(k + 1) = v[k + 1] * v[k + 1] + Q(k)
    <2>1. /\ S(k) \in Int /\ (k = 0 => S(k) = 0)
          /\ k < n => S(k + 1) = v[k + 1] + S(k)
      BY <1>1, PrefixSum
    <2>2. /\ Q(k) \in Int /\ (k = 0 => Q(k) = 0)
          /\ k < n => Q(k + 1) = r[k + 1] + Q(k)
      <3> HIDE DEF r
      <3> QED
        BY <1>2, PrefixSum
    <2>3. k < n => r[k + 1] = v[k + 1] * v[k + 1]
      BY <1>1, <1>2
    <2> HIDE DEF S, Q, r, n
    <2> QED
      BY <2>1, <2>2, <2>3
  <1>8. ASSUME NEW p \in Pairs(n)
        PROVE  d[p] = (v[p[1]] - v[p[2]]) * (v[p[1]] - v[p[2]])
    OBVIOUS
  <1> HIDE DEF n, d, r, S, Q
  <1>9. ASSUME NEW k \in 0 .. (n - 1), Total(d, Front(n, k, 0)) = All(k)
        PROVE  Total(d, Front(n, k + 1, 0)) = All(k + 1)
    <2> DEFINE x == v[k + 1]
               T == {j \in 0 .. k : Total(d, Front(n, k, j)) = All(k) + Some(k, j)}
    <2>1. x \in Int /\ k \in 0 .. n /\ k < n /\ k \in Nat /\ k \in Int /\ k + 1 \in 0 .. n
      BY <1>1
    <2>2. S(k) \in Int /\ Q(k) \in Int
      BY <1>7, <2>1
    <2>3. 0 \in T
      <3>1. S(0) = 0 /\ Q(0) = 0
        BY <1>1, <1>7
      <3> HIDE DEF x
      <3>2. Some(k, 0) = 0
        <4>1. Some(k, 0) = Q(0) - (2 * x) * S(0) + 0 * (x * x)
          BY DEF x
        <4>2. x * x \in Int /\ 2 * x \in Int
          BY <2>1
        <4> QED
          BY <3>1, <4>1, <4>2
      <3>3. All(k) \in Int
        BY <2>1, <2>2
      <3> HIDE DEF All, Some
      <3>4. Total(d, Front(n, k, 0)) = All(k) + Some(k, 0)
        BY <1>9, <3>2, <3>3
      <3> QED
        BY <2>1, <3>4
    <2>4. ASSUME NEW j \in 0 .. (k - 1), j \in T
          PROVE  j + 1 \in T
      <3> DEFINE p == <<j + 1, k + 1>>
                 y == v[j + 1]
      <3>1. /\ j \in 0 .. n /\ j + 1 \in 0 .. n /\ j < n /\ j \in Int /\ y \in Int
            /\ j + 1 \in 0 .. k
        BY <1>1, <2>1
      <3>2. /\ p \in Front(n, k, j + 1) /\ Front(n, k, j + 1) \ {p} = Front(n, k, j)
        BY <1>1, <2>1, FrontGrows
      <3>3. d[p] = (y - x) * (y - x)
        <4>1. p \in Pairs(n) /\ p[1] = j + 1 /\ p[2] = k + 1
          BY <3>2 DEF Front
        <4> QED
          BY <1>8, <4>1
      <3> HIDE DEF p
      <3>4. Total(d, Front(n, k, j + 1)) = d[p] + Total(d, Front(n, k, j))
        <4>1. \A q \in Front(n, k, j + 1) :
                Total(d, Front(n, k, j + 1)) = d[q] + Total(d, Front(n, k, j + 1) \ {q})
          BY <1>6, <2>1, <3>1
        <4> QED
          BY <3>2, <4>1
      <3>5. Total(d, Front(n, k, j)) = All(k) + Some(k, j)
        BY <2>4
      <3>6. /\ S(j) \in Int /\ Q(j) \in Int /\ S(j + 1) = y + S(j)
            /\ Q(j + 1) = y * y + Q(j)
        BY <1>7, <3>1
      <3>7. Some(k, j) = Q(j) - (2 * x) * S(j) + j * (x * x)
        OBVIOUS
      <3>8. Some(k, j + 1) = (y * y + Q(j)) - (2 * x) * (y + S(j)) + (j + 1) * (x * x)
        BY <3>6
      <3> HIDE DEF x, y, Some
      <3>9. d[p] + (All(k) + Some(k, j)) = All(k) + Some(k, j + 1)
        <4>1. PICK a \in Int, q \in Int, t \in Int : a = All(k) /\ q = Q(j) /\ t = S(j)
          <5>1. All(k) \in Int
            BY <2>1, <2>2
          <5> HIDE DEF All
          <5> QED
            BY <3>6, <5>1
        <4> HIDE DEF All
        <4>2. (y - x) * (y - x) + (a + (q - (2 * x) * t + j * (x * x)))
              = a + ((y * y + q) - (2 * x) * (y + t) + (j + 1) * (x * x))
          BY <2>1, <3>1, PairAdded
        <4> QED
          BY <3>3, <3>7, <3>8, <4>1, <4>2, Zenon
      <3>10. Total(d, Front(n, k, j + 1)) = All(k) + Some(k, j + 1)
        BY <3>4, <3>5, <3>9
      <3> QED
        BY <3>1, <3>10
    <2>5. k \in T
      <3> HIDE DEF T
      <3> QED
        <4>1. \A j \in 0 .. k : j \in T
          BY <2>1, <2>3, <2>4, UpTo
        <4> QED
          BY <2>1, <4>1
    <2>6. Total(d, Front(n, k, k)) = All(k) + Some(k, k)
      BY <2>5
    <2>7. Front(n, k, k) = Front(n, k + 1, 0)
      BY <1>1, <2>1, FrontsMeet
    <2>8. S(k + 1) = x + S(k) /\ Q(k + 1) = x * x + Q(k)
      BY <1>7, <2>1
    <2>9. /\ Some(k, k) = Q(k) - (2 * x) * S(k) + k * (x * x)
          /\ All(k + 1) = (k + 1) * (x * x + Q(k)) - (x + S(k)) * (x + S(k))
      BY <2>8
    <2> HIDE DEF x, Some
    <2>10. All(k) + Some(k, k) = All(k + 1)
      <3>1. PICK q \in Int, t \in Int : q = Q(k) /\ t = S(k)
        BY <2>2
      <3>2. (k * q - t * t) + (q - (2 * x) * t + k * (x * x))
              = (k + 1) * (x * x + q) - (x + t) * (x + t)
        BY <2>1, PlaceDone
      <3> QED
        BY <2>9, <3>1, <3>2, Zenon
    <2> QED
      BY <2>6, <2>7, <2>10
  <1>10. Total(d, Front(n, 0, 0)) = All(0)
    <2>1. Front(n, 0, 0) = {}
      BY <1>1, FrontsMeet
    <2>2. Total(d, {}) = 0
      <3>1. 0 \in 0 .. n
        BY <1>1
      <3> QED
        BY <1>6, <3>1
    <2>3. S(0) = 0 /\ Q(0) = 0
      BY <1>1, <1>7
    <2>4. All(0) = 0
      BY <2>3
    <2> HIDE DEF All
    <2> QED
      BY <2>1, <2>2, <2>4, Zenon
  <1> HIDE DEF All
  <1>11. Total(d, Front(n, n, 0)) = All(n)
    <2> DEFINE T == {k \in 0 .. n : Total(d, Front(n, k, 0)) = All(k)}
    <2>1. 0 \in T
      BY <1>1, <1>10
    <2>2. \A k \in 0 .. (n - 1) : k \in T => k + 1 \in T
      BY <1>1, <1>9
    <2>3. n \in T
      <3> HIDE DEF T
      <3> QED
        <4>1. \A k \in 0 .. n : k \in T
          BY <1>1, <2>1, <2>2, UpTo
        <4> QED
          BY <1>1, <4>1
    <2> QED
      BY <2>3
  <1> QED
    BY <1>1, <1>3, <1>4, <1>11, FrontsMeet
-----------------------------------------------------------------------------
(* The checks of the code against what they are there to refuse *)

\* The intervals of a series.
LEMMA IntervalsAre ==
  ASSUME NEW t \in Seq(Int), t # <<>>
  PROVE  /\ Intervals(t) \in Seq(Int) /\ Len(Intervals(t)) = Len(t) - 1
         /\ DOMAIN Intervals(t) = 1 .. (Len(t) - 1)
         /\ \A i \in 1 .. (Len(t) - 1) : Intervals(t)[i] = t[i + 1] - t[i]
         /\ Intervals(t) # <<>> <=> Len(t) >= 2
  <1> DEFINE d == Intervals(t)
             n == Len(t)
  <1>1. n \in Nat /\ n >= 1 /\ \A i \in 1 .. n : t[i] \in Int
    OBVIOUS
  <1>2. DOMAIN d = 1 .. (n - 1) /\ \A i \in 1 .. (n - 1) : d[i] = t[i + 1] - t[i]
    BY DEF Intervals
  <1> HIDE DEF d, n
  <1>3. \A i \in 1 .. (n - 1) : t[i + 1] - t[i] \in Int
    <2>1. \A i \in 1 .. (n - 1) : i \in 1 .. n /\ i + 1 \in 1 .. n
      BY <1>1
    <2> QED
      BY <1>1, <2>1
  <1>4. d \in [1 .. (n - 1) -> Int]
    <2>1. d = [i \in 1 .. (n - 1) |-> t[i + 1] - t[i]]
      BY DEF d, n, Intervals
    <2> QED
      BY <1>3, <2>1
  <1>5. d \in Seq(Int) /\ n - 1 \in Nat
    <2>1. n - 1 \in Nat
      BY <1>1
    <2> QED
      BY <1>4, <2>1
  <1>6. Len(d) = n - 1
    <2>1. Len(d) \in Nat /\ DOMAIN d = 1 .. Len(d)
      BY <1>5
    <2> QED
      BY <1>2, <1>5, <2>1
  <1>7. d # <<>> <=> n >= 2
    <2>1. d # <<>> <=> Len(d) # 0
      BY <1>5
    <2> QED
      BY <1>1, <1>6, <2>1
  <1> QED
    BY <1>2, <1>5, <1>6, <1>7 DEF d, n

\* The rule of the gaps, with the median as the middle of the intervals.
LEMMA GapIs ==
  ASSUME NEW t \in Seq(Int), t # <<>>, NEW c \in Settings
  PROVE  TemporalGap(t, c) <=>
           /\ c.temporal_gap_enabled /\ Intervals(t) # <<>>
           /\ \E i \in DOMAIN Intervals(t) :
                4 * Intervals(t)[i]
                  > c.max_temporal_gap_factor
                      * (Max(Middle(Intervals(t))) + Min(Middle(Intervals(t))))
  <1> DEFINE d == Intervals(t)
             g == c.max_temporal_gap_factor * (Max(Middle(d)) + Min(Middle(d)))
  <1>1. d \in Seq(Int) /\ (d # <<>> <=> Len(t) >= 2)
    BY IntervalsAre
  <1> HIDE DEF d
  <1>2. CASE d = <<>>
    BY <1>1, <1>2 DEF TemporalGap, d
  <1>3. CASE d # <<>>
    <2>1. /\ Median2(d) = LowMedian(d) + HighMedian(d)
          /\ Min(Middle(d)) = LowMedian(d) /\ Max(Middle(d)) = HighMedian(d)
          /\ LowMedian(d) \in Range(d) /\ HighMedian(d) \in Range(d)
      BY <1>1, <1>3, MediansAre
    <2>2. LowMedian(d) \in Int /\ HighMedian(d) \in Int
      <3>1. Range(d) \subseteq Int
        BY <1>1 DEF Range
      <3> QED
        BY <2>1, <3>1
    <2>3. Median2(d) = Max(Middle(d)) + Min(Middle(d))
      BY <2>1, <2>2
    <2>4. c.max_temporal_gap_factor * Median2(d) = g
      BY <2>3
    <2>5. g \in Int
      <3>1. c.max_temporal_gap_factor \in Int
        BY DEF Settings
      <3>2. Max(Middle(d)) + Min(Middle(d)) \in Int
        BY <2>1, <2>2
      <3> HIDE DEF d
      <3>3. \A x, y \in Int : x * y \in Int
        OBVIOUS
      <3> QED
        BY <3>1, <3>2, <3>3
    <2>6. /\ Max(Range(d)) \in Range(d) /\ Range(d) \subseteq Int
          /\ \A x \in Range(d) : x <= Max(Range(d))
      <3>1. Range(d) = {d[i] : i \in DOMAIN d} /\ DOMAIN d # {}
        <4>1. d[1] \in Int /\ 1 \in DOMAIN d
          BY <1>1, <1>3
        <4> QED
          BY <4>1, RangeIs
      <3> QED
        BY <1>1, <3>1, ExtremesAre
    <2> HIDE DEF g
    <2>7. 4 * Max(Range(d)) > g <=> \E i \in DOMAIN d : 4 * d[i] > g
      <3>1. ASSUME 4 * Max(Range(d)) > g
            PROVE  \E i \in DOMAIN d : 4 * d[i] > g
        <4>1. PICK i \in DOMAIN d : d[i] = Max(Range(d))
          BY <2>6 DEF Range
        <4> QED
          BY <3>1, <4>1
      <3>2. ASSUME NEW i \in DOMAIN d, 4 * d[i] > g
            PROVE  4 * Max(Range(d)) > g
        <4>1. d[i] \in Range(d)
          BY DEF Range
        <4>2. d[i] <= Max(Range(d)) /\ d[i] \in Int /\ Max(Range(d)) \in Int
          BY <2>6, <4>1
        <4> QED
          BY <2>5, <3>2, <4>2
      <3> QED
        BY <3>1, <3>2
    <2>8. TemporalGap(t, c) <=> c.temporal_gap_enabled /\ 4 * Max(Range(d)) > g
      BY <1>1, <1>3, <2>4, Zenon DEF TemporalGap, d
    <2> QED
      BY <1>3, <2>7, <2>8, Zenon DEF d, g
  <1> QED
    BY <1>2, <1>3

\* The rule of the flat tail.
LEMMA FlatLineIs ==
  ASSUME NEW v \in Seq(Int), v # <<>>, NEW c \in Settings
  PROVE  FlatLine(v, c) <=>
           /\ c.flat_line_enabled
           /\ FlatTail(v) >= IF c.flat_line_window = 0 THEN Len(v)
                             ELSE c.flat_line_window
  <1> DEFINE n == Len(v)
             w == c.flat_line_window
             m == IF w = 0 THEN n ELSE w
  <1>1. n \in Nat /\ n >= 1 /\ w \in Nat
    BY DEF Settings
  <1>2. CASE w <= n
    <2>1. m \in 1 .. n
      <3> HIDE DEF n, w
      <3> QED
        BY <1>1, <1>2
    <2>2. Range(Trailing(v, w)) = LastOf(v, m)
      BY <1>1, <1>2, TrailingIs
    <2>3. Max(LastOf(v, m)) = Min(LastOf(v, m)) <=> FlatTail(v) >= m
      <3> HIDE DEF m
      <3> QED
        BY <2>1, FlatIs
    <2>4. FlatLine(v, c) <=>
            /\ c.flat_line_enabled /\ n >= w
            /\ Max(Range(Trailing(v, w))) = Min(Range(Trailing(v, w)))
      BY Zenon DEF FlatLine
    <2>5. n >= w
      BY <1>1, <1>2
    <2> QED
      BY <2>2, <2>3, <2>4, <2>5, Zenon
  <1>3. CASE ~(w <= n)
    <2>1. ~FlatLine(v, c)
      <3>1. ~(n >= w)
        BY <1>1, <1>3
      <3> QED
        BY <3>1 DEF FlatLine
    <2>2. m = w
      BY <1>1, <1>3
    <2>3. FlatTail(v) \in 1 .. n
      BY FlatTailIs
    <2>4. ~(FlatTail(v) >= m)
      <3> HIDE DEF n, m, w
      <3> QED
        BY <1>1, <1>3, <2>2, <2>3
    <2> QED
      BY <2>1, <2>4, Zenon
  <1> QED
    BY <1>2, <1>3

\* The rule of the constant series.
LEMMA ConstantIs ==
  ASSUME NEW v \in Seq(Int), NEW c
  PROVE  ConstantSeries(v, c) <=>
           100 * PairDistances(v) < (Len(v) * c.std_threshold) * (Len(v) * c.std_threshold)
  BY DistancesAddUp DEF ConstantSeries

-----------------------------------------------------------------------------
(* The invariant: a request has passed the checks before the one it is at *)

\* What a fit flags of a series.
FlagsOf(f) ==
  IF f.detector = "gaussian"
  THEN {{i \in DOMAIN f.values : Above(f.values, f.values[i], tie)} : tie \in BOOLEAN}
  ELSE {{i \in DOMAIN f.values : Isolated(f.values, f.values[i], score)}
          : score \in [Range(f.values) -> Scores]}

Passes(f, n) == \A j \in 1 .. n : ~Refuses(Checks[j], f)

RefusedAt(i) ==
  /\ answer = Refusal[Checks[i]]
  /\ Refuses(Checks[i], fit)
  /\ Passes(fit, i - 1)

TrainedWith(flags) ==
  /\ answer = Trained
  /\ Passes(fit, Len(Checks))
  /\ metadata = [n_samples |-> Len(fit.values),
                 min_timestamp |-> Min(Range(fit.timestamps)),
                 max_timestamp |-> Max(Range(fit.timestamps)),
                 flags |-> flags]

DataInv ==
  /\ fit \in Fits
  /\ step \in 0 .. Ended
  /\ step # Ended => answer = Unanswered /\ Passes(fit, step)
  /\ step = Ended => \/ \E i \in 1 .. Len(Checks) : RefusedAt(i)
                     \/ \E flags \in FlagsOf(fit) : TrainedWith(flags)

\* The checks by their numbers.
LEMMA ChecksAre ==
  /\ Len(Checks) = 10 /\ Ended = 11
  /\ Checks[1] = "lengths" /\ Checks[2] = "detector" /\ Checks[3] = "points"
  /\ Checks[4] = "finite" /\ Checks[5] = "constant" /\ Checks[6] = "duplicate"
  /\ Checks[7] = "order" /\ Checks[8] = "flat" /\ Checks[9] = "gap"
  /\ Checks[10] = "series"
  BY DEF Checks, Ended

\* What each check refuses.
LEMMA RulesAre ==
  ASSUME NEW f
  PROVE  /\ Refuses("lengths", f) <=> \/ f.timestamps = <<>>
                                      \/ Len(f.timestamps) # Len(f.values)
         /\ Refuses("detector", f) <=> f.detector \notin Detectors
         /\ Refuses("points", f) <=> TooFew(f.values, f.settings)
         /\ Refuses("finite", f) <=> NotFinite(f.values)
         /\ Refuses("constant", f) <=> ConstantSeries(f.values, f.settings)
         /\ Refuses("duplicate", f) <=> Duplicates(f.timestamps)
         /\ Refuses("order", f) <=> Unordered(f.timestamps)
         /\ Refuses("flat", f) <=> FlatLine(f.values, f.settings)
         /\ Refuses("gap", f) <=> TemporalGap(f.timestamps, f.settings)
         /\ Refuses("series", f) <=> ~f.safe
  BY DEF Refuses, Unaligned

\* A request that has passed some checks, and one more.
LEMMA OnePasses ==
  ASSUME NEW n \in 0 .. (Len(Checks) - 1), Passes(fit, n),
         ~Refuses(Checks[n + 1], fit)
  PROVE  Passes(fit, n + 1)
  BY ChecksAre DEF Passes

\* Every step keeps the invariant.
LEMMA NextData ==
  ASSUME DataInv, [Next]_vars
  PROVE  DataInv'
  <1>1. /\ Len(Checks) = 10 /\ Ended = 11 /\ step \in 0 .. 11 /\ fit \in Fits
        /\ step # Ended => answer = Unanswered /\ Passes(fit, step)
    BY ChecksAre DEF DataInv
  <1>2. CASE Refuse
    <2>1. /\ step' = Ended /\ fit' = fit /\ step + 1 \in 1 .. Len(Checks)
          /\ answer' = Refusal[Checks[step + 1]]
          /\ Refuses(Checks[step + 1], fit) /\ Passes(fit, step)
          /\ (step + 1) - 1 = step
      BY <1>1, <1>2 DEF Refuse
    <2> DEFINE i == step + 1
    <2>2. /\ answer' = Refusal[Checks[i]]
          /\ Refuses(Checks[i], fit') /\ Passes(fit', i - 1) /\ i \in 1 .. Len(Checks)
      BY <2>1
    <2>3. \E k \in 1 .. Len(Checks) : RefusedAt(k)'
      <3> HIDE DEF i
      <3> QED
        BY <2>2 DEF RefusedAt
    <2> QED
      BY <1>1, <2>1, <2>3 DEF DataInv
  <1>3. CASE Pass
    <2>1. /\ step' = step + 1 /\ fit' = fit /\ answer' = answer /\ step + 1 \in 1 .. 10
          /\ ~Refuses(Checks[step + 1], fit) /\ Passes(fit, step) /\ answer = Unanswered
      BY <1>1, <1>3 DEF Pass
    <2>2. Passes(fit, step + 1)
      BY <1>1, <2>1, OnePasses
    <2> QED
      BY <1>1, <2>1, <2>2 DEF DataInv
  <1>4. CASE TrainGaussian \/ TrainForest
    <2>1. PICK flags \in FlagsOf(fit) : Save(flags)
      <3>1. CASE TrainGaussian
        <4>1. PICK tie \in BOOLEAN :
                Save({i \in DOMAIN fit.values : Above(fit.values, fit.values[i], tie)})
          BY <3>1 DEF TrainGaussian
        <4> DEFINE flags == {i \in DOMAIN fit.values : Above(fit.values, fit.values[i], tie)}
        <4>2. flags \in FlagsOf(fit)
          BY <3>1 DEF FlagsOf, TrainGaussian
        <4> QED
          BY <4>1, <4>2
      <3>2. CASE TrainForest
        <4>1. PICK score \in [Range(fit.values) -> Scores] :
                Save({i \in DOMAIN fit.values :
                        Isolated(fit.values, fit.values[i], score)})
          BY <3>2 DEF TrainForest
        <4> DEFINE flags == {i \in DOMAIN fit.values :
                               Isolated(fit.values, fit.values[i], score)}
        <4>2. flags \in FlagsOf(fit)
          BY <3>2 DEF FlagsOf, TrainForest
        <4> QED
          BY <4>1, <4>2
      <3> QED
        BY <1>4, <3>1, <3>2
    <2>2. /\ step' = Ended /\ fit' = fit /\ Passes(fit, Len(Checks))
          /\ TrainedWith(flags)'
      BY <1>1, <2>1 DEF Save, TrainedWith
    <2> QED
      BY <1>1, <2>1, <2>2 DEF DataInv
  <1>5. CASE UNCHANGED vars
    BY <1>5 DEF vars, DataInv, RefusedAt, TrainedWith
  <1> QED
    BY <1>2, <1>3, <1>4, <1>5 DEF Next, Done

\* A request has passed the checks before the one it is at, its answer is that
\* of the first that refuses it, and a trained one has passed them all.
THEOREM DataInvariant == Spec => []DataInv
  <1>1. Init => DataInv
    BY ChecksAre DEF Init, DataInv, Passes
  <1>2. DataInv /\ [Next]_vars => DataInv'
    BY NextData
  <1> QED
    BY <1>1, <1>2, PTL DEF Spec

\* The numbers of the checks.
LEMMA CheckNumbers ==
  \A i \in 1 .. Len(Checks) :
    i \in {1, 2, 3, 4, 5, 6, 7, 8, 9, 10} /\ i \in Nat
  BY ChecksAre

\* The answers of different checks differ, and none is that of a trained request.
LEMMA AnswersAre ==
  /\ \A i \in 1 .. Len(Checks) : Refusal[Checks[i]] \notin {Trained, Unanswered}
  /\ \A i, j \in 1 .. Len(Checks) : Refusal[Checks[i]] = Refusal[Checks[j]] => i = j
  /\ Unanswered # Trained
  <1> DEFINE Codes == <<"VALIDATION_ERROR", "UNSUPPORTED_DETECTOR", "INSUFFICIENT_DATA",
                        "INVALID_VALUES", "CONSTANT_SERIES", "DUPLICATE_TIMESTAMPS",
                        "UNORDERED_TIMESTAMPS", "FLAT_LINE_DETECTED",
                        "TEMPORAL_GAP_DETECTED", "INVALID_SERIES_ID">>
  <1>1. /\ Refusal[Checks[1]][2] = Codes[1] /\ Refusal[Checks[2]][2] = Codes[2]
        /\ Refusal[Checks[3]][2] = Codes[3] /\ Refusal[Checks[4]][2] = Codes[4]
        /\ Refusal[Checks[5]][2] = Codes[5] /\ Refusal[Checks[6]][2] = Codes[6]
        /\ Refusal[Checks[7]][2] = Codes[7] /\ Refusal[Checks[8]][2] = Codes[8]
        /\ Refusal[Checks[9]][2] = Codes[9] /\ Refusal[Checks[10]][2] = Codes[10]
    BY ChecksAre DEF Refusal
  <1>2. \A i \in {1, 2, 3, 4, 5, 6, 7, 8, 9, 10} : Codes[i] # ""
    <2>1. /\ Codes[1] # "" /\ Codes[2] # "" /\ Codes[3] # "" /\ Codes[4] # ""
          /\ Codes[5] # "" /\ Codes[6] # "" /\ Codes[7] # "" /\ Codes[8] # ""
          /\ Codes[9] # "" /\ Codes[10] # ""
      OBVIOUS
    <2> HIDE DEF Codes
    <2> QED
      BY <2>1, Zenon
  <1>3. \A i, j \in {1, 2, 3, 4, 5, 6, 7, 8, 9, 10} : Codes[i] = Codes[j] => i = j
    OBVIOUS
  <1> HIDE DEF Codes
  <1>4. \A i \in {1, 2, 3, 4, 5, 6, 7, 8, 9, 10} : Refusal[Checks[i]][2] = Codes[i]
    BY <1>1, Zenon
  <1>5. Trained[2] = "" /\ Unanswered[2] = "" /\ Unanswered # Trained
    BY DEF Trained, Unanswered
  <1>6. ASSUME NEW i \in 1 .. Len(Checks)
        PROVE  Refusal[Checks[i]] # Trained /\ Refusal[Checks[i]] # Unanswered
    <2>1. Refusal[Checks[i]][2] # ""
      BY <1>2, <1>4, CheckNumbers
    <2> QED
      BY <1>5, <2>1, Zenon
  <1>7. ASSUME NEW i \in 1 .. Len(Checks), NEW j \in 1 .. Len(Checks),
               Refusal[Checks[i]] = Refusal[Checks[j]]
        PROVE  i = j
    <2>1. /\ i \in {1, 2, 3, 4, 5, 6, 7, 8, 9, 10}
          /\ j \in {1, 2, 3, 4, 5, 6, 7, 8, 9, 10}
      BY CheckNumbers
    <2>2. Refusal[Checks[i]][2] = Codes[i] /\ Refusal[Checks[j]][2] = Codes[j]
      BY <1>4, <2>1, Zenon
    <2>3. Codes[i] = Codes[j]
      BY <1>7, <2>2, Zenon
    <2> QED
      BY <1>3, <2>1, <2>3, Zenon
  <1> QED
    BY <1>5, <1>6, <1>7, Zenon

\* What is known of a trained request.
LEMMA TrainedIs ==
  ASSUME DataInv, answer = Trained
  PROVE  /\ fit \in Fits
         /\ \E flags \in FlagsOf(fit) : TrainedWith(flags)
  BY AnswersAre DEF DataInv, RefusedAt

\* A series that has passed the rules, and its values.
LEMMA PassedIs ==
  ASSUME NEW f \in Fits, Passes(f, 7)
  PROVE  /\ f.timestamps \in Seq(Int) /\ f.timestamps # <<>>
         /\ f.values \in Seq(Int) /\ f.values # <<>>
         /\ Len(f.timestamps) = Len(f.values)
         /\ f.settings \in Settings
         /\ ~Duplicates(f.timestamps) /\ ~Unordered(f.timestamps)
         /\ ~ConstantSeries(f.values, f.settings)
  <1>1. /\ f.timestamps \in Seq(Int) /\ f.values \in Seq(Int \cup {NaN})
        /\ f.settings \in Settings
    BY FitsAssumption DEF FitRequest
  <1>2. /\ ~Refuses("lengths", f) /\ ~Refuses("finite", f) /\ ~Refuses("constant", f)
        /\ ~Refuses("duplicate", f) /\ ~Refuses("order", f)
    <2>1. /\ ~Refuses(Checks[1], f) /\ ~Refuses(Checks[4], f) /\ ~Refuses(Checks[5], f)
          /\ ~Refuses(Checks[6], f) /\ ~Refuses(Checks[7], f)
      BY DEF Passes
    <2> QED
      BY <2>1, ChecksAre
  <1>3. /\ f.timestamps # <<>> /\ Len(f.timestamps) = Len(f.values)
        /\ ~NotFinite(f.values) /\ ~ConstantSeries(f.values, f.settings)
        /\ ~Duplicates(f.timestamps) /\ ~Unordered(f.timestamps)
    BY <1>2, RulesAre
  <1>4. f.values \in Seq(Int)
    <2>1. \A i \in 1 .. Len(f.values) : f.values[i] \in Int
      BY <1>1, <1>3 DEF NotFinite
    <2> QED
      BY <1>1, <2>1
  <1> QED
    BY <1>1, <1>3, <1>4

\* The report saved with a model is that of an increasing series: it ranges from
\* the first to the last point, and the rate it gives is at most n / (n - 1).
THEOREM QualityIsTrue == Spec => []QualityTrue
  <1>1. ASSUME DataInv, answer = Trained PROVE QualityTrue
    <2>1. fit \in Fits
      BY <1>1, TrainedIs
    <2>2. PICK flags \in FlagsOf(fit) : TrainedWith(flags)
      BY <1>1, TrainedIs
    <2> DEFINE t == fit.timestamps
               a == t[1]
               b == t[Len(t)]
    <2>3. Passes(fit, 7)
      BY <2>2, ChecksAre DEF TrainedWith, Passes
    <2>4. /\ t \in Seq(Int) /\ t # <<>> /\ Len(fit.values) = Len(t) /\ ~Unordered(t)
      BY <2>1, <2>3, PassedIs
    <2>5. /\ metadata.n_samples = Len(t)
          /\ metadata.min_timestamp = Min(Range(t))
          /\ metadata.max_timestamp = Max(Range(t))
      BY <2>2, <2>4 DEF TrainedWith
    <2> HIDE DEF t
    <2>6. /\ metadata.min_timestamp = a /\ metadata.max_timestamp = b
          /\ a \in Int /\ b \in Int /\ b - a >= Len(t) - 1 /\ Len(t) \in Nat /\ Len(t) >= 1
      BY <2>4, <2>5, RangeOfIncreasing
    <2> HIDE DEF a, b
    <2>7. TimeSpan(metadata) = b - a
      <3>1. {b - a, 0} \subseteq Int /\ b - a \in {b - a, 0} /\ \A y \in {b - a, 0} : b - a >= y
        BY <2>6
      <3>2. Max({b - a, 0}) = b - a
        BY <3>1, ExtremaAre
      <3> QED
        BY <2>6, <3>2 DEF TimeSpan
    <2>8. RateDivisor(metadata) >= Len(t) - 1
      <3> DEFINE c == b - a
      <3>1. c \in Int /\ c >= Len(t) - 1 /\ TimeSpan(metadata) = c
        BY <2>6, <2>7
      <3> HIDE DEF c
      <3>2. CASE c >= 1
        <4>1. {c, 1} \subseteq Int /\ c \in {c, 1} /\ \A y \in {c, 1} : c >= y
          BY <3>1, <3>2
        <4>2. Max({c, 1}) = c
          BY <4>1, ExtremaAre
        <4> QED
          BY <3>1, <4>2 DEF RateDivisor
      <3>3. CASE ~(c >= 1)
        <4>1. {c, 1} \subseteq Int /\ 1 \in {c, 1} /\ \A y \in {c, 1} : 1 >= y
          BY <3>1, <3>3
        <4>2. Max({c, 1}) = 1
          BY <4>1, ExtremaAre
        <4> QED
          BY <2>6, <3>1, <3>3, <4>2 DEF RateDivisor
      <3> QED
        BY <3>2, <3>3
    <2> QED
      BY <2>5, <2>6, <2>7, <2>8 DEF QualityTrue, t, a, b
  <1>2. DataInv => QualityTrue
    BY <1>1 DEF QualityTrue
  <1> QED
    BY <1>2, DataInvariant, PTL

\* A fit flags at most a tenth of the training points with the gaussian detector,
\* by Cantelli's inequality, and with the isolation forest, whatever its scores,
\* less than a tenth and one point.
THEOREM FewAreFlagged == Spec => []FewFlagged
  <1>1. ASSUME DataInv, answer = Trained PROVE FewFlagged
    <2>1. fit \in Fits
      BY <1>1, TrainedIs
    <2>2. PICK flags \in FlagsOf(fit) : TrainedWith(flags)
      BY <1>1, TrainedIs
    <2> DEFINE v == fit.values
    <2>3. Passes(fit, 7)
      BY <2>2, ChecksAre DEF TrainedWith, Passes
    <2>4. v \in Seq(Int) /\ v # <<>>
      BY <2>1, <2>3, PassedIs
    <2>5. metadata.n_samples = Len(v) /\ metadata.flags = flags
      BY <2>2 DEF TrainedWith
    <2>6. CASE fit.detector = "gaussian"
      <3>1. PICK tie \in BOOLEAN : flags = {i \in DOMAIN v : Above(v, v[i], tie)}
        BY <2>2, <2>6 DEF FlagsOf
      <3> HIDE DEF v
      <3>2. flags \subseteq DOMAIN v
        BY <3>1
      <3>3. ASSUME NEW i \in flags
            PROVE  /\ Deviation(v, i) > 0
                   /\ Deviation(v, i) * Deviation(v, i) >= 9 * Spread(v)
        <4>1. /\ Deviation(v, i) > 0
              /\ \/ Deviation(v, i) * Deviation(v, i) > 9 * Spread(v)
                 \/ Deviation(v, i) * Deviation(v, i) = 9 * Spread(v)
          BY <3>1 DEF Above, Deviation
        <4>2. Spread(v) \in Nat /\ Deviation(v, i) \in Int
          BY <2>4, <3>2, SpreadIsNatural, SumIsTotal DEF Deviation
        <4>3. 9 * Spread(v) \in Int /\ Deviation(v, i) * Deviation(v, i) \in Int
          BY <4>2
        <4> QED
          BY <4>1, <4>3
      <3>4. 10 * Cardinality(flags) <= Len(v)
        BY <2>4, <3>2, <3>3, FewAbove
      <3> QED
        BY <2>5, <2>6, <3>4 DEF FewFlagged
    <2>7. CASE fit.detector # "gaussian"
      <3>1. PICK score \in [Range(v) -> Scores] :
              flags = {i \in DOMAIN v : Isolated(v, v[i], score)}
        BY <2>2, <2>7 DEF FlagsOf
      <3> HIDE DEF v
      <3> DEFINE s == [i \in DOMAIN v |-> score[v[i]]]
      <3>2. s \in Seq(Int) /\ s # <<>> /\ Len(s) = Len(v) /\ DOMAIN s = DOMAIN v
        <4>1. \A i \in DOMAIN v : score[v[i]] \in Int
          BY ScoresAssumption DEF Range
        <4> QED
          BY <2>4, <4>1
      <3>3. flags = {i \in DOMAIN s : 10 * s[i] < Percentile10(s)}
        BY <3>1 DEF Isolated
      <3> HIDE DEF s
      <3>4. 10 * Cardinality(flags) < Len(v) + 9
        BY <3>2, <3>3, FewUnder
      <3> QED
        BY <2>5, <2>7, <3>4 DEF FewFlagged
    <2> QED
      BY <2>6, <2>7
  <1>2. DataInv => FewFlagged
    BY <1>1 DEF FewFlagged
  <1> QED
    BY <1>2, DataInvariant, PTL

-----------------------------------------------------------------------------
(* The first rule that a request breaks *)

\* The fields of a request.
LEMMA RequestIs ==
  ASSUME NEW f \in Fits
  PROVE  /\ f.timestamps \in Seq(Int) /\ f.values \in Seq(Int \cup {NaN})
         /\ f.settings \in Settings
  BY FitsAssumption DEF FitRequest

\* What breaking each rule is.
LEMMA BrokenIs ==
  ASSUME NEW f
  PROVE  LET v == f.values
             t == f.timestamps
             conf == f.settings
             d == Intervals(t)
         IN /\ Broken("lengths", f) <=> Len(t) # Len(v) \/ Len(t) = 0
            /\ Broken("detector", f) <=> f.detector \notin Detectors
            /\ Broken("points", f) <=> Len(v) < conf.min_data_points
            /\ Broken("finite", f) <=> ~Finite(f)
            /\ Broken("constant", f) <=>
                 /\ Finite(f)
                 /\ 100 * PairDistances(v)
                      < (Len(v) * conf.std_threshold) * (Len(v) * conf.std_threshold)
            /\ Broken("duplicate", f) <=> \E i, j \in DOMAIN t : i # j /\ t[i] = t[j]
            /\ Broken("order", f) <=> \E i, j \in DOMAIN t : i < j /\ t[i] > t[j]
            /\ Broken("flat", f) <=>
                 /\ conf.flat_line_enabled
                 /\ v # <<>>
                 /\ FlatTail(v) >= IF conf.flat_line_window = 0 THEN Len(v)
                                   ELSE conf.flat_line_window
            /\ Broken("gap", f) <=>
                 /\ conf.temporal_gap_enabled
                 /\ d # <<>>
                 /\ \E i \in DOMAIN d :
                      4 * d[i] > conf.max_temporal_gap_factor
                                   * (Max(Middle(d)) + Min(Middle(d)))
            /\ Broken("series", f) <=> ~f.safe
  BY DEF Broken

\* What is known of a request that has passed the first four checks.
LEMMA WellFormed ==
  ASSUME NEW f \in Fits, ~Refuses("lengths", f), ~Refuses("finite", f)
  PROVE  /\ f.values \in Seq(Int) /\ f.values # <<>> /\ f.timestamps # <<>>
         /\ Len(f.timestamps) = Len(f.values) /\ Finite(f)
  <1>1. f.timestamps # <<>> /\ Len(f.timestamps) = Len(f.values) /\ ~NotFinite(f.values)
    BY RulesAre
  <1>2. f.values \in Seq(Int)
    <2>1. \A i \in 1 .. Len(f.values) : f.values[i] \in Int
      BY <1>1, RequestIs DEF NotFinite
    <2> QED
      BY <2>1, RequestIs
  <1>3. f.values # <<>>
    BY <1>1, RequestIs
  <1>4. Finite(f)
    BY <1>1 DEF Finite, NotFinite, Range
  <1> QED
    BY <1>1, <1>2, <1>3, <1>4

\* Each check, where the ones before it have passed, refuses what breaks its rule.
LEMMA RuleIs ==
  ASSUME NEW f \in Fits, NEW i \in 1 .. Len(Checks), Passes(f, i - 1)
  PROVE  Refuses(Checks[i], f) <=> Broken(Checks[i], f)
  <1>1. i \in {1, 2, 3, 4, 5, 6, 7, 8, 9, 10} /\ i \in Nat
    BY CheckNumbers
  <1>2. \A j \in 1 .. Len(Checks) : j < i => ~Refuses(Checks[j], f)
    BY <1>1, ChecksAre DEF Passes
  <1>3. CASE i = 1
    <2>1. f.timestamps = <<>> <=> Len(f.timestamps) = 0
      BY RequestIs
    <2>2. Refuses("lengths", f) <=> Broken("lengths", f)
      BY <2>1, RulesAre, BrokenIs, Zenon
    <2> QED
      BY <1>3, <2>2, ChecksAre, Zenon
  <1>4. CASE i = 2
    BY <1>4, ChecksAre, RulesAre, BrokenIs, Zenon
  <1>5. CASE i = 3
    BY <1>5, ChecksAre, RulesAre, BrokenIs, Zenon DEF TooFew
  <1>6. CASE i = 4
    <2>1. NotFinite(f.values) <=> ~Finite(f)
      BY DEF NotFinite, Finite, Range
    <2> QED
      BY <1>6, <2>1, ChecksAre, RulesAre, BrokenIs, Zenon
  <1>7. ASSUME i \in {5, 6, 7, 8, 9, 10}
        PROVE  /\ f.values \in Seq(Int) /\ f.values # <<>> /\ f.timestamps # <<>>
               /\ Len(f.timestamps) = Len(f.values) /\ Finite(f)
    <2>1. ~Refuses(Checks[1], f) /\ ~Refuses(Checks[4], f)
      BY <1>2, <1>7, ChecksAre
    <2> QED
      BY <2>1, ChecksAre, WellFormed
  <1>8. CASE i = 5
    BY <1>7, <1>8, ChecksAre, RulesAre, BrokenIs, ConstantIs
  <1>9. CASE i = 6
    <2>1. Refuses("duplicate", f) <=> Broken("duplicate", f)
      BY RequestIs, DuplicatesAre, RulesAre, BrokenIs, Zenon
    <2> QED
      BY <1>9, <2>1, ChecksAre, Zenon
  <1>10. CASE i = 7
    <2>1. ~Duplicates(f.timestamps)
      <3>1. ~Refuses(Checks[6], f)
        BY <1>2, <1>10, ChecksAre
      <3> QED
        BY <3>1, ChecksAre, RulesAre
    <2>2. Refuses("order", f) <=> Broken("order", f)
      BY <2>1, RequestIs, DisorderIs, RulesAre, BrokenIs, Zenon
    <2> QED
      BY <1>10, <2>2, ChecksAre, Zenon
  <1>11. CASE i = 8
    <2>1. f.values \in Seq(Int) /\ f.values # <<>>
      BY <1>7, <1>11
    <2>2. Refuses("flat", f) <=> Broken("flat", f)
      BY <2>1, RequestIs, FlatLineIs, RulesAre, BrokenIs, Zenon
    <2> QED
      BY <1>11, <2>2, ChecksAre, Zenon
  <1>12. CASE i = 9
    <2>1. f.timestamps # <<>>
      BY <1>7, <1>12
    <2>2. Refuses("gap", f) <=> Broken("gap", f)
      BY <2>1, RequestIs, GapIs, RulesAre, BrokenIs, Zenon
    <2> QED
      BY <1>12, <2>2, ChecksAre, Zenon
  <1>13. CASE i = 10
    BY <1>13, ChecksAre, RulesAre, BrokenIs, Zenon
  <1> QED
    BY <1>1, <1>3, <1>4, <1>5, <1>6, <1>8, <1>9, <1>10, <1>11, <1>12, <1>13

\* The answer is that of the first check whose rule the request breaks, judged by
\* what the rule means, and a request that breaks none is trained.
THEOREM FirstRuleDecides == Spec => []FailFast
  <1>1. DOMAIN Checks = 1 .. Len(Checks)
    BY DEF Checks
  <1>2. ASSUME NEW f \in Fits, NEW n \in 0 .. Len(Checks), Passes(f, n)
        PROVE  \A j \in 1 .. n : ~Broken(Checks[j], f)
    <2> SUFFICES ASSUME NEW j \in 1 .. n PROVE ~Broken(Checks[j], f)
      OBVIOUS
    <2>1. j \in 1 .. Len(Checks) /\ Passes(f, j - 1) /\ ~Refuses(Checks[j], f)
      BY <1>2, ChecksAre DEF Passes
    <2> QED
      BY <2>1, RuleIs
  <1>3. ASSUME DataInv, step = Ended PROVE FailFast
    <2>1. fit \in Fits
      BY <1>3 DEF DataInv
    <2>2. CASE \E flags \in FlagsOf(fit) : TrainedWith(flags)
      <3>1. answer = Trained /\ Passes(fit, Len(Checks))
        BY <2>2 DEF TrainedWith
      <3>2. \A j \in 1 .. Len(Checks) : ~Broken(Checks[j], fit)
        BY <1>2, <2>1, <3>1, ChecksAre
      <3> QED
        BY <1>1, <3>1, <3>2 DEF FailFast
    <2>3. ASSUME NEW i \in 1 .. Len(Checks), RefusedAt(i) PROVE FailFast
      <3>1. /\ answer = Refusal[Checks[i]] /\ Refuses(Checks[i], fit)
            /\ Passes(fit, i - 1) /\ i - 1 \in 0 .. Len(Checks)
        BY <2>3, ChecksAre DEF RefusedAt
      <3>2. Broken(Checks[i], fit)
        BY <2>1, <3>1, RuleIs
      <3>3. \A j \in 1 .. (i - 1) : ~Broken(Checks[j], fit)
        BY <1>2, <2>1, <3>1
      <3> QED
        BY <1>1, <3>1, <3>2, <3>3 DEF FailFast
    <2> QED
      BY <1>3, <2>2, <2>3 DEF DataInv
  <1>4. DataInv => FailFast
    BY <1>3 DEF FailFast
  <1> QED
    BY <1>4, DataInvariant, PTL
-----------------------------------------------------------------------------
(* The settings at their edges *)

\* An answer says which check gave it.
LEMMA RefusedIs ==
  ASSUME DataInv, NEW i \in 1 .. Len(Checks), answer = Refusal[Checks[i]]
  PROVE  fit \in Fits /\ RefusedAt(i)
  <1>1. answer # Trained /\ answer # Unanswered
    BY AnswersAre
  <1>2. step = Ended /\ fit \in Fits
    BY <1>1 DEF DataInv
  <1>3. \A flags : ~TrainedWith(flags)
    BY <1>1 DEF TrainedWith
  <1>4. PICK j \in 1 .. Len(Checks) : RefusedAt(j)
    BY <1>2, <1>3 DEF DataInv
  <1>5. i = j
    BY <1>4, AnswersAre DEF RefusedAt
  <1> QED
    BY <1>2, <1>4, <1>5

\* A request refused for its series identifier, or trained, has passed the other
\* checks, and one refused for a gap those before.
LEMMA PastIs ==
  ASSUME DataInv
  PROVE  /\ answer \in {Trained, Refusal["series"]} => fit \in Fits /\ Passes(fit, 9)
         /\ answer = Refusal["gap"] =>
              fit \in Fits /\ Passes(fit, 8) /\ Refuses("gap", fit)
         /\ answer = Refusal["flat"] =>
              fit \in Fits /\ Passes(fit, 7) /\ Refuses("flat", fit)
  <1>1. ASSUME answer = Trained PROVE fit \in Fits /\ Passes(fit, 9)
    <2>1. fit \in Fits /\ Passes(fit, Len(Checks))
      BY <1>1, TrainedIs DEF TrainedWith
    <2> QED
      BY <2>1, ChecksAre DEF Passes
  <1>2. ASSUME answer = Refusal["series"] PROVE fit \in Fits /\ Passes(fit, 9)
    <2>1. fit \in Fits /\ RefusedAt(10)
      BY <1>2, ChecksAre, RefusedIs
    <2> QED
      BY <2>1 DEF RefusedAt
  <1>3. ASSUME answer = Refusal["gap"]
        PROVE  fit \in Fits /\ Passes(fit, 8) /\ Refuses("gap", fit)
    <2>1. fit \in Fits /\ RefusedAt(9)
      BY <1>3, ChecksAre, RefusedIs
    <2> QED
      BY <2>1, ChecksAre DEF RefusedAt
  <1>4. ASSUME answer = Refusal["flat"]
        PROVE  fit \in Fits /\ Passes(fit, 7) /\ Refuses("flat", fit)
    <2>1. fit \in Fits /\ RefusedAt(8)
      BY <1>4, ChecksAre, RefusedIs
    <2> QED
      BY <2>1, ChecksAre DEF RefusedAt
  <1> QED
    BY <1>1, <1>2, <1>3, <1>4

\* A series without two different values has no spread.
LEMMA NoSpread ==
  ASSUME NEW v \in Seq(Int), v # <<>>,
         \A i \in DOMAIN v : v[i] = v[Len(v)]
  PROVE  Spread(v) = 0
  <1> DEFINE n == Len(v)
             x == v[n]
             one == [i \in DOMAIN v |-> 1]
  <1>1. n \in Int /\ x \in Int
    OBVIOUS
  <1>2. Sum(v) = x * n
    <2>1. \A i \in DOMAIN v : v[i] = 0 * (v[i] * v[i]) + 0 * v[i] + x
      <3>1. \A y \in Int : y = 0 * (y * y) + 0 * y + y
        OBVIOUS
      <3>2. \A i \in DOMAIN v : v[i] \in Int
        OBVIOUS
      <3> QED
        BY <3>1, <3>2, Zenon
    <2>2. /\ Sum(Squares(v)) \in Int
          /\ Total(v, DOMAIN v) = 0 * Sum(Squares(v)) + 0 * Sum(v) + x * n
      <3> HIDE DEF x
      <3> QED
        BY <1>1, <2>1, SumOfSquares
    <2>3. Sum(v) = Total(v, DOMAIN v) /\ Sum(v) \in Int
      BY SumIsTotal
    <2>4. PICK q \in Int, s \in Int : q = Sum(Squares(v)) /\ s = Sum(v)
      BY <2>2, <2>3
    <2> HIDE DEF x, n
    <2>5. 0 * q + 0 * s + x * n = x * n
      BY <1>1
    <2> QED
      BY <2>2, <2>3, <2>4, <2>5, Zenon
  <1>3. Sum(Squares(v)) = (x * x) * n
    <2> DEFINE h == Squares(v)
    <2>1. h \in Seq(Int) /\ DOMAIN h = DOMAIN v /\ \A i \in DOMAIN v : h[i] = v[i] * v[i]
      BY DEF Squares
    <2>2. \A i \in DOMAIN v : h[i] = 0 * (v[i] * v[i]) + 0 * v[i] + x * x
      <3>1. \A y \in Int : y * y = 0 * (y * y) + 0 * y + y * y
        OBVIOUS
      <3>2. \A i \in DOMAIN v : v[i] \in Int
        OBVIOUS
      <3> QED
        BY <2>1, <3>1, <3>2, Zenon
    <2>3. x * x \in Int
      BY <1>1
    <2> HIDE DEF h
    <2>4. /\ Sum(Squares(v)) \in Int
          /\ Total(h, DOMAIN v) = 0 * Sum(Squares(v)) + 0 * Sum(v) + (x * x) * n
      <3> DEFINE y == x * x
      <3> HIDE DEF y
      <3>1. y \in Int /\ \A i \in DOMAIN v : h[i] = 0 * (v[i] * v[i]) + 0 * v[i] + y
        BY <2>2, <2>3 DEF y
      <3>2. /\ Sum(Squares(v)) \in Int
            /\ Total(h, DOMAIN v) = 0 * Sum(Squares(v)) + 0 * Sum(v) + y * n
        BY <3>1, SumOfSquares
      <3> QED
        BY <3>2 DEF y
    <2>5. Sum(h) = Total(h, DOMAIN h) /\ Sum(v) \in Int
      BY <2>1, SumIsTotal
    <2>6. PICK q \in Int, s \in Int : q = Sum(Squares(v)) /\ s = Sum(v)
      BY <2>4, <2>5
    <2> HIDE DEF x, n
    <2>7. 0 * q + 0 * s + (x * x) * n = (x * x) * n
      BY <1>1
    <2>8. Sum(Squares(v)) = Sum(h)
      BY DEF h
    <2> QED
      BY <2>1, <2>4, <2>5, <2>6, <2>7, <2>8, Zenon
  <1>4. Spread(v) = n * ((x * x) * n) - (x * n) * (x * n)
    BY <1>2, <1>3 DEF Spread
  <1> HIDE DEF n, x
  <1>5. \A a, b \in Int : a * ((b * b) * a) - (b * a) * (b * a) = 0
    OBVIOUS
  <1> QED
    BY <1>1, <1>4, <1>5

\* The intervals of an increasing series are positive.
LEMMA GapsArePositive ==
  ASSUME NEW t \in Seq(Int), Len(t) >= 2, ~Unordered(t)
  PROVE  LET d == Intervals(t)
         IN /\ d \in Seq(Int) /\ d # <<>>
            /\ Max(Range(d)) \in Int /\ Max(Range(d)) > 0
            /\ \A x \in Range(d) : x \in Int /\ x > 0 /\ x <= Max(Range(d))
  <1> DEFINE d == Intervals(t)
  <1>1. /\ d \in Seq(Int) /\ d # <<>>
        /\ DOMAIN d = 1 .. (Len(t) - 1) /\ Len(t) \in Nat
        /\ \A i \in 1 .. (Len(t) - 1) : d[i] = t[i + 1] - t[i]
    <2>1. t # <<>> /\ Len(t) \in Nat
      OBVIOUS
    <2> HIDE DEF d
    <2>2. /\ d \in Seq(Int) /\ DOMAIN d = 1 .. (Len(t) - 1)
          /\ \A i \in 1 .. (Len(t) - 1) : d[i] = t[i + 1] - t[i]
          /\ d # <<>> <=> Len(t) >= 2
      BY <2>1, IntervalsAre DEF d
    <2> QED
      BY <2>1, <2>2
  <1> HIDE DEF d
  <1>2. \A i \in 1 .. (Len(t) - 1) : d[i] \in Int /\ d[i] > 0
    <2> SUFFICES ASSUME NEW i \in 1 .. (Len(t) - 1) PROVE d[i] \in Int /\ d[i] > 0
      OBVIOUS
    <2>1. i \in DOMAIN t /\ i + 1 \in DOMAIN t
      <3>1. i \in 1 .. Len(t) /\ i + 1 \in 1 .. Len(t)
        BY <1>1
      <3> QED
        BY <3>1
    <2>2. t[i] \in Int /\ t[i + 1] \in Int
      BY <2>1
    <2>3. ~(t[i + 1] <= t[i])
      BY DEF Unordered
    <2>4. d[i] = t[i + 1] - t[i]
      BY <1>1
    <2> QED
      BY <2>2, <2>3, <2>4
  <1>3. Range(d) = {d[i] : i \in DOMAIN d} /\ DOMAIN d # {}
    <2>1. 1 \in DOMAIN d
      BY <1>1
    <2> QED
      BY <2>1, RangeIs
  <1>4. /\ Max(Range(d)) \in Range(d) /\ \A x \in Range(d) : x <= Max(Range(d))
    BY <1>1, <1>3, ExtremesAre
  <1>5. \A x \in Range(d) : x \in Int /\ x > 0
    BY <1>1, <1>2, <1>3
  <1> QED
    BY <1>1, <1>4, <1>5 DEF d

\* Settings at their edges, which nothing validates: a flat_line_window of 0 cannot
\* refuse what a positive std_threshold has passed; a window of 1 and a gap factor
\* below 1 refuse whatever reaches them; and two points have no gap under another.
THEOREM EdgesAreAsStated == Spec => []EdgeSettings
  <1> DEFINE c == fit.settings
             n == Len(fit.timestamps)
             v == fit.values
             t == fit.timestamps
  <1>1. ASSUME fit \in Fits, Passes(fit, 7)
        PROVE  /\ t \in Seq(Int) /\ t # <<>> /\ ~Unordered(t) /\ n \in Nat
               /\ v \in Seq(Int) /\ v # <<>> /\ ~ConstantSeries(v, c)
               /\ c.flat_line_window \in Nat /\ c.std_threshold \in Nat
               /\ c.max_temporal_gap_factor \in Nat /\ c \in Settings
    <2>1. c \in Settings
      BY <1>1, PassedIs
    <2> QED
      BY <1>1, <2>1, PassedIs DEF Settings
  <1>2. ASSUME fit \in Fits, Passes(fit, 7), Refuses("flat", fit), c.flat_line_window = 0
        PROVE  c.std_threshold = 0
    <2>1. FlatLine(v, c)
      BY <1>2, RulesAre
    <2>2. FlatTail(v) >= Len(v)
      BY <1>1, <1>2, <2>1, FlatLineIs
    <2> DEFINE m == Len(v)
               s == c.std_threshold
    <2>3. m \in Nat /\ m >= 1 /\ s \in Nat
      BY <1>1, <1>2
    <2>4. \A i \in DOMAIN v : v[i] = v[Len(v)]
      <3>1. m \in 1 .. m /\ DOMAIN v = (m - m + 1) .. m
        BY <1>1, <1>2, <2>3
      <3>2. \A i \in (m - m + 1) .. m : v[i] = v[m]
        BY <1>1, <1>2, <2>2, <3>1, FlatTailIs
      <3> QED
        BY <3>1, <3>2
    <2>5. Spread(v) = 0
      BY <1>1, <1>2, <2>4, NoSpread
    <2>6. ~(100 * 0 < (m * s) * (m * s))
      BY <1>1, <1>2, <2>5 DEF ConstantSeries
    <2> HIDE DEF m, s
    <2>7. s = 0
      <3>1. \A a \in Nat : ~(100 * 0 < a * a) => a = 0
        OBVIOUS
      <3>2. m * s \in Nat
        BY <2>3
      <3>3. m * s = 0
        BY <2>6, <3>1, <3>2
      <3> QED
        BY <2>3, <3>3
    <2> QED
      BY <2>7 DEF s
  <1>3. ASSUME fit \in Fits, Passes(fit, 8), c.flat_line_enabled, c.flat_line_window = 1
        PROVE  FALSE
    <2>1. Passes(fit, 7) /\ ~Refuses("flat", fit)
      BY <1>3, ChecksAre DEF Passes
    <2>2. FlatTail(v) \in 1 .. Len(v)
      BY <1>1, <1>3, <2>1, FlatTailIs
    <2>3. FlatTail(v) >= 1
      BY <2>2
    <2>4. FlatLine(v, c)
      BY <1>1, <1>3, <2>1, <2>3, FlatLineIs
    <2> QED
      BY <2>1, <2>4, RulesAre
  <1>4. ASSUME fit \in Fits, Passes(fit, 7), n >= 2,
               NEW g \in Nat, g = c.max_temporal_gap_factor,
               NEW M, M = Max(Range(Intervals(t))),
               NEW lo, lo = LowMedian(Intervals(t)), NEW hi, hi = HighMedian(Intervals(t))
        PROVE  /\ TemporalGap(t, c) <=> c.temporal_gap_enabled /\ 4 * M > g * (lo + hi)
               /\ M \in Int /\ M > 0 /\ lo \in Int /\ hi \in Int
               /\ 0 < lo /\ lo <= M /\ 0 < hi /\ hi <= M
               /\ n = 2 => lo = M /\ hi = M
    <2> DEFINE d == Intervals(t)
    <2>1. /\ d \in Seq(Int) /\ d # <<>> /\ M \in Int /\ M > 0
          /\ \A x \in Range(d) : x \in Int /\ x > 0 /\ x <= M
      BY <1>1, <1>4, GapsArePositive
    <2>2. Median2(d) = lo + hi /\ lo \in Range(d) /\ hi \in Range(d)
      BY <1>4, <2>1, MediansAre
    <2>3. TemporalGap(t, c) <=> c.temporal_gap_enabled /\ 4 * M > g * (lo + hi)
      BY <1>4, <2>2, Zenon DEF TemporalGap
    <2>4. ASSUME n = 2 PROVE lo = M /\ hi = M
      <3>1. Len(d) = 1
        <4>1. t \in Seq(Int) /\ t # <<>>
          BY <1>1, <1>4
        <4>2. Len(d) = n - 1
          BY <4>1, IntervalsAre
        <4> QED
          BY <2>4, <4>2
      <3>2. Range(d) = {d[1]}
        BY <2>1, <3>1 DEF Range
      <3>3. M \in Range(d)
        <4>1. DOMAIN d # {} /\ Range(d) = {d[i] : i \in DOMAIN d}
          BY <3>2 DEF Range
        <4> QED
          BY <1>4, <2>1, <4>1, ExtremesAre
      <3> QED
        BY <2>2, <3>2, <3>3
    <2> QED
      BY <2>1, <2>2, <2>3, <2>4
  <1>5. ASSUME fit \in Fits, Passes(fit, 9), c.temporal_gap_enabled, n >= 2,
               c.max_temporal_gap_factor < 2
        PROVE  FALSE
    <2>1. Passes(fit, 7) /\ ~Refuses("gap", fit)
      BY <1>5, ChecksAre DEF Passes
    <2> DEFINE g == c.max_temporal_gap_factor
               M == Max(Range(Intervals(t)))
               lo == LowMedian(Intervals(t))
               hi == HighMedian(Intervals(t))
    <2>2. g \in Nat
      BY <1>1, <1>5, <2>1
    <2>3. /\ TemporalGap(t, c) <=> c.temporal_gap_enabled /\ 4 * M > g * (lo + hi)
          /\ M \in Int /\ M > 0 /\ lo \in Int /\ hi \in Int
          /\ 0 < lo /\ lo <= M /\ 0 < hi /\ hi <= M
      BY <1>4, <1>5, <2>1, <2>2
    <2>4. ~(4 * M > g * (lo + hi))
      BY <1>5, <2>1, <2>3, RulesAre
    <2>5. g = 0 \/ g = 1
      BY <1>5, <2>2
    <2> HIDE DEF g, M, lo, hi
    <2> QED
      BY <2>3, <2>4, <2>5
  <1>6. ASSUME fit \in Fits, Passes(fit, 8), Refuses("gap", fit)
        PROVE  n > 2 \/ c.max_temporal_gap_factor < 2
    <2>1. Passes(fit, 7) /\ TemporalGap(t, c)
      BY <1>6, ChecksAre, RulesAre DEF Passes
    <2>2. n >= 2 /\ n \in Nat
      BY <1>1, <1>6, <2>1 DEF TemporalGap
    <2> DEFINE g == c.max_temporal_gap_factor
               M == Max(Range(Intervals(t)))
               lo == LowMedian(Intervals(t))
               hi == HighMedian(Intervals(t))
    <2>3. g \in Nat
      BY <1>1, <1>6, <2>1
    <2>4. /\ TemporalGap(t, c) <=> c.temporal_gap_enabled /\ 4 * M > g * (lo + hi)
          /\ M \in Int /\ M > 0 /\ (n = 2 => lo = M /\ hi = M)
      BY <1>4, <1>6, <2>1, <2>2, <2>3
    <2>5. 4 * M > g * (lo + hi)
      BY <2>1, <2>4
    <2> HIDE DEF g, M, lo, hi
    <2>6. ASSUME n = 2 PROVE g < 2
      <3>1. 4 * M > g * (M + M)
        BY <2>4, <2>5, <2>6
      <3>2. \A a, b \in Nat : b >= 2 => b * (a + a) >= 4 * a
        OBVIOUS
      <3> QED
        BY <2>3, <2>4, <3>1, <3>2
    <2>7. n = 2 \/ n > 2
      <3> HIDE DEF n
      <3> QED
        BY <2>2
    <2> QED
      BY <2>6, <2>7 DEF g
  <1>7. DataInv => EdgeSettings
    <2> SUFFICES ASSUME DataInv PROVE EdgeSettings
      OBVIOUS
    <2>1. answer = Refusal["flat"] => c.flat_line_window # 0 \/ c.std_threshold = 0
      BY <1>2, PastIs
    <2>2. c.flat_line_enabled /\ c.flat_line_window = 1 =>
            answer \notin {Trained, Refusal["series"]} \cup {Refusal["gap"]}
      <3>1. ASSUME answer \in {Trained, Refusal["series"]} \cup {Refusal["gap"]}
            PROVE  fit \in Fits /\ Passes(fit, 8)
        BY <3>1, PastIs DEF Passes
      <3> QED
        BY <1>3, <3>1
    <2>3. c.temporal_gap_enabled /\ n >= 2 /\ c.max_temporal_gap_factor < 2 =>
            answer \notin {Trained, Refusal["series"]}
      BY <1>5, PastIs
    <2>4. answer = Refusal["gap"] => n > 2 \/ c.max_temporal_gap_factor < 2
      BY <1>6, PastIs
    <2> QED
      BY <2>1, <2>2, <2>3, <2>4, Zenon DEF EdgeSettings
  <1> QED
    BY <1>7, DataInvariant, PTL
=============================================================================
