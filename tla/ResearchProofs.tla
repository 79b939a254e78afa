--------------------------- MODULE ResearchProofs ---------------------------
(* The properties of module Research, for any number of days, readings, rates,  *)
(* horizons, lags, neighbours, folds and limits.                                *)
EXTENDS Research, FiniteSetTheorems, SequenceTheorems, WellFoundedInduction, TLAPS

-----------------------------------------------------------------------------
(* Finite sets of numbers                                                       *)

IsLeast(T, W) == T \in W /\ \A U \in W : U \subseteq T => U = T

(* Of the subsets of a finite set there is, among any, a least one.             *)
LEMMA LeastSet ==
  ASSUME NEW S, IsFiniteSet(S), NEW W, W # {}, \A T \in W : T \subseteq S
  PROVE  \E T : IsLeast(T, W)
<1>1. W \subseteq FiniteSubsetsOf(S)
  BY FS_FiniteSubsetsOfFinite
<1>2. IsWellFoundedOn(StrictSubsetOrdering(S), FiniteSubsetsOf(S))
  BY FS_StrictSubsetOrderingWellFounded
<1>3. PICK T \in W : \A U \in W : ~(<<U, T>> \in StrictSubsetOrdering(S))
  BY <1>1, <1>2, WFMin
<1>4. \A U \in W : U \subseteq T => U = T
  BY <1>3 DEF StrictSubsetOrdering
<1> QED
  BY <1>4 DEF IsLeast

(* A finite set of integers has a least element and a greatest.                 *)
LEMMA MinIs ==
  ASSUME NEW S \in SUBSET Int, IsFiniteSet(S), S # {}
  PROVE  Min(S) \in S /\ \A x \in S : Min(S) <= x
<1> DEFINE Bad == {T \in SUBSET S : T # {} /\ ~\E x \in T : \A y \in T : x <= y}
<1>1. Bad = {}
  <2> SUFFICES ASSUME Bad # {} PROVE FALSE
    OBVIOUS
  <2>0. \A T \in Bad : T \subseteq S
    OBVIOUS
  <2> HIDE DEF Bad
  <2>1. PICK T \in Bad : \A U \in Bad : U \subseteq T => U = T
    BY <2>0, LeastSet DEF IsLeast
  <2> USE DEF Bad
  <2>2. PICK x \in T : TRUE
    OBVIOUS
  <2> DEFINE U == T \ {x}
  <2>3. CASE U = {}
    BY <2>1, <2>3
  <2>4. CASE U # {}
    <3>1. U \notin Bad
      BY <2>1
    <3>2. PICK m \in U : \A y \in U : m <= y
      BY <3>1, <2>4
    <3>3. m \in Int /\ x \in Int
      OBVIOUS
    <3>4. CASE m <= x
      BY <3>2, <3>3, <3>4
    <3>5. CASE x < m
      <4>1. \A y \in T : x <= y
        BY <3>2, <3>3, <3>5
      <4> QED
        BY <4>1
    <3> QED
      BY <3>3, <3>4, <3>5
  <2> QED
    BY <2>3, <2>4
<1>2. \E x \in S : \A y \in S : x <= y
  BY <1>1
<1> QED
  BY <1>2 DEF Min

LEMMA MaxIs ==
  ASSUME NEW S \in SUBSET Int, IsFiniteSet(S), S # {}
  PROVE  Max(S) \in S /\ \A x \in S : x <= Max(S)
<1> DEFINE Bad == {T \in SUBSET S : T # {} /\ ~\E x \in T : \A y \in T : y <= x}
<1>1. Bad = {}
  <2> SUFFICES ASSUME Bad # {} PROVE FALSE
    OBVIOUS
  <2>0. \A T \in Bad : T \subseteq S
    OBVIOUS
  <2> HIDE DEF Bad
  <2>1. PICK T \in Bad : \A U \in Bad : U \subseteq T => U = T
    BY <2>0, LeastSet DEF IsLeast
  <2> USE DEF Bad
  <2>2. PICK x \in T : TRUE
    OBVIOUS
  <2> DEFINE U == T \ {x}
  <2>3. CASE U = {}
    BY <2>1, <2>3
  <2>4. CASE U # {}
    <3>1. U \notin Bad
      BY <2>1
    <3>2. PICK m \in U : \A y \in U : y <= m
      BY <3>1, <2>4
    <3>3. m \in Int /\ x \in Int
      OBVIOUS
    <3>4. CASE x <= m
      BY <3>2, <3>3, <3>4
    <3>5. CASE m < x
      <4>1. \A y \in T : y <= x
        BY <3>2, <3>3, <3>5
      <4> QED
        BY <4>1
    <3> QED
      BY <3>3, <3>4, <3>5
  <2> QED
    BY <2>3, <2>4
<1>2. \E x \in S : \A y \in S : y <= x
  BY <1>1
<1>3. \E x \in S : \A y \in S : x >= y
  BY <1>2
<1>4. \A y \in S : Max(S) >= y /\ Max(S) \in S
  BY <1>3 DEF Max
<1> QED
  BY <1>4

(* The values of a function on a finite set are finitely many.                  *)
LEMMA RangeIsFinite ==
  ASSUME NEW f, IsFiniteSet(DOMAIN f)
  PROVE  IsFiniteSet(Range(f)) /\ \A x \in DOMAIN f : f[x] \in Range(f)
<1> DEFINE g == [x \in DOMAIN f |-> f[x]]
<1>1. g \in Surjection(DOMAIN f, Range(f))
  BY DEF Surjection, Range
<1> QED
  BY <1>1, FS_Surjection DEF Range

LEMMA CountIs ==
  ASSUME NEW S, IsFiniteSet(S), NEW T \in SUBSET S
  PROVE  /\ IsFiniteSet(T) /\ Cardinality(T) \in Nat /\ Cardinality(S) \in Nat
         /\ Cardinality(T) <= Cardinality(S) /\ (Cardinality(T) = 0 <=> T = {})
BY FS_Subset, FS_CardinalityType, FS_EmptySet

(* The k-th smallest value is one of the values, with fewer than k below it and *)
(* at least k up to it.                                                         *)
LEMMA OrderStatisticIs ==
  ASSUME NEW s, IsFiniteSet(DOMAIN s), \A d \in DOMAIN s : s[d] \in Int,
         NEW k \in Nat \ {0}, k <= Cardinality(DOMAIN s)
  PROVE  LET v == OrderStatistic(s, k)
         IN  /\ v \in Int
             /\ Cardinality({d \in DOMAIN s : s[d] < v}) < k
             /\ k <= Cardinality({d \in DOMAIN s : s[d] <= v})
<1> DEFINE R == Range(s)
           Below(v) == Cardinality({d \in DOMAIN s : s[d] < v})
           UpTo(v) == Cardinality({d \in DOMAIN s : s[d] <= v})
           V == {v \in R : k <= UpTo(v)}
<1>1. R \in SUBSET Int /\ IsFiniteSet(R) /\ \A d \in DOMAIN s : s[d] \in R
  BY RangeIsFinite DEF Range
<1>2. \A v : Below(v) \in Nat /\ UpTo(v) \in Nat /\ Cardinality(DOMAIN s) \in Nat
  <2> TAKE v
  <2>1. {d \in DOMAIN s : s[d] < v} \in SUBSET DOMAIN s /\ {d \in DOMAIN s : s[d] <= v} \in SUBSET DOMAIN s
    OBVIOUS
  <2> QED
    BY <2>1, CountIs
<1>3. DOMAIN s # {}
  BY <1>2, FS_EmptySet
<1>4. R # {}
  BY <1>1, <1>3
<1>5. V # {}
  <2> DEFINE m == Max(R)
  <2>1. m \in R /\ \A x \in R : x <= m
    BY <1>1, <1>4, MaxIs
  <2>2. {d \in DOMAIN s : s[d] <= m} = DOMAIN s
    BY <1>1, <2>1
  <2>3. k <= UpTo(m)
    BY <2>2
  <2> QED
    BY <2>1, <2>3
<1>6. V \in SUBSET Int /\ IsFiniteSet(V)
  BY <1>1, FS_Subset
<1>7. PICK v \in V : \A x \in V : v <= x
  BY <1>5, <1>6, MinIs
<1>8. v \in Int /\ v \in R /\ k <= UpTo(v)
  BY <1>6
<1>9. Below(v) < k
  <2> SUFFICES ASSUME ~(Below(v) < k) PROVE FALSE
    OBVIOUS
  <2> DEFINE L == {d \in DOMAIN s : s[d] < v}
             Lower == {x \in R : x < v}
  <2>1. L # {}
    <3> SUFFICES ASSUME L = {} PROVE FALSE
      OBVIOUS
    <3>1. Below(v) = 0
      BY FS_EmptySet
    <3> QED
      BY <3>1
  <2>2. Lower # {} /\ Lower \in SUBSET Int /\ IsFiniteSet(Lower)
    BY <2>1, <1>1, FS_Subset
  <2>3. PICK u \in Lower : \A x \in Lower : x <= u
    BY <2>2, MaxIs
  <2>4. {d \in DOMAIN s : s[d] <= u} = L
    <3>1. \A d \in DOMAIN s : s[d] <= u <=> s[d] < v
      BY <2>2, <2>3, <1>1, <1>8
    <3> QED
      BY <3>1
  <2>5. k <= UpTo(u)
    <3>1. UpTo(u) = Below(v) /\ Below(v) \in Nat
      BY <2>4, <1>2
    <3> QED
      BY <3>1
  <2>6. u \in V /\ u < v /\ u \in Int
    BY <2>5, <2>2
  <2>7. v <= u
    BY <2>6, <1>7
  <2> QED
    BY <2>6, <2>7, <1>8
<1>10. \E x \in Range(s) : /\ Cardinality({d \in DOMAIN s : s[d] < x}) < k
                           /\ k <= Cardinality({d \in DOMAIN s : s[d] <= x})
  BY <1>8, <1>9
<1>11. /\ OrderStatistic(s, k) \in Range(s)
       /\ Cardinality({d \in DOMAIN s : s[d] < OrderStatistic(s, k)}) < k
       /\ k <= Cardinality({d \in DOMAIN s : s[d] <= OrderStatistic(s, k)})
  BY <1>10 DEF OrderStatistic
<1> QED
  BY <1>11, <1>1

-----------------------------------------------------------------------------
(* Sums                                                                         *)

(* What a sum of the values of g over the set s is, by the sum F of the rest.   *)
Added(F, g, s) ==
  IF s = {} THEN 0 ELSE LET x == CHOOSE y \in s : TRUE IN g[x] + F[s \ {x}]

IsSum(F, g, S) == F = [s \in SUBSET S |-> Added(F, g, s)]
Chosen(s) == CHOOSE y \in s : TRUE
UpToSize(S, n) == {s \in SUBSET S : Cardinality(s) <= n}

(* The recursion of a sum over a finite set is well founded: there is a         *)
(* function that satisfies it.                                                  *)
LEMMA SumExists ==
  ASSUME NEW S, IsFiniteSet(S), NEW g
  PROVE  \E F : IsSum(F, g, S)
<1> DEFINE Sums(n) == \E F : F = [s \in UpToSize(S, n) |-> Added(F, g, s)]
           Bad == {n \in Nat : ~Sums(n)}
<1>0. \A s \in SUBSET S : IsFiniteSet(s) /\ Cardinality(s) \in Nat /\ (Cardinality(s) = 0 <=> s = {})
  BY CountIs
<1>1. Sums(0)
  <2>1. UpToSize(S, 0) = {{}}
    BY <1>0, FS_EmptySet DEF UpToSize
  <2> DEFINE F == [s \in UpToSize(S, 0) |-> 0]
  <2>2. F = [s \in UpToSize(S, 0) |-> Added(F, g, s)]
    BY <2>1 DEF Added
  <2> QED
    BY <2>2
<1>2. ASSUME NEW n \in Nat, Sums(n)
      PROVE  Sums(n + 1)
  <2>1. PICK E : E = [s \in UpToSize(S, n) |-> Added(E, g, s)]
    BY <1>2
  <2> DEFINE F == [s \in UpToSize(S, n + 1) |-> IF Cardinality(s) <= n THEN E[s] ELSE Added(E, g, s)]
  <2>2. ASSUME NEW s \in UpToSize(S, n + 1)
        PROVE  F[s] = Added(F, g, s)
    <3>1. F[s] = Added(E, g, s)
      <4>1. CASE Cardinality(s) <= n
        <5>1. s \in UpToSize(S, n)
          BY <4>1 DEF UpToSize
        <5> QED
          BY <5>1, <4>1, <2>1
      <4>2. CASE ~(Cardinality(s) <= n)
        BY <4>2
      <4> QED
        BY <4>1, <4>2
    <3>2. CASE s = {}
      BY <3>1, <3>2 DEF Added
    <3>3. CASE s # {}
      <4> DEFINE t == s \ {Chosen(s)}
      <4>1. Chosen(s) \in s
        BY <3>3 DEF Chosen
      <4>2. s \in SUBSET S /\ Cardinality(s) <= n + 1
        BY DEF UpToSize
      <4>3. Cardinality(t) = Cardinality(s) - 1 /\ Cardinality(s) \in Nat /\ t \in SUBSET S
        BY <4>1, <4>2, <1>0, FS_RemoveElement
      <4>4. Cardinality(t) <= n /\ t \in UpToSize(S, n + 1)
        BY <4>2, <4>3, <1>0 DEF UpToSize
      <4>5. F[t] = E[t]
        BY <4>4
      <4> QED
        BY <3>1, <3>3, <4>5 DEF Added, Chosen
    <3> QED
      BY <3>2, <3>3
  <2>3. F = [s \in UpToSize(S, n + 1) |-> Added(F, g, s)]
    <3> HIDE DEF F
    <3>1. DOMAIN F = UpToSize(S, n + 1) /\ F = [s \in DOMAIN F |-> F[s]]
      BY DEF F
    <3> QED
      BY <3>1, <2>2
  <2> QED
    BY <2>3
<1>3. Bad = {}
  <2> SUFFICES ASSUME Bad # {} PROVE FALSE
    OBVIOUS
  <2>1. PICK m \in Bad : \A n \in Bad : ~(<<n, m>> \in OpToRel(<, Nat))
    BY NatLessThanWellFounded, WFMin
  <2>2. \A n \in Bad : ~(n < m)
    BY <2>1 DEF OpToRel
  <2>3. m # 0 /\ m \in Nat
    BY <1>1
  <2> DEFINE k == m - 1
  <2>4. k \in Nat /\ k + 1 = m /\ k < m
    BY <2>3
  <2>5. Sums(k)
    BY <2>2, <2>4
  <2>6. Sums(k + 1)
    BY <2>4, <2>5, <1>2
  <2> QED
    BY <2>4, <2>6
<1>4. Sums(Cardinality(S))
  BY <1>3, <1>0
<1>5. UpToSize(S, Cardinality(S)) = SUBSET S
  BY CountIs DEF UpToSize
<1> QED
  BY <1>4, <1>5 DEF IsSum

(* Whatever satisfies it is an integer, and no less than as many times a lower  *)
(* bound as there are elements.                                                 *)
LEMMA SumIs ==
  ASSUME NEW S, IsFiniteSet(S), NEW g, \A x \in S : g[x] \in Int,
         NEW F, IsSum(F, g, S)
  PROVE  /\ F[S] \in Int
         /\ \A m \in Int : (\A x \in S : m <= g[x]) => m * Cardinality(S) <= F[S]
<1> DEFINE Fine(T) == /\ F[T] \in Int
                      /\ \A m \in Int : (\A x \in T : m <= g[x]) => m * Cardinality(T) <= F[T]
           Bad == {T \in SUBSET S : ~Fine(T)}
<1>0. \A s \in SUBSET S : F[s] = Added(F, g, s)
  BY DEF IsSum
<1>1. Fine({})
  <2>1. F[{}] = 0
    BY <1>0 DEF Added
  <2>2. Cardinality({}) = 0
    BY FS_EmptySet
  <2> QED
    BY <2>1, <2>2
<1>2. ASSUME NEW T \in SUBSET S, T # {}, Fine(T \ {Chosen(T)})
      PROVE  Fine(T)
  <2> DEFINE x == Chosen(T)
             U == T \ {x}
  <2>1. x \in T
    BY <1>2 DEF Chosen
  <2>2. F[T] = g[x] + F[U]
    BY <1>0, <1>2 DEF Added, Chosen
  <2>3. Cardinality(T) = Cardinality(U) + 1 /\ Cardinality(U) \in Nat
    <3>1. IsFiniteSet(T) /\ IsFiniteSet(U) /\ Cardinality(T) \in Nat /\ Cardinality(U) \in Nat
      BY FS_Subset, FS_CardinalityType
    <3>2. Cardinality(U) = Cardinality(T) - 1
      BY <2>1, <3>1, FS_RemoveElement
    <3> QED
      BY <3>1, <3>2
  <2> HIDE DEF x
  <2> HIDE DEF U
  <2>4. F[U] \in Int /\ g[x] \in Int
    BY <1>2, <2>1 DEF U, x
  <2>5. ASSUME NEW m \in Int, \A y \in T : m <= g[y]
        PROVE  m * Cardinality(T) <= F[T]
    <3>1. m * Cardinality(U) <= F[U] /\ m <= g[x]
      BY <1>2, <2>1, <2>5 DEF U, x
    <3>2. m * Cardinality(T) = m * Cardinality(U) + m
      BY <2>3
    <3>3. m * Cardinality(U) \in Int
      BY <2>3
    <3> QED
      BY <2>2, <2>4, <3>1, <3>2, <3>3
  <2>6. F[T] \in Int
    BY <2>2, <2>4
  <2> QED
    BY <2>5, <2>6, Zenon
<1>3. Bad = {}
  <2> SUFFICES ASSUME Bad # {} PROVE FALSE
    OBVIOUS
  <2>0. \A T \in Bad : T \subseteq S
    OBVIOUS
  <2> HIDE DEF Bad
  <2>1. PICK T \in Bad : \A U \in Bad : U \subseteq T => U = T
    BY <2>0, LeastSet DEF IsLeast
  <2> HIDE DEF Fine
  <2>2. T \in SUBSET S /\ ~Fine(T) /\ \A U \in SUBSET S : ~Fine(U) => U \in Bad
    BY DEF Bad
  <2>3. T # {}
    BY <1>1, <2>2
  <2>4. Chosen(T) \in T
    BY <2>3 DEF Chosen
  <2>5. Fine(T \ {Chosen(T)})
    BY <2>1, <2>2, <2>4
  <2>6. Fine(T)
    BY <1>2, <2>2, <2>3, <2>5
  <2> QED
    BY <2>2, <2>6
<1> QED
  BY <1>3

LEMMA SumSetIs ==
  ASSUME NEW S \in SUBSET Int, IsFiniteSet(S)
  PROVE  SumSet(S) \in Int /\ \A m \in Int : (\A x \in S : m <= x) => m * Cardinality(S) <= SumSet(S)
<1> DEFINE g == [x \in S |-> x]
           G == CHOOSE F : F = [s \in SUBSET S |->
                  IF s = {} THEN 0 ELSE LET x == CHOOSE y \in s : TRUE IN x + F[s \ {x}]]
<1>1. PICK E : IsSum(E, g, S)
  BY SumExists
<1>2. \A F : [s \in SUBSET S |-> Added(F, g, s)] =
        [s \in SUBSET S |->
           IF s = {} THEN 0 ELSE LET x == CHOOSE y \in s : TRUE IN x + F[s \ {x}]]
  <2> TAKE F
  <2>1. ASSUME NEW s \in SUBSET S
        PROVE  Added(F, g, s) = IF s = {} THEN 0 ELSE LET x == CHOOSE y \in s : TRUE IN x + F[s \ {x}]
    <3>1. CASE s = {}
      BY <3>1 DEF Added
    <3>2. CASE s # {}
      <4>1. Chosen(s) \in s
        BY <3>2 DEF Chosen
      <4>2. g[Chosen(s)] = Chosen(s)
        BY <4>1
      <4>3. Added(F, g, s) = g[Chosen(s)] + F[s \ {Chosen(s)}]
        BY <3>2 DEF Added, Chosen
      <4> QED
        BY <3>2, <4>2, <4>3 DEF Chosen
    <3> QED
      BY <3>1, <3>2
  <2> QED
    BY <2>1
<1>3. G = [s \in SUBSET S |->
             IF s = {} THEN 0 ELSE LET x == CHOOSE y \in s : TRUE IN x + G[s \ {x}]]
  <2>1. E = [s \in SUBSET S |->
               IF s = {} THEN 0 ELSE LET x == CHOOSE y \in s : TRUE IN x + E[s \ {x}]]
    BY <1>1, <1>2 DEF IsSum
  <2> QED
    BY <2>1
<1>4. SumSet(S) = G[S]
  BY DEF SumSet, FoldSet, MapThenFoldSet
<1> HIDE DEF G
<1>5. IsSum(G, g, S)
  BY <1>2, <1>3 DEF IsSum
<1>6. \A x \in S : g[x] = x /\ g[x] \in Int
  OBVIOUS
<1> HIDE DEF g
<1>7. G[S] \in Int /\ \A m \in Int : (\A x \in S : m <= g[x]) => m * Cardinality(S) <= G[S]
  BY <1>5, <1>6, SumIs
<1>8. ASSUME NEW m \in Int, \A x \in S : m <= x
      PROVE  m * Cardinality(S) <= G[S]
  <2>1. \A x \in S : m <= g[x]
    BY <1>6, <1>8
  <2> QED
    BY <1>7, <2>1
<1> QED
  BY <1>4, <1>7, <1>8

(* The sum of a column of some rows, and of the products of two.                *)
LEMMA TotalIs ==
  ASSUME NEW rows, IsFiniteSet(DOMAIN rows), NEW f, \A w \in DOMAIN rows : rows[w][f] \in Int
  PROVE  Total(rows, f) \in Int
<1> DEFINE S == DOMAIN rows
           g == [w \in S |-> rows[w][f]]
           G == CHOOSE F : F = [s \in SUBSET S |->
                  IF s = {} THEN 0 ELSE LET x == CHOOSE y \in s : TRUE IN rows[x][f] + F[s \ {x}]]
<1>1. PICK E : IsSum(E, g, S)
  BY SumExists
<1>2. \A F : [s \in SUBSET S |-> Added(F, g, s)] =
        [s \in SUBSET S |->
           IF s = {} THEN 0 ELSE LET x == CHOOSE y \in s : TRUE IN rows[x][f] + F[s \ {x}]]
  <2> TAKE F
  <2>1. ASSUME NEW s \in SUBSET S
        PROVE  Added(F, g, s) = IF s = {} THEN 0 ELSE LET x == CHOOSE y \in s : TRUE IN rows[x][f] + F[s \ {x}]
    <3>1. CASE s = {}
      BY <3>1 DEF Added
    <3>2. CASE s # {}
      <4>1. (CHOOSE y \in s : TRUE) \in s
        BY <3>2
      <4>2. g[CHOOSE y \in s : TRUE] = rows[CHOOSE y \in s : TRUE][f]
        BY <4>1
      <4> QED
        BY <3>2, <4>2 DEF Added
    <3> QED
      BY <3>1, <3>2
  <2> QED
    BY <2>1
<1>3. G = [s \in SUBSET S |->
             IF s = {} THEN 0 ELSE LET x == CHOOSE y \in s : TRUE IN rows[x][f] + G[s \ {x}]]
  <2>1. E = [s \in SUBSET S |->
               IF s = {} THEN 0 ELSE LET x == CHOOSE y \in s : TRUE IN rows[x][f] + E[s \ {x}]]
    BY <1>1, <1>2 DEF IsSum
  <2> QED
    BY <2>1
<1>4. Total(rows, f) = G[S]
  BY DEF Total, MapThenSumSet, MapThenFoldSet
<1> HIDE DEF G
<1>5. IsSum(G, g, S)
  BY <1>2, <1>3 DEF IsSum
<1>6. \A x \in S : g[x] \in Int
  OBVIOUS
<1> HIDE DEF g
<1> QED
  BY <1>4, <1>5, <1>6, SumIs

LEMMA ScatterIs ==
  ASSUME NEW rows, IsFiniteSet(DOMAIN rows), NEW f, NEW g,
         \A w \in DOMAIN rows : rows[w][f] \in Int /\ rows[w][g] \in Int
  PROVE  Scatter(rows, f, g) \in Int
<1> DEFINE S == DOMAIN rows
           h == [w \in S |-> rows[w][f] * rows[w][g]]
           H == CHOOSE F : F = [s \in SUBSET S |->
                  IF s = {} THEN 0
                  ELSE LET x == CHOOSE y \in s : TRUE IN (rows[x][f] * rows[x][g]) + F[s \ {x}]]
<1>1. PICK E : IsSum(E, h, S)
  BY SumExists
<1>2. \A F : [s \in SUBSET S |-> Added(F, h, s)] =
        [s \in SUBSET S |->
           IF s = {} THEN 0
           ELSE LET x == CHOOSE y \in s : TRUE IN (rows[x][f] * rows[x][g]) + F[s \ {x}]]
  <2> TAKE F
  <2>1. ASSUME NEW s \in SUBSET S
        PROVE  Added(F, h, s) =
                 IF s = {} THEN 0
                 ELSE LET x == CHOOSE y \in s : TRUE IN (rows[x][f] * rows[x][g]) + F[s \ {x}]
    <3>1. CASE s = {}
      BY <3>1 DEF Added
    <3>2. CASE s # {}
      <4>1. (CHOOSE y \in s : TRUE) \in s
        BY <3>2
      <4>2. h[CHOOSE y \in s : TRUE] = rows[CHOOSE y \in s : TRUE][f] * rows[CHOOSE y \in s : TRUE][g]
        BY <4>1
      <4> QED
        BY <3>2, <4>2 DEF Added
    <3> QED
      BY <3>1, <3>2
  <2> QED
    BY <2>1
<1>3. H = [s \in SUBSET S |->
             IF s = {} THEN 0
             ELSE LET x == CHOOSE y \in s : TRUE IN (rows[x][f] * rows[x][g]) + H[s \ {x}]]
  <2>1. E = [s \in SUBSET S |->
               IF s = {} THEN 0
               ELSE LET x == CHOOSE y \in s : TRUE IN (rows[x][f] * rows[x][g]) + E[s \ {x}]]
    BY <1>1, <1>2 DEF IsSum
  <2> QED
    BY <2>1
<1>4. Scatter(rows, f, g) = Cardinality(S) * H[S] - Total(rows, f) * Total(rows, g)
  BY DEF Scatter, MapThenSumSet, MapThenFoldSet
<1> HIDE DEF H
<1>5. IsSum(H, h, S)
  BY <1>2, <1>3 DEF IsSum
<1>6. \A x \in S : h[x] \in Int
  OBVIOUS
<1> HIDE DEF h
<1>7. H[S] \in Int
  BY <1>5, <1>6, SumIs
<1>8. Cardinality(S) \in Int /\ Total(rows, f) \in Int /\ Total(rows, g) \in Int
  BY TotalIs, FS_CardinalityType
<1> QED
  BY <1>4, <1>7, <1>8

-----------------------------------------------------------------------------
(* What the build computes                                                      *)

OptionalInt == Int \cup {NULL}

IsPublished(readings, means) ==
  /\ DOMAIN readings \subseteq Days /\ DOMAIN means \subseteq Days
  /\ \A d \in DOMAIN readings : readings[d] \in (SUBSET Levels) \ {{}}
  /\ \A d \in DOMAIN means : means[d] \in Levels

RollupRow == [mean : Int, min : Int, source : {"iv", "dv"}, n : Nat]

IsRollup(r) ==
  /\ r = [d \in DOMAIN r |-> r[d]] /\ DOMAIN r \subseteq Days
  /\ \A d \in DOMAIN r : r[d] \in RollupRow /\ r[d].min <= r[d].mean

LEMMA DaysAre ==
  /\ Days \subseteq Int /\ IsFiniteSet(Days)
  /\ \A S \in SUBSET Days : IsFiniteSet(S) /\ S \subseteq Int
<1>1. Days \subseteq Int /\ IsFiniteSet(Days)
  BY ResearchAssumption, FS_Interval DEF Days
<1>2. ASSUME NEW S \in SUBSET Days
      PROVE  IsFiniteSet(S) /\ S \subseteq Int
  BY <1>1, FS_Subset
<1> QED
  BY <1>1, <1>2

(* The least of some levels is no more than their mean, rounded down.           *)
LEMMA MeanIs ==
  ASSUME NEW S \in SUBSET Int, IsFiniteSet(S), S # {}
  PROVE  /\ Min(S) \in Int /\ SumSet(S) \div Cardinality(S) \in Int /\ Cardinality(S) \in Nat
         /\ Min(S) <= SumSet(S) \div Cardinality(S)
<1> DEFINE m == Min(S)
           n == Cardinality(S)
           t == SumSet(S)
<1>1. m \in Int /\ \A x \in S : m <= x
  BY MinIs
<1>2. n \in Nat /\ n # 0
  BY FS_CardinalityType, FS_EmptySet
<1>3. t \in Int /\ m * n <= t
  BY <1>1, SumSetIs
<1> HIDE DEF m
<1> HIDE DEF n
<1> HIDE DEF t
<1>4. m <= t \div n /\ t \div n \in Int
  <2>1. t \div n \in Int /\ n * (t \div n) <= t /\ t < n * (t \div n) + n
    BY <1>2, <1>3
  <2> DEFINE q == t \div n
  <2>2. q \in Int /\ t < n * q + n
    BY <2>1
  <2> HIDE DEF q
  <2>3. n * q + n = n * (q + 1)
    BY <1>2, <2>2
  <2>4. m * n < n * (q + 1)
    BY <1>1, <1>2, <1>3, <2>2, <2>3
  <2>5. m < q + 1
    BY <1>1, <1>2, <2>2, <2>4
  <2> QED
    BY <1>1, <2>2, <2>5 DEF q
<1> QED
  BY <1>1, <1>2, <1>4 DEF m, n, t

(* The rollup of what is published has a row for each day that has a reading.   *)
LEMMA ObservedIs ==
  ASSUME NEW readings, NEW means, IsPublished(readings, means)
  PROVE  /\ IsRollup(Observed(readings, means))
         /\ DOMAIN Observed(readings, means) = DOMAIN readings \cup DOMAIN means
<1> DEFINE D == DOMAIN readings \cup DOMAIN means
           series == GaugeSeries(readings, means)
           samples(d) == IF d \in DOMAIN readings THEN readings[d] ELSE {series[d].mean}
           r == Observed(readings, means)
<1>1. DOMAIN series = D
  BY DEF GaugeSeries
<1>2. r = [d \in D |-> [mean |-> series[d].mean, min |-> Min(samples(d)), source |-> series[d].source,
                        n |-> Cardinality(samples(d))]]
  BY <1>1 DEF Observed
<1>3. ASSUME NEW d \in D
      PROVE  r[d] \in RollupRow /\ r[d].min <= r[d].mean
  <2>1. /\ r[d].mean = series[d].mean /\ r[d].min = Min(samples(d))
        /\ r[d].n = Cardinality(samples(d)) /\ r[d].source = series[d].source
        /\ r[d] = [mean |-> r[d].mean, min |-> r[d].min, source |-> r[d].source, n |-> r[d].n]
    BY <1>2
  <2>2. CASE d \in DOMAIN readings
    <3> DEFINE S == readings[d]
    <3>1. S \in SUBSET Levels /\ S # {}
      BY <2>2 DEF IsPublished
    <3>2. S \in SUBSET Int /\ IsFiniteSet(S)
      BY <3>1, ResearchAssumption, FS_Subset
    <3>3. series[d] = [mean |-> SumSet(S) \div Cardinality(S), source |-> "iv"] /\ samples(d) = S
      BY <2>2 DEF GaugeSeries
    <3> HIDE DEF S
    <3>4. /\ Min(S) \in Int /\ SumSet(S) \div Cardinality(S) \in Int /\ Cardinality(S) \in Nat
          /\ Min(S) <= SumSet(S) \div Cardinality(S)
      BY <3>1, <3>2, MeanIs
    <3> HIDE DEF r, samples, series
    <3>5. /\ r[d].mean = SumSet(S) \div Cardinality(S) /\ r[d].min = Min(S)
          /\ r[d].n = Cardinality(S) /\ r[d].source = "iv"
      BY <2>1, <3>3
    <3> QED
      BY <2>1, <3>4, <3>5 DEF RollupRow
  <2>3. CASE d \notin DOMAIN readings
    <3>1. d \in DOMAIN means /\ means[d] \in Int
      BY <2>3, ResearchAssumption DEF IsPublished
    <3>2. series[d] = [mean |-> means[d], source |-> "dv"] /\ samples(d) = {means[d]}
      BY <2>3, <3>1 DEF GaugeSeries
    <3>3. Cardinality({means[d]}) = 1 /\ IsFiniteSet({means[d]}) /\ {means[d]} \in SUBSET Int
      BY <3>1, FS_Singleton
    <3>4. Min({means[d]}) = means[d]
      BY <3>3, MinIs
    <3> HIDE DEF r, samples, series
    <3>5. r[d].mean = means[d] /\ r[d].min = means[d] /\ r[d].n = 1 /\ r[d].source = "dv"
      BY <2>1, <3>2, <3>3, <3>4
    <3> QED
      BY <2>1, <3>1, <3>5 DEF RollupRow
  <2> QED
    BY <2>2, <2>3
<1>4. D \subseteq Days
  BY DEF IsPublished
<1> HIDE DEF series, samples
<1>5. DOMAIN r = D /\ r = [d \in DOMAIN r |-> r[d]]
  BY <1>2
<1> HIDE DEF r
<1> QED
  BY <1>3, <1>4, <1>5 DEF IsRollup, r

(* A record: some of the days, with integers.                                   *)
IsRecord(s) == DOMAIN s \subseteq Days /\ DOMAIN s # {} /\ \A d \in DOMAIN s : s[d] \in Int

(* A percentile of a record lies between or at its order statistics.            *)
LEMMA PercentileIs ==
  ASSUME NEW s, IsRecord(s)
  PROVE  HundredPercentile(s, Percent) \in Int
<1> DEFINE n == Cardinality(DOMAIN s)
           position == (n - 1) * Percent
           lower == position \div 100
           weight == position % 100
<1>1. IsFiniteSet(DOMAIN s) /\ \A d \in DOMAIN s : s[d] \in Int
  BY DaysAre DEF IsRecord
<1>2. n \in Nat /\ n # 0
  BY <1>1, FS_CardinalityType, FS_EmptySet DEF IsRecord
<1>3. Percent \in 0..100
  BY FeaturesAssumption
<1> HIDE DEF n
<1>4. position \in Nat /\ position <= 100 * (n - 1)
  <2>1. n - 1 \in Nat
    BY <1>2
  <2> DEFINE k == n - 1
  <2>2. k * Percent \in Nat /\ k * Percent <= 100 * k
    BY <1>3, <2>1
  <2> QED
    BY <2>2
<1> HIDE DEF position
<1>5. /\ lower \in Nat /\ weight \in 0..99 /\ position = 100 * lower + weight
  BY <1>4
<1> HIDE DEF lower, weight
<1>6. lower + 1 \in Nat \ {0} /\ lower + 1 <= n
  BY <1>2, <1>4, <1>5
<1>7. OrderStatistic(s, lower + 1) \in Int
  BY <1>1, <1>6, OrderStatisticIs DEF n
<1>8. weight # 0 => OrderStatistic(s, lower + 2) \in Int
  <2> SUFFICES ASSUME weight # 0 PROVE OrderStatistic(s, lower + 2) \in Int
    OBVIOUS
  <2>1. lower + 2 \in Nat \ {0} /\ lower + 2 <= n
    BY <1>2, <1>4, <1>5
  <2> QED
    BY <1>1, <2>1, OrderStatisticIs DEF n
<1>9. HundredPercentile(s, Percent) =
        OrderStatistic(s, lower + 1) * (100 - weight)
          + (IF weight = 0 THEN 0 ELSE OrderStatistic(s, lower + 2) * weight)
  BY DEF HundredPercentile, lower, weight, position, n
<1> DEFINE a == OrderStatistic(s, lower + 1)
           b == OrderStatistic(s, lower + 2)
<1>10. a \in Int /\ (weight # 0 => b \in Int) /\ weight \in Int
       /\ HundredPercentile(s, Percent) = a * (100 - weight) + (IF weight = 0 THEN 0 ELSE b * weight)
  BY <1>5, <1>7, <1>8, <1>9
<1> HIDE DEF a, b
<1> QED
  BY <1>10

(* The run length of a day, by the run lengths F of the days before it.         *)
RunAt(s, threshold, F, d) ==
  IF 100 * s[d] >= threshold THEN 0
  ELSE IF {e \in DOMAIN s : e < d} = {} THEN 1
  ELSE IF d - 1 \in DOMAIN s /\ F[d - 1] # NULL THEN F[d - 1] + 1 ELSE NULL

(* The recursion over the days is well founded: there is a function that        *)
(* satisfies it.                                                                *)
LEMMA RunExists ==
  ASSUME NEW s, IsRecord(s), NEW threshold \in Int
  PROVE  \E F : F = [d \in DOMAIN s |-> RunAt(s, threshold, F, d)]
<1> DEFINE Upto(n) == {d \in DOMAIN s : d <= n}
           Runs(n) == \E F : F = [d \in Upto(n) |-> RunAt(s, threshold, F, d)]
           Bad == {n \in Nat : ~Runs(n)}
<1>0. DOMAIN s \subseteq 1..MaxDay /\ MaxDay \in Nat
  BY ResearchAssumption DEF IsRecord, Days
<1>1. Runs(0)
  <2>1. Upto(0) = {}
    BY <1>0
  <2> DEFINE F == [d \in Upto(0) |-> 0]
  <2>2. F = [d \in Upto(0) |-> RunAt(s, threshold, F, d)]
    BY <2>1
  <2> QED
    BY <2>2
<1>2. ASSUME NEW n \in Nat, Runs(n)
      PROVE  Runs(n + 1)
  <2>1. PICK E : E = [d \in Upto(n) |-> RunAt(s, threshold, E, d)]
    BY <1>2
  <2> DEFINE F == [d \in Upto(n + 1) |-> IF d <= n THEN E[d] ELSE RunAt(s, threshold, E, d)]
  <2>2. ASSUME NEW d \in Upto(n + 1)
        PROVE  F[d] = RunAt(s, threshold, F, d)
    <3>1. F[d] = RunAt(s, threshold, E, d)
      <4>1. CASE d <= n
        <5>1. d \in Upto(n)
          BY <4>1
        <5> QED
          BY <5>1, <4>1, <2>1
      <4>2. CASE ~(d <= n)
        BY <4>2
      <4> QED
        BY <4>1, <4>2
    <3>2. d - 1 \in DOMAIN s => F[d - 1] = E[d - 1]
      <4> SUFFICES ASSUME d - 1 \in DOMAIN s PROVE F[d - 1] = E[d - 1]
        OBVIOUS
      <4>1. d - 1 \in Upto(n + 1) /\ d - 1 <= n
        BY <1>0
      <4> QED
        BY <4>1
    <3> HIDE DEF F
    <3> QED
      BY <3>1, <3>2 DEF RunAt
  <2>3. F = [d \in Upto(n + 1) |-> RunAt(s, threshold, F, d)]
    <3> HIDE DEF F
    <3>1. DOMAIN F = Upto(n + 1) /\ F = [d \in DOMAIN F |-> F[d]]
      BY DEF F
    <3> QED
      BY <3>1, <2>2
  <2> QED
    BY <2>3
<1>3. Bad = {}
  <2> SUFFICES ASSUME Bad # {} PROVE FALSE
    OBVIOUS
  <2>1. PICK m \in Bad : \A n \in Bad : ~(<<n, m>> \in OpToRel(<, Nat))
    BY NatLessThanWellFounded, WFMin
  <2>2. \A n \in Bad : ~(n < m)
    BY <2>1 DEF OpToRel
  <2>3. m # 0 /\ m \in Nat
    BY <1>1
  <2> DEFINE k == m - 1
  <2>4. k \in Nat /\ k + 1 = m /\ k < m
    BY <2>3
  <2>5. Runs(k)
    BY <2>2, <2>4
  <2>6. Runs(k + 1)
    BY <2>4, <2>5, <1>2
  <2> QED
    BY <2>4, <2>6
<1>4. Runs(MaxDay)
  BY <1>0, <1>3
<1>5. Upto(MaxDay) = DOMAIN s
  BY <1>0
<1> QED
  BY <1>4, <1>5

(* Run lengths are natural numbers or unknown.  One that counts behind another  *)
(* day of the record counts one more than the run length of the day before it.  *)
IsRunOf(r, s) ==
  /\ r = [d \in DOMAIN s |-> r[d]]
  /\ \A d \in DOMAIN s :
       /\ r[d] \in Nat \cup {NULL}
       /\ r[d] \notin {0, NULL} /\ (\E e \in DOMAIN s : e < d) =>
            d - 1 \in DOMAIN s /\ r[d - 1] # NULL /\ r[d] = r[d - 1] + 1

LEMMA DaysBelowIs ==
  ASSUME NEW s, IsRecord(s)
  PROVE  IsRunOf(DaysBelow(s), s)
<1> DEFINE threshold == HundredPercentile(s, Percent)
           r == CHOOSE F : F = [d \in DOMAIN s |->
                  IF 100 * s[d] >= threshold THEN 0
                  ELSE IF {e \in DOMAIN s : e < d} = {} THEN 1
                  ELSE IF d - 1 \in DOMAIN s /\ F[d - 1] # NULL THEN F[d - 1] + 1 ELSE NULL]
<1>1. threshold \in Int
  BY PercentileIs
<1>2. DaysBelow(s) = r
  BY DEF DaysBelow
<1> HIDE DEF threshold
<1>3. PICK E : E = [d \in DOMAIN s |-> RunAt(s, threshold, E, d)]
  BY <1>1, RunExists
<1>4. r = [d \in DOMAIN s |-> RunAt(s, threshold, r, d)]
  BY <1>3 DEF RunAt
<1> HIDE DEF r
<1>5. DOMAIN s \subseteq 1..MaxDay /\ MaxDay \in Nat /\ \A d \in DOMAIN s : s[d] \in Int
  BY ResearchAssumption DEF IsRecord, Days
<1>6. \A d \in DOMAIN s : r[d] = RunAt(s, threshold, r, d)
  BY <1>4
<1>7. \A d \in DOMAIN s : r[d] \in Nat \cup {NULL}
  <2> DEFINE Bad == {d \in DOMAIN s : r[d] \notin Nat \cup {NULL}}
  <2> SUFFICES ASSUME Bad # {} PROVE FALSE
    OBVIOUS
  <2>1. IsFiniteSet(Bad) /\ Bad \in SUBSET Int
    BY <1>5, DaysAre DEF IsRecord
  <2>2. PICK d \in Bad : \A e \in Bad : d <= e
    BY <2>1, MinIs
  <2>3. d \in DOMAIN s /\ d \in Int /\ d - 1 < d
    BY <2>1
  <2>4. d - 1 \in DOMAIN s => r[d - 1] \in Nat \cup {NULL}
    BY <2>2, <2>3
  <2>5. RunAt(s, threshold, r, d) \in Nat \cup {NULL}
    BY <2>4 DEF RunAt
  <2> QED
    BY <2>3, <2>5, <1>6
<1>8. ASSUME NEW d \in DOMAIN s, r[d] \notin {0, NULL}, NEW e \in DOMAIN s, e < d
      PROVE  d - 1 \in DOMAIN s /\ r[d - 1] # NULL /\ r[d] = r[d - 1] + 1
  <2>1. r[d] = RunAt(s, threshold, r, d) /\ {x \in DOMAIN s : x < d} # {}
    BY <1>6, <1>8
  <2> QED
    BY <2>1, <1>8 DEF RunAt
<1>9. r = [d \in DOMAIN s |-> r[d]]
  BY <1>4
<1> QED
  BY <1>2, <1>7, <1>8, <1>9 DEF IsRunOf

(* The median of a day over the years is between or at two of its values.       *)
LEMMA AnomaliesIs ==
  ASSUME NEW s, IsRecord(s)
  PROVE  /\ DOMAIN Anomalies(s) = DOMAIN s
         /\ \A d \in DOMAIN s : Anomalies(s)[d] \in OptionalInt
<1> DEFINE same(d) == Restrict(s, {e \in DOMAIN s : DayOfYear(e) = DayOfYear(d)})
           years(d) == Cardinality(DOMAIN same(d))
           low(d) == OrderStatistic(same(d), (years(d) + 1) \div 2)
           high(d) == OrderStatistic(same(d), years(d) \div 2 + 1)
<1>1. Anomalies(s) = [d \in DOMAIN s |-> IF years(d) < MinYears THEN NULL ELSE 2 * s[d] - low(d) - high(d)]
  BY DEF Anomalies
<1>2. ASSUME NEW d \in DOMAIN s
      PROVE  low(d) \in Int /\ high(d) \in Int /\ s[d] \in Int
  <2> DEFINE t == same(d)
             n == years(d)
             D == {e \in DOMAIN s : DayOfYear(e) = DayOfYear(d)}
  <2>1. t = [e \in D |-> s[e]]
    BY DEF Restrict
  <2>2. D \subseteq Days /\ d \in D
    BY DEF IsRecord
  <2>3. IsFiniteSet(DOMAIN t) /\ DOMAIN t # {} /\ \A e \in DOMAIN t : t[e] \in Int
    BY <2>1, <2>2, DaysAre DEF IsRecord
  <2>4. n = Cardinality(DOMAIN t)
    OBVIOUS
  <2> HIDE DEF n, t
  <2>5. n \in Nat /\ n # 0
    BY <2>3, <2>4, FS_CardinalityType, FS_EmptySet
  <2>6. /\ (n + 1) \div 2 \in Nat \ {0} /\ (n + 1) \div 2 <= n
        /\ n \div 2 + 1 \in Nat \ {0} /\ n \div 2 + 1 <= n
    BY <2>5
  <2>7. OrderStatistic(t, (n + 1) \div 2) \in Int
    BY <2>3, <2>4, <2>6, OrderStatisticIs
  <2>8. OrderStatistic(t, n \div 2 + 1) \in Int
    BY <2>3, <2>4, <2>6, OrderStatisticIs
  <2> QED
    BY <2>7, <2>8 DEF IsRecord, t, n
<1> HIDE DEF low, high, years
<1>3. DOMAIN Anomalies(s) = DOMAIN s
  BY <1>1
<1>4. ASSUME NEW d \in DOMAIN s
      PROVE  Anomalies(s)[d] \in OptionalInt
  <2>1. Anomalies(s)[d] = IF years(d) < MinYears THEN NULL ELSE 2 * s[d] - low(d) - high(d)
    BY <1>1
  <2>2. 2 * s[d] - low(d) - high(d) \in Int
    BY <1>2
  <2> QED
    BY <2>1, <2>2 DEF OptionalInt
<1> QED
  BY <1>3, <1>4

FeatureRow == [value : OptionalInt, anomaly : OptionalInt]

(* The rows of one feature.                                                     *)
IsTable(r) == /\ r = [d \in DOMAIN r |-> r[d]] /\ DOMAIN r \subseteq Days
              /\ \A d \in DOMAIN r : r[d] \in FeatureRow

RunsOf(r) == [d \in DOMAIN r |-> r[d].value]

LEMMA EmptyRollup ==
  ASSUME NEW r, r = [d \in DOMAIN r |-> r[d]]
  PROVE  DOMAIN r = {} <=> r = << >>
<1>1. DOMAIN r = {} => r = << >>
  OBVIOUS
<1> QED
  BY <1>1

(* The features of a rollup have its days, and the run lengths among them are   *)
(* those of its record.                                                         *)
LEMMA FeatureRowsAre ==
  ASSUME NEW r, IsRollup(r)
  PROVE  /\ \A f \in FeatureNames : IsTable(FeatureRows(r)[f]) /\ DOMAIN FeatureRows(r)[f] = DOMAIN r
         /\ \E s : DOMAIN s = DOMAIN r /\ IsRunOf(RunsOf(FeatureRows(r).days_below), s)
<1> DEFINE F == FeatureRows(r)
           mean == Column(r, "mean")
           min == Column(r, "min")
           none == [d \in DOMAIN r |-> NULL]
           row(s, anomaly) == [d \in DOMAIN s |-> [value |-> s[d], anomaly |-> anomaly[d]]]
<1>1. CASE r = << >>
  <2>1. F = [f \in FeatureNames |-> << >>] /\ DOMAIN r = {}
    BY <1>1 DEF FeatureRows
  <2>2. \A f \in FeatureNames : F[f] = << >> /\ DOMAIN F[f] = {}
    BY <2>1
  <2>3. "days_below" \in FeatureNames
    BY DEF FeatureNames
  <2>4. F.days_below = << >>
    BY <2>2, <2>3
  <2>5. RunsOf(F.days_below) = << >> /\ IsRunOf(<< >>, << >>)
    BY <2>4 DEF RunsOf, IsRunOf
  <2>6. \A f \in FeatureNames : IsTable(F[f])
    BY <2>2 DEF IsTable
  <2>7. DOMAIN << >> = DOMAIN r
    BY <2>1
  <2> QED
    BY <2>1, <2>2, <2>5, <2>6, <2>7
<1>2. CASE r # << >>
  <2>1. DOMAIN r # {}
    BY <1>2, EmptyRollup DEF IsRollup
  <2>2. IsRecord(mean) /\ IsRecord(min) /\ DOMAIN mean = DOMAIN r /\ DOMAIN min = DOMAIN r
    <3>1. DOMAIN mean = DOMAIN r /\ DOMAIN min = DOMAIN r
      BY DEF Column
    <3>2. \A d \in DOMAIN r : mean[d] \in Int /\ min[d] \in Int
      BY DEF Column, IsRollup, RollupRow
    <3> QED
      BY <2>1, <3>1, <3>2 DEF IsRecord, IsRollup
  <2>3. F = [discharge_mean |-> row(mean, Anomalies(mean)), discharge_min |-> row(min, Anomalies(min)),
             days_below |-> row(DaysBelow(min), none)]
    BY <1>2 DEF FeatureRows
  <2> HIDE DEF mean, min
  <2>4. IsRunOf(DaysBelow(min), min)
    BY <2>2, DaysBelowIs
  <2>5. DOMAIN DaysBelow(min) = DOMAIN r /\ \A d \in DOMAIN r : DaysBelow(min)[d] \in OptionalInt
    <3> DEFINE b == DaysBelow(min)
    <3>1. b = [d \in DOMAIN min |-> b[d]] /\ \A d \in DOMAIN min : b[d] \in Nat \cup {NULL}
      BY <2>4 DEF IsRunOf
    <3> HIDE DEF b
    <3>2. DOMAIN b = DOMAIN min
      BY <3>1
    <3> QED
      BY <2>2, <3>1, <3>2 DEF OptionalInt, b
  <2>6. ASSUME NEW s, NEW a, DOMAIN s = DOMAIN r, \A d \in DOMAIN r : s[d] \in OptionalInt /\ a[d] \in OptionalInt
        PROVE  IsTable(row(s, a)) /\ DOMAIN row(s, a) = DOMAIN r
    BY <2>6 DEF IsTable, IsRollup, FeatureRow
  <2>7. \A d \in DOMAIN r : /\ mean[d] \in OptionalInt /\ min[d] \in OptionalInt /\ none[d] \in OptionalInt
                            /\ Anomalies(mean)[d] \in OptionalInt /\ Anomalies(min)[d] \in OptionalInt
    <3>1. \A d \in DOMAIN r : Anomalies(mean)[d] \in OptionalInt /\ Anomalies(min)[d] \in OptionalInt
      BY <2>2, AnomaliesIs
    <3> QED
      BY <2>2, <3>1 DEF IsRecord, OptionalInt
  <2> HIDE DEF row
  <2>8. IsTable(F.discharge_mean) /\ DOMAIN F.discharge_mean = DOMAIN r
    <3>1. F.discharge_mean = row(mean, Anomalies(mean)) /\ DOMAIN mean = DOMAIN r
      BY <2>2, <2>3
    <3>2. IsTable(row(mean, Anomalies(mean))) /\ DOMAIN row(mean, Anomalies(mean)) = DOMAIN r
      BY <3>1, <2>6, <2>7
    <3> QED
      BY <3>1, <3>2
  <2>9. IsTable(F.discharge_min) /\ DOMAIN F.discharge_min = DOMAIN r
    <3>1. F.discharge_min = row(min, Anomalies(min)) /\ DOMAIN min = DOMAIN r
      BY <2>2, <2>3
    <3>2. IsTable(row(min, Anomalies(min))) /\ DOMAIN row(min, Anomalies(min)) = DOMAIN r
      BY <3>1, <2>6, <2>7
    <3> QED
      BY <3>1, <3>2
  <2>10. F.days_below = row(DaysBelow(min), none)
    BY <2>3
  <2>11. IsTable(F.days_below) /\ DOMAIN F.days_below = DOMAIN r
    BY <2>5, <2>6, <2>7, <2>10
  <2>12. RunsOf(F.days_below) = DaysBelow(min)
    <3> DEFINE b == DaysBelow(min)
    <3>1. b = [d \in DOMAIN min |-> b[d]]
      BY <2>4 DEF IsRunOf
    <3> HIDE DEF b
    <3>2. F.days_below = [d \in DOMAIN b |-> [value |-> b[d], anomaly |-> none[d]]]
      BY <2>10 DEF b, row
    <3>3. RunsOf(F.days_below) = [d \in DOMAIN b |-> b[d]]
      BY <3>2 DEF RunsOf
    <3> QED
      BY <3>1, <3>3 DEF b
  <2>13. \A f \in FeatureNames : F[f] \in {F.discharge_mean, F.discharge_min, F.days_below}
    BY DEF FeatureNames
  <2> HIDE DEF F
  <2> QED
    BY <2>2, <2>4, <2>8, <2>9, <2>11, <2>12, <2>13 DEF F
<1> QED
  BY <1>1, <1>2

IsPrice(r) == DOMAIN r \subseteq Days /\ \A w \in DOMAIN r : r[w] \in OptionalInt

IsTargets(t) ==
  /\ t = [x \in DOMAIN t |-> t[x]] /\ DOMAIN t \subseteq Days \X Horizons
  /\ \A x \in DOMAIN t : t[x] \in OptionalInt

LEMMA ReturnIs ==
  ASSUME NEW a \in OptionalInt, NEW b \in OptionalInt
  PROVE  /\ Return(a, b) \in OptionalInt
         /\ Return(a, b) # NULL => a \in Int /\ b \in Int /\ Return(a, b) \in Int
BY FeaturesAssumption DEF Return, OptionalInt

LEMMA TargetRowsAre ==
  ASSUME NEW r, IsPrice(r)
  PROVE  IsTargets(TargetRows(r))
<1> DEFINE t == TargetRows(r)
<1>1. t = [x \in (DOMAIN r) \X Horizons |->
             IF x[1] + x[2] \in DOMAIN r THEN Return(r[x[1]], r[x[1] + x[2]]) ELSE NULL]
  BY DEF TargetRows
<1>2. DOMAIN t = (DOMAIN r) \X Horizons /\ t = [x \in DOMAIN t |-> t[x]]
  BY <1>1
<1>3. ASSUME NEW x \in (DOMAIN r) \X Horizons
      PROVE  t[x] \in OptionalInt
  <2>1. CASE x[1] + x[2] \in DOMAIN r
    <3>1. t[x] = Return(r[x[1]], r[x[1] + x[2]])
      BY <1>1, <2>1
    <3>2. r[x[1]] \in OptionalInt /\ r[x[1] + x[2]] \in OptionalInt
      BY <2>1 DEF IsPrice
    <3> QED
      BY <3>1, <3>2, ReturnIs
  <2>2. CASE x[1] + x[2] \notin DOMAIN r
    BY <1>1, <2>2 DEF OptionalInt
  <2> QED
    BY <2>1, <2>2
<1> HIDE DEF t
<1> QED
  BY <1>2, <1>3 DEF IsTargets, IsPrice, t

-----------------------------------------------------------------------------
(* The tables and the builds                                                    *)

LEMMA RestrictIs ==
  ASSUME NEW s, NEW S
  PROVE  /\ DOMAIN Restrict(s, S) = S /\ Restrict(s, S) = [d \in DOMAIN Restrict(s, S) |-> Restrict(s, S)[d]]
         /\ \A d \in S : Restrict(s, S)[d] = s[d]
BY DEF Restrict

LEMMA OverlaidTables ==
  ASSUME NEW a, NEW b
  PROVE  /\ IsRollup(a) /\ IsRollup(b) => IsRollup(Overlay(a, b))
         /\ IsTable(a) /\ IsTable(b) => IsTable(Overlay(a, b))
         /\ IsTargets(a) /\ IsTargets(b) => IsTargets(Overlay(a, b))
<1> DEFINE o == Overlay(a, b)
<1>1. /\ DOMAIN o = DOMAIN a \cup DOMAIN b /\ o = [d \in DOMAIN o |-> o[d]]
      /\ \A d \in DOMAIN o : (d \in DOMAIN a /\ o[d] = a[d]) \/ (d \in DOMAIN b /\ o[d] = b[d])
  BY DEF Overlay
<1> HIDE DEF o
<1>2. IsRollup(a) /\ IsRollup(b) => IsRollup(o)
  BY <1>1 DEF IsRollup
<1>3. IsTable(a) /\ IsTable(b) => IsTable(o)
  BY <1>1 DEF IsTable
<1>4. IsTargets(a) /\ IsTargets(b) => IsTargets(o)
  BY <1>1 DEF IsTargets
<1> QED
  BY <1>2, <1>3, <1>4 DEF o

LEMMA RestrictedTables ==
  ASSUME NEW s, NEW S \in SUBSET DOMAIN s
  PROVE  /\ IsRollup(s) => IsRollup(Restrict(s, S))
         /\ IsTable(s) => IsTable(Restrict(s, S))
         /\ IsTargets(s) => IsTargets(Restrict(s, S))
<1> DEFINE o == Restrict(s, S)
<1>1. DOMAIN o = S /\ o = [d \in DOMAIN o |-> o[d]] /\ \A d \in S : o[d] = s[d] /\ d \in DOMAIN s
  BY RestrictIs
<1> HIDE DEF o
<1>2. IsRollup(s) => IsRollup(o)
  BY <1>1 DEF IsRollup
<1>3. IsTable(s) => IsTable(o)
  BY <1>1 DEF IsTable
<1>4. IsTargets(s) => IsTargets(o)
  BY <1>1 DEF IsTargets
<1> QED
  BY <1>2, <1>3, <1>4 DEF o

InWindow(h, d) == h.start <= d /\ d <= h.end

IsWindow(h) == h.start \in Int /\ h.end \in Int /\ IsRollup(h.seen)

Tabulated == UNION {[D -> FeatureRow] : D \in SUBSET Days}

(* What a build holds that has rolled: of its window, what its statement saw;   *)
(* and the rows of the features so far which, unless another build committed    *)
(* meanwhile, are those of its own days over what is committed.                 *)
IsHeld(h, committed) ==
  /\ {"pc", "start", "end", "seen", "daily", "rows", "crossed"} \subseteq DOMAIN h
  /\ IsRollup(h.daily) /\ h.crossed \in BOOLEAN
  /\ \A d \in DOMAIN h.daily : InWindow(h, d)
  /\ \A d \in DOMAIN h.seen : InWindow(h, d) => d \in DOMAIN h.daily /\ h.daily[d] = h.seen[d]
  /\ h.rows \in Seq(Tabulated) /\ Len(h.rows) \in 1..3 /\ (h.pc = "built" => Len(h.rows) = 3)
  /\ \A k \in 1..Len(h.rows) :
       /\ DOMAIN h.rows[k] \subseteq DOMAIN h.daily \cup DOMAIN committed
       /\ ~h.crossed =>
            \A d \in DOMAIN h.daily :
              /\ d \in DOMAIN h.rows[k]
              /\ h.rows[k][d] = FeatureRows(Overlay(h.daily, committed))[Registry[k]][d]

BuildIs(h, committed) ==
  /\ h.pc \in {"idle", "rolling", "writing", "built"}
  /\ h.pc # "idle" => IsWindow(h)
  /\ h.pc \in {"writing", "built"} => IsHeld(h, committed)
  /\ h.pc = "built" => IsTargets(h.targets)

Tables ==
  /\ today \in Days /\ effort \in Nat
  /\ IsPublished(iv, dv) /\ IsPrice(rates)
  /\ IsRollup(daily) /\ IsTargets(targets)
  /\ \A f \in FeatureNames : IsTable(features[f]) /\ DOMAIN features[f] \subseteq DOMAIN daily
  /\ DOMAIN build = Builders
  /\ \A b \in Builders : BuildIs(build[b], daily)

LEMMA RegistryIs ==
  /\ DOMAIN Registry = 1..3 /\ Len(Registry) = 3
  /\ \A k \in 1..3 : Registry[k] \in FeatureNames
  /\ \A f \in FeatureNames : \E k \in 1..3 : Registry[k] = f
<1>1. Registry = << "discharge_mean", "discharge_min", "days_below" >>
  BY DEF Registry
<1>2. Registry[1] = "discharge_mean" /\ Registry[2] = "discharge_min" /\ Registry[3] = "days_below"
  BY <1>1
<1>3. DOMAIN Registry = 1..3 /\ Len(Registry) = 3
  BY <1>1
<1>4. \A k \in 1..3 : k = 1 \/ k = 2 \/ k = 3
  OBVIOUS
<1> QED
  BY <1>2, <1>3, <1>4 DEF FeatureNames

LEMMA TabulatedIs ==
  /\ \A r : IsTable(r) => r \in Tabulated
  /\ \A r \in Tabulated : IsTable(r)
BY DEF Tabulated, IsTable

(* The rows of one feature, of a build's window: over what it has rolled and     *)
(* all that is committed.                                                       *)
LEMMA ComputedIs ==
  ASSUME Tables, NEW b \in Builders, IsWindow(build[b]), NEW own, IsRollup(own), NEW k \in 1..3
  PROVE  /\ Computed(b, own, k) \in Tabulated
         /\ DOMAIN Computed(b, own, k) \subseteq DOMAIN own \cup DOMAIN daily
         /\ \A d \in DOMAIN own : InWindow(build[b], d) =>
              /\ d \in DOMAIN Computed(b, own, k)
              /\ Computed(b, own, k)[d] = FeatureRows(Overlay(own, daily))[Registry[k]][d]
<1> DEFINE g == build[b]
           full == Overlay(own, daily)
           r == FeatureRows(full)[Registry[k]]
           S == {d \in DOMAIN r : d >= g.start /\ d <= g.end}
           part == Restrict(r, S)
<1>1. Computed(b, own, k) = part
  BY DEF Computed, History, Within
<1>2. IsRollup(full) /\ DOMAIN full = DOMAIN own \cup DOMAIN daily
  <2>1. IsRollup(full)
    BY OverlaidTables DEF Tables
  <2> QED
    BY <2>1 DEF Overlay
<1>3. IsTable(r) /\ DOMAIN r = DOMAIN full
  <2>1. Registry[k] \in FeatureNames
    BY RegistryIs
  <2> HIDE DEF full
  <2> QED
    BY <1>2, <2>1, FeatureRowsAre
<1>4. DOMAIN part = S /\ \A d \in S : part[d] = r[d]
  BY RestrictIs
<1> HIDE DEF r
<1>5. IsTable(part)
  BY <1>3, RestrictedTables
<1>6. \A d \in DOMAIN own : InWindow(g, d) => d \in S
  <2>1. \A d \in DOMAIN own : d \in Int /\ d \in DOMAIN r
    BY <1>2, <1>3, DaysAre DEF IsRollup
  <2> QED
    BY <2>1 DEF InWindow, IsWindow
<1>7. S \subseteq DOMAIN own \cup DOMAIN daily
  BY <1>2, <1>3
<1>8. part \in Tabulated
  BY <1>5, TabulatedIs
<1> HIDE DEF S, part
<1> QED
  BY <1>1, <1>4, <1>6, <1>7, <1>8 DEF r

LEMMA InitTables == Init => Tables
<1> SUFFICES ASSUME Init PROVE Tables
  OBVIOUS
<1>1. PICK p \in Pasts :
        /\ today = p.today /\ iv = p.iv /\ dv = p.dv /\ rates = p.rates /\ effort = p.effort
        /\ daily = Observed(iv, dv) /\ features = FeatureRows(daily) /\ targets = TargetRows(rates)
        /\ build = [b \in Builders |-> NoBuild]
  BY DEF Init
<1>2. today \in Days /\ effort \in Nat /\ IsPublished(iv, dv) /\ IsPrice(rates)
  BY <1>1, ResearchAssumption DEF IsPublished, IsPrice, OptionalInt
<1>3. IsRollup(daily)
  BY <1>1, <1>2, ObservedIs
<1>4. IsTargets(targets)
  BY <1>1, <1>2, TargetRowsAre
<1>5. \A f \in FeatureNames : IsTable(features[f]) /\ DOMAIN features[f] \subseteq DOMAIN daily
  BY <1>1, <1>3, FeatureRowsAre
<1>6. DOMAIN build = Builders /\ \A b \in Builders : build[b].pc = "idle"
  BY <1>1 DEF NoBuild
<1> QED
  BY <1>2, <1>3, <1>4, <1>5, <1>6 DEF Tables, BuildIs

(* What is published moves nothing that is built.                               *)
LEMMA PublishKeepsTables ==
  ASSUME Tables, Read \/ PublishRate \/ NextDay
  PROVE  Tables'
<1>1. UNCHANGED <<daily, features, targets, build>>
  BY DEF Read, PublishRate, NextDay
<1>2. effort' \in Nat
  BY DEF Tables, Read, PublishRate, NextDay, Spend
<1>3. today' \in Days
  BY ResearchAssumption DEF Tables, Read, PublishRate, NextDay, Days
<1>4. IsPublished(iv, dv)'
  <2>1. CASE Read
    <3>1. PICK d \in ChangeDays \cap 1..today :
            \/ \E S \in (SUBSET Levels) \ {{}} : iv' = Set(iv, d, S) /\ iv' # iv /\ UNCHANGED dv
            \/ \E v \in Levels : dv' = Set(dv, d, v) /\ dv' # dv /\ UNCHANGED iv
      BY <2>1 DEF Read
    <3>2. d \in Days
      BY ResearchAssumption
    <3>3. ASSUME NEW S \in (SUBSET Levels) \ {{}}, iv' = Set(iv, d, S), UNCHANGED dv
          PROVE  IsPublished(iv, dv)'
      BY <3>2, <3>3 DEF Tables, IsPublished, Set
    <3>4. ASSUME NEW v \in Levels, dv' = Set(dv, d, v), UNCHANGED iv
          PROVE  IsPublished(iv, dv)'
      BY <3>2, <3>4 DEF Tables, IsPublished, Set
    <3> QED
      BY <3>1, <3>3, <3>4
  <2>2. CASE PublishRate \/ NextDay
    BY <2>2 DEF Tables, PublishRate, NextDay, IsPublished
  <2> QED
    BY <2>1, <2>2
<1>5. IsPrice(rates)'
  <2>1. CASE PublishRate
    <3>1. PICK w \in ChangeDays \cap 1..today, r \in Rates : rates' = Set(rates, w, r)
      BY <2>1 DEF PublishRate
    <3>2. w \in Days /\ r \in OptionalInt
      BY ResearchAssumption DEF OptionalInt
    <3> QED
      BY <3>1, <3>2 DEF Tables, IsPrice, Set
  <2>2. CASE Read \/ NextDay
    BY <2>2 DEF Tables, Read, NextDay, IsPrice
  <2> QED
    BY <2>1, <2>2
<1> QED
  BY <1>1, <1>2, <1>3, <1>4, <1>5 DEF Tables

LEMMA StartKeepsTables ==
  ASSUME Tables, NEW b \in Builders, StartBuild(b)
  PROVE  Tables'
<1>1. PICK start \in IF b = "job" THEN {today - WindowDays} ELSE {1, today} :
        build' = [build EXCEPT ![b] = [pc |-> "rolling", start |-> start, end |-> today, seen |-> Observed(iv, dv)]]
  BY DEF StartBuild
<1> DEFINE h == [pc |-> "rolling", start |-> start, end |-> today, seen |-> Observed(iv, dv)]
<1>2. /\ UNCHANGED <<today, iv, dv, rates, daily, features, targets>>
      /\ effort' \in Nat
  BY DEF StartBuild, Spend, Tables
<1>3. start \in Int /\ today \in Int
  BY ResearchAssumption DEF Tables, Days
<1>4. IsRollup(Observed(iv, dv))
  BY ObservedIs DEF Tables
<1>5. BuildIs(h, daily) /\ h.pc = "rolling"
  BY <1>3, <1>4 DEF BuildIs, IsWindow
<1> HIDE DEF h
<1>6. DOMAIN build' = Builders /\ \A c \in Builders : build'[c] = IF c = b THEN h ELSE build[c]
  BY <1>1 DEF Tables, h
<1>7. \A c \in Builders : BuildIs(build'[c], daily)
  BY <1>5, <1>6 DEF Tables
<1> QED
  BY <1>2, <1>6, <1>7 DEF Tables

LEMMA RollKeepsTables ==
  ASSUME Tables, NEW b \in Builders, Roll(b)
  PROVE  Tables'
<1> DEFINE g == build[b]
           part == Within(g.seen, b)
           row == Computed(b, part, 1)
           h == [pc |-> "writing", start |-> g.start, end |-> g.end, seen |-> g.seen,
                 daily |-> part, rows |-> <<row>>, crossed |-> FALSE]
<1>1. /\ g.pc = "rolling"
      /\ build' = [build EXCEPT ![b] = h]
      /\ UNCHANGED <<today, iv, dv, rates, daily, features, targets, effort>>
  BY DEF Roll
<1>2. IsWindow(g)
  BY <1>1 DEF Tables, BuildIs
<1>3. part = Restrict(g.seen, {d \in DOMAIN g.seen : d >= g.start /\ d <= g.end})
  BY DEF Within
<1>4. IsRollup(part)
  BY <1>2, <1>3, RestrictedTables DEF IsWindow
<1>5. /\ \A d \in DOMAIN g.seen : g.start <= d /\ d <= g.end => d \in DOMAIN part /\ part[d] = g.seen[d]
      /\ \A d \in DOMAIN part : g.start <= d /\ d <= g.end
  <2> DEFINE S == {d \in DOMAIN g.seen : d >= g.start /\ d <= g.end}
  <2>1. DOMAIN part = S /\ \A d \in S : part[d] = g.seen[d]
    BY <1>3, RestrictIs
  <2>2. \A d \in DOMAIN g.seen : d \in Int
    BY <1>2, DaysAre DEF IsWindow, IsRollup
  <2>3. \A d \in DOMAIN g.seen : g.start <= d /\ d <= g.end <=> d \in S
    BY <1>2, <2>2 DEF IsWindow
  <2>4. S \subseteq DOMAIN g.seen
    OBVIOUS
  <2> HIDE DEF S
  <2> QED
    BY <2>1, <2>3, <2>4
<1> HIDE DEF part
<1>6. /\ row \in Tabulated /\ DOMAIN row \subseteq DOMAIN part \cup DOMAIN daily
      /\ \A d \in DOMAIN part : InWindow(g, d) =>
           d \in DOMAIN row /\ row[d] = FeatureRows(Overlay(part, daily))[Registry[1]][d]
  <2>1. 1 \in 1..3
    OBVIOUS
  <2> QED
    BY <1>2, <1>4, <2>1, ComputedIs
<1> HIDE DEF row
<1>7. <<row>> \in Seq(Tabulated) /\ Len(<<row>>) = 1 /\ <<row>>[1] = row
  BY <1>6
<1>8. IsWindow(h)
  BY <1>2 DEF IsWindow
<1>9. IsHeld(h, daily)
  BY <1>4, <1>5, <1>6, <1>7 DEF IsHeld, InWindow
<1>10. BuildIs(h, daily)
  BY <1>8, <1>9 DEF BuildIs
<1> HIDE DEF h
<1>11. DOMAIN build' = Builders /\ \A c \in Builders : build'[c] = IF c = b THEN h ELSE build[c]
  BY <1>1 DEF Tables
<1>12. \A c \in Builders : BuildIs(build'[c], daily)
  BY <1>10, <1>11 DEF Tables
<1> QED
  BY <1>1, <1>11, <1>12 DEF Tables

LEMMA WriteKeepsTables ==
  ASSUME Tables, NEW b \in Builders, WriteFeature(b)
  PROVE  Tables'
<1> DEFINE g == build[b]
           k == Len(g.rows)
           next == Computed(b, g.daily, k + 1)
           weeks == TargetRows(rates)
           kept == {x \in DOMAIN weeks : x[1] >= g.start /\ x[1] <= g.end}
           more == [g EXCEPT !.rows = Append(g.rows, next)]
           done == [pc |-> "built", start |-> g.start, end |-> g.end, seen |-> g.seen,
                    daily |-> g.daily, rows |-> g.rows, crossed |-> g.crossed,
                    targets |-> Restrict(weeks, kept)]
           h == IF k < Len(Registry) THEN more ELSE done
<1>1. /\ g.pc = "writing"
      /\ DOMAIN build' = Builders /\ \A c \in Builders : build'[c] = IF c = b THEN h ELSE build[c]
      /\ UNCHANGED <<today, iv, dv, rates, daily, features, targets, effort>>
  <2>1. g.pc = "writing" /\ UNCHANGED <<today, iv, dv, rates, daily, features, targets, effort>>
    BY DEF WriteFeature
  <2> HIDE DEF next, weeks, kept
  <2>2. build' =
          IF k < Len(Registry)
          THEN [build EXCEPT ![b].rows = Append(@, next)]
          ELSE [build EXCEPT ![b] =
                 [pc |-> "built", start |-> @.start, end |-> @.end, seen |-> @.seen,
                  daily |-> @.daily, rows |-> @.rows, crossed |-> @.crossed,
                  targets |-> Restrict(weeks, kept)]]
    BY DEF WriteFeature, next, weeks, kept
  <2> HIDE DEF k
  <2>3. DOMAIN build = Builders
    BY DEF Tables
  <2>4. DOMAIN build' = Builders /\ \A c \in Builders : c # b => build'[c] = build[c]
    BY <2>2, <2>3
  <2>5. k < Len(Registry) => build'[b] = more
    BY <2>2, <2>3
  <2>6. ~(k < Len(Registry)) => build'[b] = done
    BY <2>2, <2>3
  <2> HIDE DEF more, done
  <2> QED
    BY <2>1, <2>4, <2>5, <2>6
<1>2. IsWindow(g) /\ IsHeld(g, daily)
  BY <1>1 DEF Tables, BuildIs
<1>3. k \in 1..3 /\ Len(Registry) = 3
  BY <1>2, RegistryIs DEF IsHeld
<1>4. IsTargets(Restrict(weeks, kept))
  <2>1. IsTargets(weeks)
    BY TargetRowsAre DEF Tables
  <2> QED
    BY <2>1, RestrictedTables
<1> HIDE DEF weeks, kept
<1>5. ASSUME k < 3
      PROVE  BuildIs(more, daily)
  <2>1. k + 1 \in 1..3
    BY <1>3, <1>5
  <2>2. /\ next \in Tabulated /\ DOMAIN next \subseteq DOMAIN g.daily \cup DOMAIN daily
        /\ \A d \in DOMAIN g.daily : InWindow(g, d) =>
             d \in DOMAIN next /\ next[d] = FeatureRows(Overlay(g.daily, daily))[Registry[k + 1]][d]
    BY <1>2, <2>1, ComputedIs DEF IsHeld
  <2> HIDE DEF next
  <2> DEFINE rows == Append(g.rows, next)
  <2>3. /\ rows \in Seq(Tabulated) /\ Len(rows) = k + 1 /\ rows[k + 1] = next
        /\ \A i \in 1..k : rows[i] = g.rows[i]
    BY <1>2, <2>2, AppendProperties DEF IsHeld
  <2>4. \A i \in 1..Len(rows) : i = k + 1 \/ i \in 1..k
    BY <1>3, <2>3
  <2> HIDE DEF rows
  <2>5. /\ more.pc = "writing" /\ more.start = g.start /\ more.end = g.end /\ more.seen = g.seen
        /\ more.daily = g.daily /\ more.rows = rows /\ more.crossed = g.crossed
        /\ DOMAIN more = DOMAIN g
    BY <1>1, <1>2 DEF IsHeld, rows
  <2> HIDE DEF more
  <2>6. ASSUME NEW i \in 1..Len(rows)
        PROVE  /\ DOMAIN rows[i] \subseteq DOMAIN g.daily \cup DOMAIN daily
               /\ ~g.crossed => \A d \in DOMAIN g.daily :
                    /\ d \in DOMAIN rows[i]
                    /\ rows[i][d] = FeatureRows(Overlay(g.daily, daily))[Registry[i]][d]
    <3>1. CASE i = k + 1
      BY <1>2, <2>2, <2>3, <3>1 DEF IsHeld
    <3>2. CASE i \in 1..k
      BY <1>2, <2>3, <3>2 DEF IsHeld
    <3> QED
      BY <2>4, <3>1, <3>2
  <2>7. IsHeld(more, daily)
    <3>1. Len(rows) \in 1..3
      BY <2>1, <2>3
    <3>2. \A d : InWindow(more, d) <=> InWindow(g, d)
      BY <2>5 DEF InWindow
    <3>3. IsRollup(more.daily) /\ more.crossed \in BOOLEAN
          /\ {"pc", "start", "end", "seen", "daily", "rows", "crossed"} \subseteq DOMAIN more
      BY <1>2, <2>5 DEF IsHeld
    <3>4. /\ \A d \in DOMAIN more.daily : InWindow(more, d)
          /\ \A d \in DOMAIN more.seen : InWindow(more, d) =>
                d \in DOMAIN more.daily /\ more.daily[d] = more.seen[d]
      BY <1>2, <2>5, <3>2 DEF IsHeld
    <3>5. more.rows \in Seq(Tabulated) /\ Len(more.rows) \in 1..3
          /\ (more.pc = "built" => Len(more.rows) = 3)
      BY <2>3, <2>5, <3>1
    <3>6. \A i \in 1..Len(more.rows) :
            /\ DOMAIN more.rows[i] \subseteq DOMAIN more.daily \cup DOMAIN daily
            /\ ~more.crossed => \A d \in DOMAIN more.daily :
                 /\ d \in DOMAIN more.rows[i]
                 /\ more.rows[i][d] = FeatureRows(Overlay(more.daily, daily))[Registry[i]][d]
      BY <2>5, <2>6
    <3> QED
      BY <3>3, <3>4, <3>5, <3>6 DEF IsHeld
  <2>8. IsWindow(more)
    BY <1>2, <2>5 DEF IsWindow
  <2> QED
    BY <2>5, <2>7, <2>8 DEF BuildIs
<1>6. ASSUME ~(k < 3)
      PROVE  BuildIs(done, daily)
  <2>1. k = 3
    <3> HIDE DEF k
    <3> QED
      BY <1>3, <1>6
  <2>2. IsWindow(done)
    BY <1>2 DEF IsWindow
  <2>3. \A d : InWindow(done, d) <=> InWindow(g, d)
    BY DEF InWindow
  <2>4. IsHeld(done, daily)
    BY <1>2, <2>1, <2>3 DEF IsHeld
  <2>5. IsTargets(done.targets) /\ done.pc = "built"
    BY <1>4
  <2> HIDE DEF done
  <2> QED
    BY <2>2, <2>4, <2>5 DEF BuildIs
<1> HIDE DEF more, done
<1>7. BuildIs(h, daily)
  BY <1>3, <1>5, <1>6
<1> HIDE DEF h
<1>9. \A c \in Builders : BuildIs(build'[c], daily)
  BY <1>1, <1>7 DEF Tables
<1> QED
  BY <1>1, <1>9 DEF Tables

(* Another build's commit adds days, and leaves what is held crossed.           *)
LEMMA CrossedIsHeld ==
  ASSUME NEW h, NEW committed, NEW more, IsHeld(h, committed), DOMAIN committed \subseteq DOMAIN more
  PROVE  IsHeld([h EXCEPT !.crossed = TRUE], more)
<1> DEFINE x == [h EXCEPT !.crossed = TRUE]
<1>1. /\ DOMAIN x = DOMAIN h /\ x.pc = h.pc /\ x.start = h.start /\ x.end = h.end /\ x.seen = h.seen
      /\ x.daily = h.daily /\ x.rows = h.rows /\ x.crossed = TRUE
  BY DEF IsHeld
<1> HIDE DEF x
<1>2. \A d : InWindow(x, d) <=> InWindow(h, d)
  BY <1>1 DEF InWindow
<1>3. \A k \in 1..Len(x.rows) : DOMAIN x.rows[k] \subseteq DOMAIN x.daily \cup DOMAIN more
  BY <1>1 DEF IsHeld
<1> QED
  BY <1>1, <1>2, <1>3 DEF IsHeld, x

LEMMA CommitKeepsTables ==
  ASSUME Tables, NEW b \in Builders, CommitBuild(b)
  PROVE  Tables'
<1> DEFINE g == build[b]
<1>1. /\ g.pc = "built" /\ daily' = Overlay(g.daily, daily) /\ targets' = Overlay(g.targets, targets)
      /\ features' = [f \in FeatureNames |->
           Overlay(g.rows[CHOOSE i \in DOMAIN Registry : Registry[i] = f], features[f])]
      /\ build' = [c \in Builders |->
           CASE c = b -> NoBuild
             [] c # b /\ build[c].pc \in {"writing", "built"} -> [build[c] EXCEPT !.crossed = TRUE]
             [] OTHER -> build[c]]
      /\ UNCHANGED <<today, iv, dv, rates, effort>>
  BY DEF CommitBuild
<1>2. IsHeld(g, daily) /\ IsTargets(g.targets) /\ Len(g.rows) = 3
  BY <1>1 DEF Tables, BuildIs, IsHeld
<1>3. IsRollup(daily') /\ IsTargets(targets')
  <2>1. IsRollup(g.daily) /\ IsRollup(daily) /\ IsTargets(targets)
    BY <1>2 DEF IsHeld, Tables
  <2> QED
    BY <1>1, <1>2, <2>1, OverlaidTables
<1>4. DOMAIN daily' = DOMAIN g.daily \cup DOMAIN daily
  BY <1>1 DEF Overlay
<1>5. ASSUME NEW f \in FeatureNames
      PROVE  IsTable(features'[f]) /\ DOMAIN features'[f] \subseteq DOMAIN daily'
  <2> DEFINE k == CHOOSE i \in DOMAIN Registry : Registry[i] = f
  <2>1. k \in 1..3
    BY RegistryIs
  <2> HIDE DEF k
  <2> DEFINE r == g.rows[k]
  <2>2. r \in Tabulated /\ DOMAIN r \subseteq DOMAIN g.daily \cup DOMAIN daily
    BY <1>2, <2>1 DEF IsHeld
  <2> HIDE DEF r
  <2>3. features'[f] = Overlay(r, features[f])
    BY <1>1 DEF k, r
  <2>4. IsTable(Overlay(r, features[f]))
    BY <2>2, TabulatedIs, OverlaidTables DEF Tables
  <2>5. DOMAIN Overlay(r, features[f]) = DOMAIN r \cup DOMAIN features[f]
    BY DEF Overlay
  <2> QED
    BY <1>4, <2>2, <2>3, <2>4, <2>5 DEF Tables
<1>6. \A c \in Builders : BuildIs(build'[c], daily')
  <2> SUFFICES ASSUME NEW c \in Builders PROVE BuildIs(build'[c], daily')
    OBVIOUS
  <2>1. CASE c = b
    BY <1>1, <2>1 DEF BuildIs, NoBuild
  <2>2. CASE c # b /\ build[c].pc \in {"writing", "built"}
    <3> DEFINE x == [build[c] EXCEPT !.crossed = TRUE]
    <3>1. build'[c] = x
      BY <1>1, <2>2
    <3>2. IsWindow(build[c]) /\ IsHeld(build[c], daily) /\ (build[c].pc = "built" => IsTargets(build[c].targets))
      BY <2>2 DEF Tables, BuildIs
    <3>3. IsHeld(x, daily')
      BY <1>4, <3>2, CrossedIsHeld
    <3>4. x.pc = build[c].pc /\ x.start = build[c].start /\ x.end = build[c].end /\ x.seen = build[c].seen
      BY <3>2 DEF IsHeld
    <3>5. x.targets = build[c].targets
      OBVIOUS
    <3> HIDE DEF x
    <3>6. IsWindow(x)
      BY <3>2, <3>4 DEF IsWindow
    <3> QED
      BY <2>2, <3>1, <3>2, <3>3, <3>4, <3>5, <3>6 DEF BuildIs
  <2>3. CASE c # b /\ build[c].pc \notin {"writing", "built"}
    <3>1. build'[c] = build[c]
      BY <1>1, <2>3
    <3>2. BuildIs(build[c], daily)
      BY DEF Tables
    <3> QED
      BY <2>3, <3>1, <3>2 DEF BuildIs
  <2> QED
    BY <2>1, <2>2, <2>3
<1>7. DOMAIN build' = Builders
  BY <1>1
<1> QED
  BY <1>1, <1>3, <1>5, <1>6, <1>7 DEF Tables

LEMMA DieKeepsTables ==
  ASSUME Tables, NEW b \in Builders, DieBuild(b)
  PROVE  Tables'
<1>1. /\ build' = [build EXCEPT ![b] = NoBuild] /\ effort' \in Nat
      /\ UNCHANGED <<today, iv, dv, rates, daily, features, targets>>
  BY DEF DieBuild, Spend, Tables
<1>2. DOMAIN build' = Builders /\ \A c \in Builders : build'[c] = IF c = b THEN NoBuild ELSE build[c]
  BY <1>1 DEF Tables
<1>3. \A c \in Builders : BuildIs(build'[c], daily)
  BY <1>2 DEF Tables, BuildIs, NoBuild
<1> QED
  BY <1>1, <1>2, <1>3 DEF Tables

(* The sweep and the request read the tables and move none of them.             *)
LEMMA ReadersKeepTables ==
  ASSUME Tables, effort' \in Nat,
         UNCHANGED <<today, iv, dv, rates, daily, features, targets, build>>
  PROVE  Tables'
BY DEF Tables

(* What a commit leaves is what its build holds: of its window, what its        *)
(* statement saw, and unless it was crossed the features of the whole.          *)
LEMMA CommitIsCurrent ==
  ASSUME Tables, Next, NEW b \in Builders, build[b].pc = "built", build'[b].pc = "idle", effort' = effort,
         NEW d \in Days, build[b].start <= d, d <= build[b].end, d \in DOMAIN build[b].seen
  PROVE  /\ daily'[d] = build[b].seen[d]
         /\ build[b].crossed \/ \A f \in FeatureNames : features'[f][d] = FeatureRows(daily')[f][d]
<1> DEFINE g == build[b]
<1>1. IsHeld(g, daily) /\ Len(g.rows) = 3
  BY DEF Tables, BuildIs, IsHeld
<1>2. effort \in Nat /\ DOMAIN build = Builders
  BY DEF Tables
<1>3. CommitBuild(b)
  <2>1. ASSUME UNCHANGED build PROVE FALSE
    BY <2>1
  <2>2. ASSUME NEW c \in Builders,
               StartBuild(c) \/ Roll(c) \/ WriteFeature(c) \/ CommitBuild(c) \/ DieBuild(c)
        PROVE  CommitBuild(b)
    <3>1. CASE StartBuild(c)
      BY <1>2, <3>1 DEF StartBuild
    <3>2. CASE Roll(c)
      BY <1>2, <3>2 DEF Roll
    <3>3. CASE WriteFeature(c)
      <4>1. build[c].pc = "writing" /\ c # b
        BY <3>3 DEF WriteFeature
      <4>2. build'[b] = build[b]
        BY <1>2, <3>3, <4>1 DEF WriteFeature
      <4> QED
        BY <4>2
    <3>4. CASE CommitBuild(c)
      <4>1. ASSUME c # b PROVE FALSE
        <5>1. build'[b] = [build[b] EXCEPT !.crossed = TRUE]
          BY <3>4, <4>1 DEF CommitBuild
        <5>2. build'[b].pc = "built"
          BY <1>1, <5>1 DEF IsHeld
        <5> QED
          BY <5>2
      <4> QED
        BY <3>4, <4>1
    <3>5. CASE DieBuild(c)
      BY <1>2, <3>5 DEF DieBuild, Spend
    <3> QED
      BY <2>2, <3>1, <3>2, <3>3, <3>4, <3>5
  <2> QED
    BY <2>1, <2>2 DEF Next, Read, PublishRate, NextDay, OpenRun, Scan, CloseRun, DieSweep,
                      AskSignals, ReadSummary, CountRows, ReadRows
<1>4. d \in DOMAIN g.daily /\ g.daily[d] = g.seen[d]
  BY <1>1 DEF IsHeld, InWindow
<1>5. daily' = Overlay(g.daily, daily)
  BY <1>3 DEF CommitBuild
<1>6. daily'[d] = g.seen[d]
  BY <1>4, <1>5 DEF Overlay
<1>7. ASSUME ~g.crossed, NEW f \in FeatureNames
      PROVE  features'[f][d] = FeatureRows(daily')[f][d]
  <2> DEFINE k == CHOOSE i \in DOMAIN Registry : Registry[i] = f
  <2>1. k \in 1..3 /\ Registry[k] = f
    BY RegistryIs
  <2>2. features'[f] = Overlay(g.rows[k], features[f])
    BY <1>3 DEF CommitBuild
  <2> HIDE DEF k
  <2>3. d \in DOMAIN g.rows[k] /\ g.rows[k][d] = FeatureRows(Overlay(g.daily, daily))[f][d]
    BY <1>1, <1>4, <1>7, <2>1 DEF IsHeld
  <2>4. features'[f][d] = g.rows[k][d]
    BY <2>2, <2>3 DEF Overlay
  <2> QED
    BY <1>5, <2>3, <2>4
<1> QED
  BY <1>6, <1>7

-----------------------------------------------------------------------------
(* The folds                                                                    *)

(* How many of the days of S come before d.                                     *)
Place(S, d) == Cardinality({e \in S : e < d})

(* Places count, and grow with the days.                                        *)
LEMMA PlacesGrow ==
  ASSUME NEW S \in SUBSET Int, IsFiniteSet(S), NEW d \in S, NEW e \in S
  PROVE  /\ Place(S, d) \in Nat /\ Place(S, d) < Cardinality(S) /\ Cardinality(S) \in Nat
         /\ d < e <=> Place(S, d) < Place(S, e)
<1>1. ASSUME NEW x \in S, NEW y \in S, x < y
      PROVE  Place(S, x) < Place(S, y)
  <2> DEFINE P == {z \in S : z < x}
             Prior == {z \in S : z < y}
  <2>1. IsFiniteSet(Prior) /\ P \in SUBSET Prior /\ x \in Prior /\ x \notin P
    <3>1. x \in Int /\ y \in Int /\ \A z \in S : z \in Int
      OBVIOUS
    <3>2. \A z \in S : z < x => z < y
      BY <1>1, <3>1
    <3>3. IsFiniteSet(Prior)
      BY FS_Subset
    <3>4. x \in Prior /\ x \notin P
      BY <1>1, <3>1
    <3> QED
      BY <3>2, <3>3, <3>4
  <2>2. Cardinality(P) <= Cardinality(Prior) /\ Cardinality(P) # Cardinality(Prior)
    BY <2>1, FS_Subset
  <2>3. Cardinality(P) \in Nat /\ Cardinality(Prior) \in Nat
    BY <2>1, CountIs
  <2> QED
    BY <2>2, <2>3 DEF Place
<1>2. ASSUME NEW x \in S
      PROVE  Place(S, x) \in Nat /\ Place(S, x) < Cardinality(S) /\ Cardinality(S) \in Nat
  <2> DEFINE P == {z \in S : z < x}
  <2>1. P \in SUBSET S /\ x \notin P
    OBVIOUS
  <2>2. Cardinality(P) <= Cardinality(S) /\ Cardinality(P) # Cardinality(S)
    BY <2>1, FS_Subset
  <2>3. Cardinality(P) \in Nat /\ Cardinality(S) \in Nat
    BY <2>1, CountIs
  <2> QED
    BY <2>2, <2>3 DEF Place
<1>3. Place(S, d) < Place(S, e) => d < e
  <2> SUFFICES ASSUME Place(S, d) < Place(S, e), ~(d < e) PROVE FALSE
    OBVIOUS
  <2>1. e < d \/ e = d
    OBVIOUS
  <2>2. Place(S, e) \in Nat /\ Place(S, d) \in Nat
    BY <1>2
  <2>3. CASE e < d
    BY <1>1, <2>2, <2>3
  <2>4. CASE e = d
    BY <2>2, <2>4
  <2> QED
    BY <2>1, <2>3, <2>4
<1> QED
  BY <1>1, <1>2, <1>3

(* Every number below the size of S is the place of a day.                      *)
LEMMA PlacesHaveNoGaps ==
  ASSUME NEW S \in SUBSET Int, IsFiniteSet(S), NEW n \in Nat, n < Cardinality(S)
  PROVE  \E d \in S : Place(S, d) = n
<1> DEFINE T == {d \in S : n <= Place(S, d)}
<1>0. \A d, e \in S : /\ Place(S, d) \in Nat /\ Place(S, d) < Cardinality(S) /\ Cardinality(S) \in Nat
                      /\ d < e <=> Place(S, d) < Place(S, e)
  BY PlacesGrow
<1>1. S # {} /\ Cardinality(S) \in Nat
  BY FS_EmptySet, FS_CardinalityType
<1>2. Max(S) \in S /\ \A e \in S : e <= Max(S)
  BY <1>1, MaxIs
<1>3. Place(S, Max(S)) = Cardinality(S) - 1
  <2>1. {e \in S : e < Max(S)} = S \ {Max(S)}
    <3>1. Max(S) \in Int
      BY <1>2
    <3>2. \A e \in S : e \in Int /\ e <= Max(S)
      BY <1>2
    <3>3. \A e \in S : e < Max(S) <=> e # Max(S)
      BY <3>1, <3>2
    <3> QED
      BY <3>3
  <2> QED
    BY <2>1, <1>2, FS_RemoveElement DEF Place
<1>4. T # {} /\ T \in SUBSET Int /\ IsFiniteSet(T)
  <2>1. Max(S) \in T
    BY <1>1, <1>2, <1>3
  <2>2. T \in SUBSET S
    OBVIOUS
  <2> QED
    BY <2>1, <2>2, FS_Subset
<1>5. PICK d \in T : \A e \in T : d <= e
  BY <1>4, MinIs
<1>6. d \in S /\ n <= Place(S, d) /\ Place(S, d) \in Nat
  BY <1>0
<1>7. Place(S, d) <= n
  <2> DEFINE P == {e \in S : e < d}
  <2> SUFFICES ASSUME ~(Place(S, d) <= n) PROVE FALSE
    OBVIOUS
  <2>1. P \in SUBSET Int /\ IsFiniteSet(P) /\ Cardinality(P) = Place(S, d) /\ P # {}
    <3>1. P \in SUBSET S /\ Cardinality(P) = Place(S, d)
      BY DEF Place
    <3>2. IsFiniteSet(P)
      BY <3>1, FS_Subset
    <3>3. P # {}
      <4> SUFFICES ASSUME P = {} PROVE FALSE
        OBVIOUS
      <4>1. Place(S, d) = 0
        BY <3>1, FS_EmptySet
      <4> QED
        BY <4>1, <1>6
    <3> QED
      BY <3>1, <3>2, <3>3
  <2>2. PICK e \in P : \A x \in P : x <= e
    BY <2>1, MaxIs
  <2>3. e \in S /\ e < d /\ e \notin T
    BY <1>5
  <2>4. Place(S, e) < n
    BY <2>3, <1>0
  <2>5. {x \in S : x < e} = P \ {e}
    <3>1. \A x \in S : x \in Int /\ (x < d => x <= e)
      BY <2>2
    <3>2. d \in Int /\ e \in Int /\ e < d
      BY <2>3, <1>6
    <3>3. \A x \in S : x < e <=> (x < d /\ x # e)
      BY <3>1, <3>2
    <3> QED
      BY <3>3
  <2>6. Place(S, e) = Place(S, d) - 1
    <3>1. Cardinality(P \ {e}) = Cardinality(P) - 1
      BY <2>1, <2>2, FS_RemoveElement
    <3> QED
      BY <3>1, <2>1, <2>5 DEF Place
  <2> QED
    BY <2>3, <2>4, <2>6, <1>0, <1>6
<1> QED
  BY <1>6, <1>7


(* What a quotient is.                                                          *)
LEMMA QuotientIs ==
  ASSUME NEW c \in Nat, NEW n \in Nat \ {0}
  PROVE  /\ c \div n \in Nat /\ n * (c \div n) <= c /\ c < n * (c \div n) + n
OBVIOUS

(* Blocks of one size, one after the other.                                     *)
LEMMA BlocksAre ==
  ASSUME NEW n \in Nat \ {0}, NEW size \in Nat \ {0}, NEW k \in 1..n
  PROVE  /\ (k - 1) * size \in Nat /\ k * size \in Nat /\ n * size \in Nat
         /\ (k - 1) * size < k * size /\ k * size <= n * size
         /\ \A l \in 1..n : k < l => k * size <= (l - 1) * size
<1>1. \A a, b \in Nat : a <= b => a * size \in Nat /\ b * size \in Nat /\ a * size <= b * size
  OBVIOUS
<1>2. k - 1 \in Nat /\ k \in Nat /\ (k - 1) * size + size = k * size
  OBVIOUS
<1>3. \A l \in 1..n : l - 1 \in Nat /\ l \in Nat
  OBVIOUS
<1> QED
  BY <1>1, <1>2, <1>3

(* The folds of a split: every one tests some days, and trains on enough of     *)
(* those whose targets end before the first of them; they test, one after the   *)
(* other, each day from the first of all.                                       *)
LEMMA FoldsAre ==
  ASSUME NEW days \in SUBSET Int, IsFiniteSet(days), NEW h \in Nat, Splits(days, h) # << >>
  PROVE  LET folds == Splits(days, h)
         IN /\ \A k \in DOMAIN folds : \A d \in folds[k].train, e \in folds[k].test : d + h < e
            /\ \A k \in DOMAIN folds : Cardinality(folds[k].train) >= MinTrain /\ folds[k].test # {}
            /\ \A d \in days : (\E k \in DOMAIN folds : d \in folds[k].test)
                               <=> d >= Min(folds[1].test)
            /\ \A k, l \in DOMAIN folds : k < l => Max(folds[k].test) < Min(folds[l].test)
<1> DEFINE enough == {d \in days : Cardinality(Train(days, d, h)) >= MinTrain}
           testable == {d \in days : enough # {} /\ d >= Min(enough)}
           block == Cardinality(testable) \div NFolds
           Test(k) == {d \in testable : /\ Place(testable, d) >= (k - 1) * block
                                        /\ k = NFolds \/ Place(testable, d) < k * block}
           folds == Splits(days, h)
<1>0. NFolds \in Nat \ {0} /\ MinTrain \in Nat
  BY SignalsAssumption
<1>1. /\ block # 0
      /\ folds = [k \in 1..NFolds |-> [test |-> Test(k), train |-> Train(days, Min(Test(k)), h)]]
  BY DEF Splits, Place
<1>2. /\ enough \in SUBSET days /\ testable \in SUBSET days
      /\ IsFiniteSet(enough) /\ IsFiniteSet(testable)
  BY FS_Subset
<1>3. Cardinality(testable) \in Nat
  BY <1>2, FS_CardinalityType
<1>4. block \in Nat \ {0} /\ NFolds * block <= Cardinality(testable)
  BY <1>0, <1>1, <1>3, QuotientIs
<1>5. enough # {} /\ testable # {}
  <2> SUFFICES ASSUME testable = {} PROVE FALSE
    OBVIOUS
  <2>1. Cardinality(testable) = 0
    BY FS_EmptySet
  <2>2. NFolds * block <= 0
    BY <1>4, <2>1
  <2> HIDE DEF block
  <2> QED
    BY <1>0, <1>4, <2>2
<1>6. Min(enough) \in enough /\ \A e \in enough : Min(enough) <= e
  BY <1>2, <1>5, MinIs
<1>7. Min(enough) \in testable /\ \A d \in testable : Min(enough) <= d
  BY <1>6
<1>8. \A d, e \in testable : /\ Place(testable, d) \in Nat
                             /\ d < e <=> Place(testable, d) < Place(testable, e)
  BY <1>2, PlacesGrow
<1>9. \A n \in Nat : n < Cardinality(testable) => \E d \in testable : Place(testable, d) = n
  BY <1>2, PlacesHaveNoGaps
<1> HIDE DEF enough, block, testable
<1>10. ASSUME NEW k \in 1..NFolds
       PROVE  /\ (k - 1) * block \in Nat /\ k * block \in Nat /\ (k - 1) * block < k * block
              /\ k * block <= Cardinality(testable)
              /\ \A l \in 1..NFolds : k < l => k * block <= (l - 1) * block
  <2>1. /\ (k - 1) * block \in Nat /\ k * block \in Nat /\ NFolds * block \in Nat
        /\ (k - 1) * block < k * block /\ k * block <= NFolds * block
        /\ \A l \in 1..NFolds : k < l => k * block <= (l - 1) * block
    BY <1>0, <1>4, BlocksAre
  <2>2. k * block <= Cardinality(testable)
    BY <2>1, <1>4, <1>3
  <2> QED
    BY <2>1, <2>2
<1>11. ASSUME NEW k \in 1..NFolds
       PROVE  /\ Test(k) # {} /\ Min(Test(k)) \in Test(k) /\ Max(Test(k)) \in Test(k)
              /\ \A d \in Test(k) : Min(Test(k)) <= d
  <2>1. /\ (k - 1) * block \in Nat /\ k * block \in Nat /\ (k - 1) * block < k * block
        /\ k * block <= Cardinality(testable)
    BY <1>10
  <2>2. (k - 1) * block < Cardinality(testable)
    BY <2>1, <1>3
  <2>3. PICK d \in testable : Place(testable, d) = (k - 1) * block
    BY <1>9, <2>1, <2>2
  <2>4. d \in Test(k)
    BY <2>1, <2>3
  <2>5. Test(k) \in SUBSET Int /\ IsFiniteSet(Test(k))
    <3>1. Test(k) \in SUBSET testable
      OBVIOUS
    <3> QED
      BY <3>1, <1>2, FS_Subset
  <2> HIDE DEF Test
  <2> QED
    BY <2>4, <2>5, MinIs, MaxIs
<1>12. ASSUME NEW k \in 1..NFolds, NEW l \in 1..NFolds, k < l, NEW d \in Test(k), NEW e \in Test(l)
       PROVE  d < e
  <2>1. k # NFolds /\ Place(testable, d) < k * block /\ (l - 1) * block <= Place(testable, e)
    BY <1>0, <1>12
  <2>2. k * block \in Nat /\ k * block <= (l - 1) * block /\ (l - 1) * block \in Nat
    BY <1>10, <1>12
  <2>3. Place(testable, d) \in Nat /\ Place(testable, e) \in Nat
    BY <1>8
  <2>4. Place(testable, d) < Place(testable, e)
    BY <2>1, <2>2, <2>3
  <2> QED
    BY <2>4, <1>8
<1>13. ASSUME NEW d \in testable
       PROVE  \E k \in 1..NFolds : d \in Test(k)
  <2> DEFINE p == Place(testable, d)
             q == p \div block
  <2>1. p \in Nat
    BY <1>8
  <2>2. q \in Nat /\ block * q <= p /\ p < block * q + block
    BY <2>1, <1>4, QuotientIs
  <2>3. block * q = q * block /\ block * q + block = (q + 1) * block
    <3> HIDE DEF q
    <3> QED
      BY <2>2, <1>4
  <2>4. CASE q + 1 <= NFolds
    <3>1. q + 1 \in 1..NFolds /\ (q + 1) - 1 = q
      BY <2>2, <2>4, <1>0
    <3>2. p >= q * block /\ p < (q + 1) * block
      BY <2>1, <2>2, <2>3
    <3> HIDE DEF p, q
    <3>3. d \in Test(q + 1)
      BY <3>1, <3>2 DEF p
    <3> QED
      BY <3>1, <3>3
  <2>5. CASE ~(q + 1 <= NFolds)
    <3>1. NFolds - 1 \in Nat /\ NFolds - 1 <= q
      BY <2>2, <2>5, <1>0
    <3> HIDE DEF q
    <3>2. (NFolds - 1) * block <= q * block
      BY <3>1, <2>2, <1>4
    <3>3. q * block \in Nat /\ (NFolds - 1) * block \in Nat
      BY <3>1, <2>2, <1>4
    <3>4. p >= (NFolds - 1) * block
      BY <3>2, <3>3, <2>1, <2>2, <2>3
    <3> QED
      BY <3>4, <1>0
  <2> QED
    BY <2>4, <2>5
<1>14. Min(Test(1)) = Min(enough)
  <2>1. 1 \in 1..NFolds
    BY <1>0
  <2>2. Place(testable, Min(enough)) = 0
    <3>1. {e \in testable : e < Min(enough)} = {}
      <4>1. Min(enough) \in Int /\ \A e \in testable : e \in Int /\ Min(enough) <= e
        BY <1>7, <1>2
      <4> QED
        BY <4>1
    <3> QED
      BY <3>1, FS_EmptySet DEF Place
  <2>3. Min(enough) \in Test(1)
    BY <1>7, <2>2, <1>4
  <2>4. Min(Test(1)) \in testable /\ Min(Test(1)) <= Min(enough)
    BY <1>11, <2>1, <2>3
  <2>5. Min(enough) <= Min(Test(1))
    BY <1>7, <2>4
  <2>6. Min(enough) \in Int /\ Min(Test(1)) \in Int
    BY <2>4, <1>7, <1>2
  <2> HIDE DEF Test
  <2> QED
    BY <2>4, <2>5, <2>6
<1>15. ASSUME NEW k \in 1..NFolds
       PROVE  Cardinality(Train(days, Min(Test(k)), h)) >= MinTrain
  <2>1. Min(Test(k)) \in testable
    BY <1>11
  <2>2. Min(enough) <= Min(Test(k)) /\ Min(enough) \in Int /\ Min(Test(k)) \in Int
    BY <2>1, <1>7, <1>2
  <2> HIDE DEF Test
  <2>3. Train(days, Min(enough), h) \in SUBSET Train(days, Min(Test(k)), h)
    <3>1. \A d \in days : d \in Int
      OBVIOUS
    <3>2. \A d \in days : d < Min(enough) - h => d < Min(Test(k)) - h
      BY <3>1, <2>2
    <3> QED
      BY <3>2 DEF Train
  <2>4. IsFiniteSet(Train(days, Min(Test(k)), h))
    BY FS_Subset DEF Train
  <2>5. Cardinality(Train(days, Min(enough), h)) >= MinTrain
    BY <1>6 DEF enough
  <2>6. /\ Cardinality(Train(days, Min(enough), h)) <= Cardinality(Train(days, Min(Test(k)), h))
        /\ Cardinality(Train(days, Min(enough), h)) \in Nat
        /\ Cardinality(Train(days, Min(Test(k)), h)) \in Nat
    BY <2>3, <2>4, CountIs
  <2> QED
    BY <2>5, <2>6, <1>0
<1>16. ASSUME NEW k \in 1..NFolds, NEW d \in Train(days, Min(Test(k)), h), NEW e \in Test(k)
       PROVE  d + h < e
  <2>1. Min(Test(k)) \in Int /\ Min(Test(k)) <= e /\ e \in Int
    BY <1>11, <1>2
  <2>2. d \in Int /\ d < Min(Test(k)) - h
    BY DEF Train
  <2> HIDE DEF Test
  <2> QED
    BY <2>1, <2>2
<1>17. ASSUME NEW k \in 1..NFolds, NEW l \in 1..NFolds, k < l
       PROVE  Max(Test(k)) < Min(Test(l))
  BY <1>11, <1>12, <1>17
<1>18. ASSUME NEW d \in days
       PROVE  (\E k \in 1..NFolds : d \in Test(k)) <=> d >= Min(Test(1))
  <2>1. (\E k \in 1..NFolds : d \in Test(k)) <=> d \in testable
    BY <1>13
  <2>2. d \in testable <=> d >= Min(enough)
    BY <1>5 DEF testable
  <2> QED
    BY <2>1, <2>2, <1>14
<1>19. 1 \in 1..NFolds
  BY <1>0
<1>20. /\ DOMAIN folds = 1..NFolds
       /\ \A k \in 1..NFolds : folds[k].test = Test(k) /\ folds[k].train = Train(days, Min(Test(k)), h)
  BY <1>1
<1> HIDE DEF folds, Test
<1>21. \A k \in DOMAIN folds : \A d \in folds[k].train, e \in folds[k].test : d + h < e
  BY <1>16, <1>20
<1>22. \A k \in DOMAIN folds : Cardinality(folds[k].train) >= MinTrain /\ folds[k].test # {}
  BY <1>11, <1>15, <1>20
<1>23. \A d \in days : (\E k \in DOMAIN folds : d \in folds[k].test) <=> d >= Min(folds[1].test)
  BY <1>18, <1>19, <1>20
<1>24. \A k, l \in DOMAIN folds : k < l => Max(folds[k].test) < Min(folds[l].test)
  BY <1>17, <1>20
<1> QED
  BY <1>21, <1>22, <1>23, <1>24 DEF folds

LEMMA TablesKeepFoldsApart == Tables => FoldsDoNotLeak
<1> SUFFICES ASSUME Tables, NEW h \in Horizons
             PROVE  LET weeks == {x[1] : x \in {y \in Known(targets) : y[2] = h}}
                        folds == Splits(weeks, h)
                    IN folds # << >> =>
                         /\ \A k \in DOMAIN folds : \A d \in folds[k].train, e \in folds[k].test : d + h < e
                         /\ \A k \in DOMAIN folds : Cardinality(folds[k].train) >= MinTrain /\ folds[k].test # {}
                         /\ \A d \in weeks : (\E k \in DOMAIN folds : d \in folds[k].test)
                                             <=> d >= Min(folds[1].test)
                         /\ \A k, l \in DOMAIN folds : k < l => Max(folds[k].test) < Min(folds[l].test)
  BY DEF FoldsDoNotLeak
<1> DEFINE weeks == {x[1] : x \in {y \in Known(targets) : y[2] = h}}
<1>1. weeks \in SUBSET Days
  BY DEF Tables, IsTargets, Known
<1>2. weeks \in SUBSET Int /\ IsFiniteSet(weeks)
  BY <1>1, DaysAre
<1>3. h \in Nat
  BY FeaturesAssumption
<1> HIDE DEF weeks
<1>4. Splits(weeks, h) # << >> =>
        LET folds == Splits(weeks, h)
        IN /\ \A k \in DOMAIN folds : \A d \in folds[k].train, e \in folds[k].test : d + h < e
           /\ \A k \in DOMAIN folds : Cardinality(folds[k].train) >= MinTrain /\ folds[k].test # {}
           /\ \A d \in weeks : (\E k \in DOMAIN folds : d \in folds[k].test)
                               <=> d >= Min(folds[1].test)
           /\ \A k, l \in DOMAIN folds : k < l => Max(folds[k].test) < Min(folds[l].test)
  BY <1>2, <1>3, FoldsAre
<1> QED
  BY <1>4 DEF weeks

-----------------------------------------------------------------------------
(* Answers                                                                      *)

LEMMA RateAtIs ==
  ASSUME NEW r, IsPrice(r), NEW day \in Int, RateAt(r, day) # NULL
  PROVE  /\ RateAt(r, day) \in DOMAIN r /\ RateAt(r, day) \in Int /\ RateAt(r, day) <= day
         /\ \A later \in Int : day <= later => RateAt(r, later) # NULL
<1> DEFINE S(d) == {w \in DOMAIN r : w <= d}
<1>1. \A d \in Int : RateAt(r, d) = IF S(d) = {} THEN NULL ELSE Max(S(d))
  BY DEF RateAt, LastOnOrBefore
<1>2. \A d \in Int : S(d) \subseteq DOMAIN r /\ S(d) \in SUBSET Int /\ IsFiniteSet(S(d))
  BY DaysAre DEF IsPrice
<1>3. S(day) # {}
  BY <1>1
<1>4. \A d \in Int : S(d) # {} => Max(S(d)) \in S(d)
  BY <1>2, MaxIs
<1>5. \A later \in Int : day <= later => S(later) # {}
  <2>1. \A later \in Int : day <= later => S(day) \subseteq S(later)
    <3>1. \A w \in DOMAIN r : w \in Int
      BY DaysAre DEF IsPrice
    <3>2. \A later \in Int : day <= later => \A w \in DOMAIN r : w <= day => w <= later
      BY <3>1
    <3> QED
      BY <3>2
  <2> QED
    BY <2>1, <1>3
<1>6. \A d \in Int : S(d) # {} => RateAt(r, d) \in S(d)
  BY <1>1, <1>4
<1>7. \A d \in Int : S(d) # {} => RateAt(r, d) # NULL
  BY <1>2, <1>6, FeaturesAssumption
<1>8. RateAt(r, day) \in DOMAIN r /\ RateAt(r, day) <= day
  BY <1>3, <1>6
<1>9. RateAt(r, day) \in Int
  BY <1>2, <1>3, <1>6
<1> HIDE DEF S
<1> QED
  BY <1>5, <1>7, <1>8, <1>9

(* What is measured after an event is an integer, or missing; and it is of the  *)
(* rates up to the end of its window.                                           *)
LEMMA MeasureIs ==
  ASSUME NEW r, IsPrice(r), NEW s \in Int, NEW t \in Int, s + OutcomeWindow <= t
  PROVE  /\ Measure(r, s) \in OptionalInt
         /\ Measure(r, s) = Measure([w \in DOMAIN r |-> IF w <= t THEN r[w] ELSE NULL], s)
<1> DEFINE end == s + OutcomeWindow
           r2 == [w \in DOMAIN r |-> IF w <= t THEN r[w] ELSE NULL]
           a == RateAt(r, s)
           b == RateAt(r, end)
           late == {w \in DOMAIN r : w >= end}
<1>1. end \in Int /\ s <= end /\ end <= t
  BY AnalogsAssumption
<1>2. DOMAIN r2 = DOMAIN r /\ \A w \in DOMAIN r : w <= t => r2[w] = r[w]
  OBVIOUS
<1> HIDE DEF r2
<1>3. Measure(r, s) = IF late = {} \/ a = NULL THEN NULL ELSE Return(r[a], r[b])
  BY DEF Measure
<1>4. RateAt(r2, s) = a /\ RateAt(r2, end) = b
  BY <1>2 DEF RateAt
<1>5. Measure(r2, s) = IF late = {} \/ a = NULL THEN NULL ELSE Return(r2[a], r2[b])
  BY <1>2, <1>4 DEF Measure
<1> HIDE DEF late, a, b
<1>6. CASE a = NULL
  BY <1>3, <1>5, <1>6 DEF r2, OptionalInt
<1>7. CASE a # NULL
  <2>1. a \in DOMAIN r /\ a \in Int /\ a <= s /\ b # NULL
    BY <1>1, <1>7, RateAtIs DEF a, b
  <2>2. b \in DOMAIN r /\ b \in Int /\ b <= end
    BY <1>1, <2>1, RateAtIs DEF b
  <2>3. a <= t /\ b <= t
    BY <1>1, <2>1, <2>2
  <2>4. r2[a] = r[a] /\ r2[b] = r[b]
    BY <1>2, <2>1, <2>2, <2>3
  <2>5. r[a] \in OptionalInt /\ r[b] \in OptionalInt
    BY <2>1, <2>2 DEF IsPrice
  <2>6. Return(r[a], r[b]) \in OptionalInt
    BY <2>5, ReturnIs
  <2> QED
    BY <1>3, <1>5, <2>4, <2>6 DEF r2, OptionalInt
<1> QED
  BY <1>6, <1>7

LEMMA ThroughIs ==
  ASSUME NEW s, NEW t \in Int, DOMAIN s \subseteq Int
  PROVE  /\ DOMAIN Through(s, t) = {d \in DOMAIN s : d <= t}
         /\ \A d \in DOMAIN s : d <= t => Through(s, t)[d] = s[d]
         /\ Through(Through(s, t), t) = Through(s, t)
<1> DEFINE S == {d \in DOMAIN s : d <= t}
<1>1. Through(s, t) = [d \in S |-> s[d]]
  BY DEF Through, Restrict
<1>2. Through(Through(s, t), t) = [d \in {e \in S : e <= t} |-> [x \in S |-> s[x]][d]]
  BY <1>1 DEF Through, Restrict
<1>3. {e \in S : e <= t} = S
  OBVIOUS
<1> QED
  BY <1>1, <1>2, <1>3

LEMMA ConditionIsOfThePast ==
  ASSUME NEW s, NEW t \in Int, DOMAIN s \subseteq Int
  PROVE  Condition(Through(s, t), t) = Condition(s, t)
<1> DEFINE u == Through(s, t)
           Value(r, d) == IF d \in DOMAIN r THEN r[d].value ELSE NULL
<1>1. DOMAIN u = {d \in DOMAIN s : d <= t} /\ \A d \in DOMAIN s : d <= t => u[d] = s[d]
  BY ThroughIs
<1>2. t - Lookback \in Int /\ t - Lookback <= t /\ t <= t
  BY AnalogsAssumption
<1> HIDE DEF u
<1>3. \A d \in Int : d <= t => (d \in DOMAIN u <=> d \in DOMAIN s)
  BY <1>1
<1>4. \A d \in Int : d <= t => Value(u, d) = Value(s, d)
  BY <1>1, <1>3
<1>5. (IF t \in DOMAIN u THEN u[t].anomaly ELSE NULL) = (IF t \in DOMAIN s THEN s[t].anomaly ELSE NULL)
  BY <1>1, <1>2, <1>3
<1>6. \A r : Condition(r, t) = [change |-> Return(Value(r, t - Lookback), Value(r, t)),
                                anomaly |-> IF t \in DOMAIN r THEN r[t].anomaly ELSE NULL]
  BY DEF Condition
<1> HIDE DEF Value
<1>7. Value(u, t - Lookback) = Value(s, t - Lookback) /\ Value(u, t) = Value(s, t)
  BY <1>2, <1>4
<1>8. Condition(u, t) = Condition(s, t)
  BY <1>5, <1>6, <1>7
<1> QED
  BY <1>8 DEF u

LEMMA NearestAreCandidates ==
  ASSUME NEW vectors, NEW events, NEW t
  PROVE  KNearest(vectors, events, t) \subseteq events
<1> DEFINE scored == {[key |-> e, distance |-> Distance(vectors[e], vectors[t], spread)] :
                        e \in events, spread \in {Spread(vectors)}}
           Nearer(m, n) == \/ m.distance < n.distance
                           \/ m.distance = n.distance /\ m.key < n.key
           nearest == {n \in scored : Cardinality({m \in scored : Nearer(m, n)}) < Neighbours}
<1>1. \A n \in scored : n.key \in events
  OBVIOUS
<1>2. KNearest(vectors, events, t) = {n.key : n \in nearest}
  BY DEF KNearest
<1>3. nearest \subseteq scored
  OBVIOUS
<1> HIDE DEF scored, nearest
<1> QED
  BY <1>1, <1>2, <1>3

(* What a query asks of a day, given the rows it sees: the events it picks.     *)
Seen(tab, t) == [f \in FeatureNames |-> Through(tab[f], t)]
StoredRuns(seen) == [d \in DOMAIN seen.days_below |-> seen.days_below[d].value]
Began(seen) == Starts(Detections(StoredRuns(seen)))
Own(seen) == IF InCondition(StoredRuns(seen)) THEN Max(Began(seen)) ELSE NULL
Candidates(seen, t) == Eligible(Began(seen), Own(seen), t) \cap DOMAIN Vectors(seen)
Picked(seen, t) ==
  IF Own(seen) # NULL /\ t \in DOMAIN Vectors(seen)
  THEN KNearest(Vectors(seen), Candidates(seen, t), t) ELSE {}
Gate(seen, outcomes) ==
  IF Own(seen) = NULL THEN Verdict("no_current_event", 0, 0) ELSE Evaluate(outcomes)
Answer(seen, condition, outcomes) ==
  [condition |-> condition, own |-> Own(seen),
   raw |-> Cardinality(Detections(StoredRuns(seen))), collapsed |-> Cardinality(Began(seen)),
   outcomes |-> outcomes, gate |-> Gate(seen, outcomes),
   summary |-> IF Gate(seen, outcomes).result = "passed" THEN Summary(outcomes) ELSE NULL]

LEMMA QueryIs ==
  ASSUME NEW tab, NEW r, NEW t
  PROVE  Query(tab, r, t) = Answer(Seen(tab, t), Condition(tab.discharge_mean, t),
                                   [s \in Picked(Seen(tab, t), t) |-> Measure(r, s)])
BY DEF Query, Answer, Seen, StoredRuns, Began, Own, Candidates, Picked, Gate

LEMMA PickedAreOver ==
  ASSUME NEW seen, NEW t
  PROVE  \A s \in Picked(seen, t) : /\ s \in Began(seen) /\ s + OutcomeWindow <= t
                                    /\ s + OutcomeWindow < Own(seen) /\ Own(seen) # NULL
                                    /\ t \in DOMAIN Vectors(seen)
<1>1. KNearest(Vectors(seen), Candidates(seen, t), t) \subseteq Candidates(seen, t)
  BY NearestAreCandidates
<1>2. \A s \in Picked(seen, t) : /\ s \in Candidates(seen, t) /\ Own(seen) # NULL
                                 /\ t \in DOMAIN Vectors(seen)
  BY <1>1 DEF Picked
<1> QED
  BY <1>2 DEF Candidates, Eligible

(* The tables as a query finds them.                                            *)
LEMMA SeenIs ==
  ASSUME Tables, NEW t \in 1..today
  PROVE  LET seen == Seen(features, t)
             runsOf == [d \in DOMAIN features.days_below |-> features.days_below[d].value]
         IN /\ t \in Int
            /\ DOMAIN runsOf \subseteq Days
            /\ DOMAIN StoredRuns(seen) = {d \in DOMAIN runsOf : d <= t}
            /\ \A d \in DOMAIN StoredRuns(seen) : StoredRuns(seen)[d] = runsOf[d]
            /\ \A d \in DOMAIN runsOf : runsOf[d] \in OptionalInt
<1>1. t \in Int
  BY ResearchAssumption DEF Tables, Days
<1> DEFINE table == features.days_below
           seen == Seen(features, t)
           runsOf == [d \in DOMAIN table |-> table[d].value]
<1>2. IsTable(table)
  BY DEF Tables, FeatureNames
<1>3. DOMAIN table \subseteq Days /\ DOMAIN table \subseteq Int /\ \A d \in DOMAIN table : table[d].value \in OptionalInt
  BY <1>2, DaysAre DEF IsTable, FeatureRow
<1>4. seen.days_below = Through(table, t)
  BY DEF Seen, FeatureNames
<1> HIDE DEF seen, table
<1>5. /\ DOMAIN Through(table, t) = {d \in DOMAIN table : d <= t}
      /\ \A d \in DOMAIN table : d <= t => Through(table, t)[d] = table[d]
  BY <1>1, <1>3, ThroughIs
<1>6. StoredRuns(seen) = [d \in {e \in DOMAIN table : e <= t} |-> Through(table, t)[d].value]
  BY <1>4, <1>5 DEF StoredRuns
<1>7. /\ DOMAIN StoredRuns(seen) = {d \in DOMAIN runsOf : d <= t}
      /\ \A d \in DOMAIN StoredRuns(seen) : StoredRuns(seen)[d] = runsOf[d]
  BY <1>5, <1>6
<1> QED
  BY <1>1, <1>3, <1>7 DEF seen, table

LEMMA StartsAreDays ==
  ASSUME Tables, NEW t \in 1..today
  PROVE  LET seen == Seen(features, t)
         IN /\ Began(seen) \subseteq Detections(StoredRuns(seen))
            /\ Detections(StoredRuns(seen)) \subseteq Int
            /\ \A s \in Detections(StoredRuns(seen)) : s \in DOMAIN StoredRuns(seen) /\ s <= t
            /\ Own(seen) # NULL => Own(seen) \in Began(seen)
<1> DEFINE seen == Seen(features, t)
           detected == Detections(StoredRuns(seen))
<1>1. DOMAIN StoredRuns(seen) \subseteq Days /\ \A d \in DOMAIN StoredRuns(seen) : d <= t
  BY SeenIs
<1> HIDE DEF seen
<1>2. detected \subseteq DOMAIN StoredRuns(seen)
  BY DEF Detections, Known
<1>3. detected \in SUBSET Int /\ IsFiniteSet(detected)
  BY <1>1, <1>2, DaysAre
<1>4. Began(seen) \subseteq detected
  BY DEF Began, Starts
<1> HIDE DEF detected
<1>5. Own(seen) # NULL => Own(seen) \in Began(seen)
  <2> SUFFICES ASSUME Own(seen) # NULL PROVE Own(seen) \in Began(seen)
    OBVIOUS
  <2>1. InCondition(StoredRuns(seen)) /\ Own(seen) = Max(Began(seen))
    BY DEF Own
  <2>2. detected # {}
    BY <2>1 DEF InCondition, detected
  <2>3. Min(detected) \in detected /\ \A e \in detected : Min(detected) <= e
    BY <1>3, <2>2, MinIs
  <2>4. \A e \in detected : ~(e < Min(detected))
    <3>1. \A e \in detected : e \in Int /\ Min(detected) \in Int
      BY <1>3, <2>3
    <3> QED
      BY <3>1, <2>3
  <2>5. Min(detected) \in Began(seen)
    BY <2>3, <2>4 DEF Began, Starts, detected
  <2>6. Began(seen) \in SUBSET Int /\ IsFiniteSet(Began(seen))
    BY <1>3, <1>4, FS_Subset
  <2> QED
    BY <2>1, <2>5, <2>6, MaxIs
<1> QED
  BY <1>1, <1>2, <1>3, <1>4, <1>5 DEF seen, detected

LEMMA TablesAnswerFromThePast == Tables => \A answer \in Answers : FromThePast(answer)
<1> SUFFICES ASSUME Tables, NEW t \in 1..today
             PROVE  Query(features, rates, t) =
                      Query([f \in FeatureNames |-> Through(features[f], t)],
                            [w \in DOMAIN rates |-> IF w <= t THEN rates[w] ELSE NULL], t)
  BY DEF FromThePast, Answers
<1> DEFINE tab == [f \in FeatureNames |-> Through(features[f], t)]
           known == [w \in DOMAIN rates |-> IF w <= t THEN rates[w] ELSE NULL]
           seen == Seen(features, t)
<1>1. t \in Int
  BY SeenIs
<1>2. \A f \in FeatureNames : DOMAIN features[f] \subseteq Int
  BY DaysAre DEF Tables, IsTable
<1>3. \A f \in FeatureNames : tab[f] = Through(features[f], t) /\ Through(tab[f], t) = tab[f]
  BY <1>1, <1>2, ThroughIs
<1>4. Seen(tab, t) = seen
  BY <1>3 DEF Seen
<1>5. "discharge_mean" \in FeatureNames
  BY DEF FeatureNames
<1>6. Condition(tab.discharge_mean, t) = Condition(features.discharge_mean, t)
  <2>1. tab.discharge_mean = Through(features.discharge_mean, t)
    BY <1>5
  <2>2. Condition(Through(features.discharge_mean, t), t) = Condition(features.discharge_mean, t)
    BY <1>1, <1>2, <1>5, ConditionIsOfThePast
  <2> QED
    BY <2>1, <2>2
<1>7. \A s \in Picked(seen, t) : s \in Int /\ s + OutcomeWindow <= t
  BY StartsAreDays, PickedAreOver
<1>8. IsPrice(rates)
  BY DEF Tables
<1> HIDE DEF seen, tab
<1>9. \A s \in Picked(seen, t) : Measure(known, s) = Measure(rates, s)
  BY <1>1, <1>7, <1>8, MeasureIs
<1> HIDE DEF known
<1>10. [s \in Picked(seen, t) |-> Measure(known, s)] = [s \in Picked(seen, t) |-> Measure(rates, s)]
  BY <1>9
<1>11. Query(features, rates, t) = Answer(seen, Condition(features.discharge_mean, t),
                                          [s \in Picked(seen, t) |-> Measure(rates, s)])
  BY QueryIs DEF seen
<1>12. Query(tab, known, t) = Answer(Seen(tab, t), Condition(tab.discharge_mean, t),
                                     [s \in Picked(Seen(tab, t), t) |-> Measure(known, s)])
  BY QueryIs
<1>13. Query(tab, known, t) = Query(features, rates, t)
  BY <1>4, <1>6, <1>10, <1>11, <1>12
<1> QED
  BY <1>13 DEF tab, known

(* Between the first of two events that are apart and the second, the river is  *)
(* on record as not below: run lengths that never fall to zero grow by one a    *)
(* day, and the day before the second would be a detection.                     *)
LEMMA ZeroBetweenEvents ==
  ASSUME NEW r, NEW record, IsRunOf(r, record), DOMAIN record \subseteq Days,
         NEW stored, DOMAIN stored \subseteq DOMAIN r, \A d \in DOMAIN stored : stored[d] = r[d],
         NEW e \in Detections(stored), NEW s \in Starts(Detections(stored)), e < s,
         \A d \in DOMAIN r : d <= s => d \in DOMAIN stored
  PROVE  \E d \in e..s : d \in DOMAIN r /\ r[d] = 0
<1> SUFFICES ASSUME \A d \in e..s : d \in DOMAIN r => r[d] # 0 PROVE FALSE
  OBVIOUS
<1>1. DOMAIN r = DOMAIN record /\ DOMAIN r \subseteq Int
  BY DaysAre DEF IsRunOf
<1>2. /\ s \in DOMAIN r /\ e \in DOMAIN r /\ e \in Int /\ s \in Int
      /\ r[e] # NULL /\ r[s] # NULL /\ r[e] >= EntryRunLength /\ r[s] >= EntryRunLength
  BY <1>1 DEF Starts, Detections, Known
<1> DEFINE Counts(d) == d \in DOMAIN r /\ r[d] \in Nat /\ r[d] # 0
           Bad == {d \in e..s : ~Counts(d)}
<1>3. EntryRunLength \in Nat \ {0} /\ NULL \notin Int /\ Separation \in Nat \ {0}
  BY AnalogsAssumption, FeaturesAssumption
<1>4. ASSUME NEW d \in Int, e < d, d <= s, Counts(d)
      PROVE  Counts(d - 1) /\ r[d] = r[d - 1] + 1
  <2>1. d - 1 \in DOMAIN r /\ r[d - 1] # NULL /\ r[d] = r[d - 1] + 1
    <3>1. d \in DOMAIN record /\ e \in DOMAIN record
      BY <1>1, <1>2, <1>4
    <3>2. r[d] \notin {0, NULL}
      BY <1>3, <1>4
    <3> QED
      BY <1>4, <3>1, <3>2 DEF IsRunOf
  <2>2. d - 1 \in e..s
    BY <1>2, <1>4
  <2>3. r[d - 1] \in Nat
    BY <1>1, <2>1 DEF IsRunOf
  <2> QED
    BY <2>1, <2>2, <2>3
<1>5. e..s \in SUBSET Int /\ IsFiniteSet(e..s) /\ IsFiniteSet(Bad) /\ Bad \in SUBSET Int
  <2>1. e..s \in SUBSET Int /\ IsFiniteSet(e..s)
    BY <1>2, FS_Interval
  <2> QED
    BY <2>1, FS_Subset
<1>6. Counts(s)
  <2>1. s \in e..s /\ r[s] \in Nat \cup {NULL}
    BY <1>1, <1>2 DEF IsRunOf
  <2> QED
    BY <1>2, <2>1
<1>7. Bad = {}
  <2> SUFFICES ASSUME Bad # {} PROVE FALSE
    OBVIOUS
  <2>1. PICK b \in Bad : \A d \in Bad : d <= b
    BY <1>5, MaxIs
  <2>2. b \in Int /\ e <= b /\ b <= s /\ b # s /\ ~Counts(b)
    BY <1>2, <1>6
  <2>3. b + 1 \in Int /\ e < b + 1 /\ b + 1 <= s /\ b + 1 \in e..s /\ ~(b + 1 <= b) /\ (b + 1) - 1 = b
    BY <1>2, <2>2
  <2>4. Counts(b + 1)
    BY <2>1, <2>3
  <2> HIDE DEF Bad, Counts
  <2>5. Counts((b + 1) - 1)
    BY <1>4, <2>3, <2>4
  <2> QED
    BY <2>2, <2>3, <2>5
<1> DEFINE Low == {d \in e..(s - 1) : ~(r[d] >= EntryRunLength)}
<1>8. Low = {}
  <2> SUFFICES ASSUME Low # {} PROVE FALSE
    OBVIOUS
  <2>1. Low \in SUBSET Int /\ IsFiniteSet(Low)
    <3>1. e \in Int /\ s - 1 \in Int
      BY <1>2
    <3>2. e..(s - 1) \in SUBSET Int /\ IsFiniteSet(e..(s - 1))
      BY <3>1, FS_Interval
    <3> QED
      BY <3>2, FS_Subset
  <2>2. PICK b \in Low : \A d \in Low : b <= d
    BY <2>1, MinIs
  <2>3. b \in Int /\ e <= b /\ b <= s - 1 /\ ~(r[b] >= EntryRunLength) /\ b # e
    BY <1>2
  <2>4. /\ b - 1 \in e..(s - 1) /\ ~(b <= b - 1) /\ e < b /\ b <= s /\ b \in e..s /\ b - 1 \in e..s
    BY <1>2, <2>3
  <2>5. r[b - 1] >= EntryRunLength
    BY <2>2, <2>4
  <2>6. Counts(b)
    BY <1>7, <2>4
  <2>7. Counts(b - 1) /\ r[b] = r[b - 1] + 1
    BY <1>4, <2>3, <2>4, <2>6
  <2> QED
    BY <1>3, <2>3, <2>5, <2>7
<1>9. s - 1 \in Int /\ s - 1 \in e..(s - 1) /\ s - 1 \in e..s /\ s - 1 < s /\ s - 1 <= s /\ s - (s - 1) = 1
  BY <1>2
<1>10. r[s - 1] >= EntryRunLength /\ Counts(s - 1)
  BY <1>7, <1>8, <1>9
<1>11. s - 1 \in DOMAIN stored /\ stored[s - 1] = r[s - 1]
  BY <1>9, <1>10
<1>12. s - 1 \in Detections(stored)
  BY <1>3, <1>10, <1>11 DEF Detections, Known
<1>13. s - (s - 1) <= Separation
  BY <1>3, <1>9
<1> QED
  BY <1>9, <1>12, <1>13 DEF Starts

(* Where more than half of the outcomes go one way, so does their median.       *)
LEMMA MedianAgrees ==
  ASSUME NEW o, IsFiniteSet(DOMAIN o), DOMAIN o # {}, \A s \in DOMAIN o : o[s] \in Int,
         Evaluate(o).result = "passed", Known(o) = DOMAIN o
  PROVE  Cardinality({s \in DOMAIN o : o[s] * Summary(o).median > 0}) = Evaluate(o).consistent
<1> DEFINE n == Cardinality(DOMAIN o)
           U == {s \in DOMAIN o : o[s] > 0}
           D == {s \in DOMAIN o : o[s] < 0}
           up == Cardinality(U)
           down == Cardinality(D)
           c == Max({up, down})
           lo == (n + 1) \div 2
           hi == n \div 2 + 1
           m == Summary(o).median
<1>1. n \in Nat /\ n # 0
  BY FS_CardinalityType, FS_EmptySet
<1>2. up \in Nat /\ down \in Nat
  <2>1. U \in SUBSET DOMAIN o /\ D \in SUBSET DOMAIN o
    OBVIOUS
  <2> QED
    BY <2>1, CountIs
<1>3. Evaluate(o) = Verdict(IF n < MinAnalogs THEN "insufficient_analogs"
                            ELSE IF 100 * c < MinConsistency * n THEN "inconsistent_direction"
                            ELSE "passed", n, c)
  BY <1>1 DEF Evaluate
<1>4. Evaluate(o).consistent = c /\ ~(n < MinAnalogs) /\ ~(100 * c < MinConsistency * n)
  BY <1>3 DEF Verdict
<1>5. m = OrderStatistic(o, lo) + OrderStatistic(o, hi)
  BY DEF Summary
<1>6. c \in {up, down}
  <2>1. {up, down} = {up} \cup {down}
    OBVIOUS
  <2>2. IsFiniteSet({up, down})
    <3> HIDE DEF up, down
    <3>1. IsFiniteSet({up})
      BY FS_Singleton
    <3>2. IsFiniteSet({up} \cup {down})
      BY <3>1, FS_AddElement
    <3> QED
      BY <2>1, <3>2
  <2>3. {up, down} \in SUBSET Int /\ {up, down} # {}
    BY <1>2
  <2> HIDE DEF up, down
  <2> QED
    BY <2>2, <2>3, MaxIs
<1> HIDE DEF n, up, down, c, m
<1>7. c \in Nat /\ n < 2 * c
  <2>1. c \in Nat /\ MinConsistency \in 51..100
    BY <1>2, <1>6, AnalogsAssumption
  <2>2. 51 * n <= MinConsistency * n
    BY <1>1, <2>1
  <2> QED
    BY <1>1, <1>4, <2>1, <2>2
<1>8. /\ lo \in Nat \ {0} /\ lo <= n /\ n <= 2 * lo /\ 2 * lo <= n + 1
      /\ hi \in Nat \ {0} /\ hi <= n /\ n <= 2 * hi /\ 2 * hi <= n + 2
  BY <1>1
<1>9. ASSUME NEW k \in {lo, hi}
      PROVE  /\ OrderStatistic(o, k) \in Int
             /\ c = up => OrderStatistic(o, k) > 0
             /\ c = down => OrderStatistic(o, k) < 0
  <2> DEFINE v == OrderStatistic(o, k)
             Below == {s \in DOMAIN o : o[s] < v}
             UpTo == {s \in DOMAIN o : o[s] <= v}
  <2>1. k \in Nat \ {0} /\ k <= n /\ n <= 2 * k /\ 2 * k <= n + 2
    BY <1>1, <1>8
  <2>2. v \in Int /\ Cardinality(Below) < k /\ k <= Cardinality(UpTo)
    BY <2>1, OrderStatisticIs DEF n
  <2>3. ASSUME c = up, ~(v > 0) PROVE FALSE
    <3>1. UpTo \subseteq (DOMAIN o) \ U
      BY <2>2, <2>3
    <3>2. Cardinality((DOMAIN o) \ U) = n - up
      <4>1. U \in SUBSET DOMAIN o /\ U \cap DOMAIN o = U
        OBVIOUS
      <4>2. Cardinality((DOMAIN o) \ U) = Cardinality(DOMAIN o) - Cardinality((DOMAIN o) \cap U)
        BY <4>1, FS_Subset, FS_Difference
      <4> QED
        BY <4>1, <4>2 DEF n, up
    <3>3. Cardinality(UpTo) <= Cardinality((DOMAIN o) \ U) /\ Cardinality(UpTo) \in Nat
      <4>1. IsFiniteSet((DOMAIN o) \ U)
        BY FS_Subset
      <4> HIDE DEF U, UpTo
      <4> QED
        BY <3>1, <4>1, CountIs
    <3> QED
      BY <1>1, <1>2, <1>7, <2>1, <2>2, <2>3, <3>2, <3>3
  <2>4. ASSUME c = down, ~(v < 0) PROVE FALSE
    <3>1. D \subseteq Below /\ Below \subseteq DOMAIN o
      BY <2>2, <2>4
    <3>2. down <= Cardinality(Below) /\ Cardinality(Below) \in Nat
      <4>1. IsFiniteSet(Below)
        BY FS_Subset
      <4> HIDE DEF D, Below
      <4> QED
        BY <3>1, <4>1, CountIs DEF down
    <3> QED
      BY <1>1, <1>2, <1>7, <2>1, <2>2, <2>4, <3>2
  <2> QED
    BY <2>2, <2>3, <2>4
<1>10. CASE c = up
  <2>1. m \in Int /\ m > 0
    BY <1>5, <1>9, <1>10
  <2>2. \A x \in Int : x * m > 0 <=> x > 0
    BY <2>1
  <2>3. {s \in DOMAIN o : o[s] * m > 0} = U
    BY <2>2
  <2> QED
    BY <1>4, <1>10, <2>3 DEF m, up
<1>11. CASE c = down
  <2>1. m \in Int /\ m < 0
    BY <1>5, <1>9, <1>11
  <2>2. \A x \in Int : x * m > 0 <=> x < 0
    BY <2>1
  <2>3. {s \in DOMAIN o : o[s] * m > 0} = D
    BY <2>2
  <2> QED
    BY <1>4, <1>11, <2>3 DEF m, down
<1> QED
  BY <1>6, <1>10, <1>11

LEMMA TablesGiveEvidence == Tables => \A answer \in Answers : PassedMeansEvidence(answer)
<1> DEFINE Supported(a, t) ==
             LET events == DOMAIN a.outcomes
                 runsOf == [d \in DOMAIN features.days_below |-> features.days_below[d].value]
             IN /\ Cardinality({s \in events : a.outcomes[s] * a.summary.median > 0}) = a.gate.consistent
                /\ t \in DOMAIN runsOf /\ NULL \notin Range(a.outcomes)
                /\ Cardinality(events) >= MinAnalogs
                /\ \A s \in events : s + OutcomeWindow < a.own /\ a.own <= t
                /\ features = FeatureRows(daily) =>
                     \A s \in events \cup {a.own} : \A e \in events :
                       e < s => \E d \in e..s : d \in DOMAIN runsOf /\ runsOf[d] = 0
<1> SUFFICES ASSUME Tables, NEW t \in 1..today,
                    Query(features, rates, t).gate.result = "passed"
             PROVE  Supported(Query(features, rates, t), t)
  <2>1. \A answer : PassedMeansEvidence(answer) <=>
                       (answer.is.gate.result = "passed" => Supported(answer.is, answer.day))
    BY DEF PassedMeansEvidence
  <2> HIDE DEF Supported
  <2>2. \A answer \in Answers : \E t \in 1..today : answer.day = t /\ answer.is = Query(features, rates, t)
    BY DEF Answers
  <2> QED
    BY <2>1, <2>2
<1> DEFINE a == Query(features, rates, t)
           runsOf == [d \in DOMAIN features.days_below |-> features.days_below[d].value]
           seen == Seen(features, t)
           chosen == Picked(seen, t)
           o == [s \in chosen |-> Measure(rates, s)]
           stored == StoredRuns(seen)
<1>1. a = Answer(seen, Condition(features.discharge_mean, t), o)
  BY QueryIs
<1>2. /\ a.own = Own(seen) /\ a.outcomes = o /\ a.gate = Gate(seen, o)
      /\ a.gate.result = "passed" => a.summary = Summary(o)
  BY <1>1 DEF Answer
<1> HIDE DEF a
<1>3. a.gate.result = "passed"
  BY DEF a
<1>4. a.summary = Summary(o) /\ Own(seen) # NULL /\ a.gate = Evaluate(o) /\ Evaluate(o).result = "passed"
  BY <1>2, <1>3 DEF Gate, Verdict
<1>5. /\ t \in Int /\ DOMAIN runsOf \subseteq Days
      /\ DOMAIN stored = {d \in DOMAIN runsOf : d <= t}
      /\ \A d \in DOMAIN stored : stored[d] = runsOf[d]
  BY SeenIs
<1>6. /\ Began(seen) \subseteq Detections(stored) /\ Detections(stored) \subseteq Int
      /\ \A s \in Detections(stored) : s \in DOMAIN stored /\ s <= t
      /\ Own(seen) \in Began(seen)
  BY <1>4, StartsAreDays
<1> HIDE DEF seen
<1>7. \A s \in chosen : /\ s \in Began(seen) /\ s + OutcomeWindow <= t
                        /\ s + OutcomeWindow < Own(seen) /\ t \in DOMAIN Vectors(seen)
  BY PickedAreOver
<1> HIDE DEF chosen, stored, runsOf
<1>8. chosen \subseteq Days /\ IsFiniteSet(chosen)
  <2>1. chosen \subseteq DOMAIN runsOf
    BY <1>5, <1>6, <1>7
  <2> QED
    BY <2>1, <1>5, DaysAre
<1>9. DOMAIN o = chosen /\ \A s \in chosen : o[s] = Measure(rates, s)
  OBVIOUS
<1>10. \A s \in chosen : o[s] \in OptionalInt
  <2>1. IsPrice(rates)
    BY DEF Tables
  <2>2. \A s \in chosen : s \in Int /\ s + OutcomeWindow <= t
    BY <1>6, <1>7
  <2> QED
    BY <1>5, <1>9, <2>1, <2>2, MeasureIs
<1> HIDE DEF o
<1>11. /\ Known(o) = DOMAIN o /\ DOMAIN o # {} /\ Cardinality(DOMAIN o) >= MinAnalogs
  <2> DEFINE n == Cardinality(DOMAIN o)
             c == Max({Cardinality({s \in Known(o) : o[s] > 0}), Cardinality({s \in Known(o) : o[s] < 0})})
  <2>1. n \in Nat /\ MinAnalogs \in Nat
    BY <1>8, <1>9, FS_CardinalityType, AnalogsAssumption
  <2>2. Evaluate(o) =
          CASE n = 0 -> Verdict("insufficient_analogs", 0, 0)
            [] n > 0 /\ Known(o) # DOMAIN o ->
                 Verdict("incomplete_outcomes", Cardinality(Known(o)), 0)
            [] n > 0 /\ Known(o) = DOMAIN o ->
                 Verdict(IF n < MinAnalogs THEN "insufficient_analogs"
                         ELSE IF 100 * c < MinConsistency * n THEN "inconsistent_direction"
                         ELSE "passed", n, c)
    BY DEF Evaluate
  <2> HIDE DEF n, c
  <2>3. n # 0
    <3> SUFFICES ASSUME n = 0 PROVE FALSE
      OBVIOUS
    <3>1. Evaluate(o) = Verdict("insufficient_analogs", 0, 0)
      BY <2>2
    <3> QED
      BY <1>4, <3>1 DEF Verdict
  <2>4. n > 0
    BY <2>1, <2>3
  <2>5. Known(o) = DOMAIN o
    <3> SUFFICES ASSUME Known(o) # DOMAIN o PROVE FALSE
      OBVIOUS
    <3>1. Evaluate(o) = Verdict("incomplete_outcomes", Cardinality(Known(o)), 0)
      BY <2>2, <2>3, <2>4
    <3> QED
      BY <1>4, <3>1 DEF Verdict
  <2>6. Evaluate(o) = Verdict(IF n < MinAnalogs THEN "insufficient_analogs"
                         ELSE IF 100 * c < MinConsistency * n THEN "inconsistent_direction"
                         ELSE "passed", n, c)
    BY <2>2, <2>3, <2>4, <2>5
  <2>7. ~(n < MinAnalogs)
    BY <1>4, <2>6 DEF Verdict
  <2>8. DOMAIN o # {}
    BY <2>3, FS_EmptySet DEF n
  <2> QED
    BY <2>1, <2>5, <2>7, <2>8 DEF n
<1>12. \A s \in DOMAIN o : o[s] # NULL /\ o[s] \in Int
  BY <1>9, <1>10, <1>11 DEF Known, OptionalInt
<1>13. Cardinality({s \in DOMAIN o : o[s] * Summary(o).median > 0}) = Evaluate(o).consistent
  BY <1>4, <1>8, <1>9, <1>11, <1>12, MedianAgrees
<1>14. NULL \notin Range(o)
  BY <1>12 DEF Range
<1>15. t \in DOMAIN runsOf
  <2>1. t \in DOMAIN Vectors(seen)
    BY <1>7, <1>9, <1>11
  <2>2. t \in Known(Compared(seen.days_below))
    BY <2>1 DEF Vectors, FeatureNames
  <2>3. DOMAIN Compared(seen.days_below) = DOMAIN seen.days_below
    BY DEF Compared
  <2>4. t \in DOMAIN stored
    BY <2>2, <2>3 DEF Known, stored, StoredRuns
  <2> QED
    BY <2>4, <1>5
<1>16. \A s \in chosen : s + OutcomeWindow < Own(seen) /\ Own(seen) <= t
  BY <1>6, <1>7
<1>17. ASSUME features = FeatureRows(daily), NEW s \in chosen \cup {Own(seen)}, NEW e \in chosen, e < s
       PROVE  \E d \in e..s : d \in DOMAIN runsOf /\ runsOf[d] = 0
  <2>1. PICK record : DOMAIN record = DOMAIN daily /\ IsRunOf(RunsOf(FeatureRows(daily).days_below), record)
    BY FeatureRowsAre DEF Tables
  <2>2. IsRunOf(runsOf, record)
    BY <1>17, <2>1 DEF RunsOf, runsOf
  <2>3. DOMAIN record \subseteq Days
    BY <2>1 DEF Tables, IsRollup
  <2>4. s \in Starts(Detections(stored)) /\ e \in Detections(stored)
    BY <1>6, <1>7 DEF Began, stored
  <2>5. DOMAIN stored \subseteq DOMAIN runsOf
    BY <1>5
  <2>6. \A d \in DOMAIN runsOf : d <= s => d \in DOMAIN stored
    <3>1. s \in Int /\ s <= t
      BY <2>4, <1>6 DEF Starts
    <3>2. \A d \in DOMAIN runsOf : d \in Int
      BY <1>5, DaysAre
    <3>3. \A d \in DOMAIN runsOf : d <= s => d <= t
      BY <1>5, <3>1, <3>2
    <3> QED
      BY <3>3, <1>5
  <2> QED
    BY <1>5, <1>17, <2>2, <2>3, <2>4, <2>5, <2>6, ZeroBetweenEvents
<1> QED
  BY <1>2, <1>4, <1>9, <1>11, <1>13, <1>14, <1>15, <1>16, <1>17 DEF a, runsOf

-----------------------------------------------------------------------------
(* The sweep                                                                    *)

(* What a pair measured: no p-value, or one of at most a hundred percent.       *)
IsScan(s) == \A x \in DOMAIN s : s[x].p \in OptionalInt /\ (s[x].p # NULL => s[x].p <= 100)

(* Rows of a pair: weeks, with an integer of either series.                     *)
IsSample(rows) ==
  DOMAIN rows \subseteq Days /\ \A w \in DOMAIN rows : rows[w]["x"] \in Int /\ rows[w]["y"] \in Int

LEMMA AlignedIs ==
  ASSUME NEW s, \A d \in DOMAIN s : s[d] \in OptionalInt, NEW weekly, IsTargets(weekly),
         NEW h \in Horizons, NEW lag, NEW regime
  PROVE  IsSample(Aligned(s, weekly, h, lag, regime))
<1> DEFINE weeks == {x[1] : x \in {y \in Known(weekly) : y[2] = h}}
           matched(w) == LastOnOrBefore(Known(s), w - lag)
           kept == {v \in weeks : matched(v) \in RegimeDays(s, regime)}
<1>1. Aligned(s, weekly, h, lag, regime) = [w \in kept |-> [x |-> s[matched(w)], y |-> weekly[<<w, h>>]]]
  BY DEF Aligned
<1>2. ASSUME NEW w \in weeks
      PROVE  w \in Days /\ weekly[<<w, h>>] \in Int
  <2>1. PICK z \in Known(weekly) : z[2] = h /\ z[1] = w
    OBVIOUS
  <2>2. z \in Days \X Horizons /\ weekly[z] \in OptionalInt /\ weekly[z] # NULL
    BY <2>1 DEF Known, IsTargets
  <2>3. z = <<w, h>>
    BY <2>1, <2>2
  <2> QED
    BY <2>2, <2>3 DEF OptionalInt
<1>3. ASSUME NEW w \in kept
      PROVE  s[matched(w)] \in Int
  <2>1. matched(w) \in Known(s)
    BY DEF RegimeDays
  <2> HIDE DEF matched
  <2> QED
    BY <2>1 DEF Known, OptionalInt
<1> HIDE DEF matched, weeks
<1>4. \A w \in kept : w \in weeks
  OBVIOUS
<1> DEFINE x(w) == s[matched(w)]
           y(w) == weekly[<<w, h>>]
<1>5. \A w \in kept : w \in Days /\ x(w) \in Int /\ y(w) \in Int
  BY <1>2, <1>3, <1>4
<1> HIDE DEF kept, x, y
<1>6. Aligned(s, weekly, h, lag, regime) = [w \in kept |-> [x |-> x(w), y |-> y(w)]]
  BY <1>1 DEF x, y
<1> QED
  BY <1>5, <1>6 DEF IsSample

LEMMA PValueIs ==
  ASSUME NEW rows, IsSample(rows), Varies(rows)
  PROVE  PValue(rows) \in Int /\ PValue(rows) <= 100
<1> DEFINE a == Scatter(rows, "x", "y")
           b == Scatter(rows, "x", "x")
           c == Scatter(rows, "y", "y")
<1>1. IsFiniteSet(DOMAIN rows)
  BY DaysAre DEF IsSample
<1>2. a \in Int /\ b \in Int /\ c \in Int
  BY <1>1, ScatterIs DEF IsSample
<1>3. b > 0 /\ c > 0
  BY DEF Varies
<1>4. PValue(rows) = 100 - (100 * a * a) \div (b * c)
  BY DEF PValue
<1> HIDE DEF a, b, c
<1> DEFINE n == 100 * a * a
           d == b * c
<1>5. d \in Nat \ {0}
  BY <1>2, <1>3
<1>6. n \in Nat
  <2>1. a * a \in Nat
    BY <1>2
  <2>2. 100 * a * a = 100 * (a * a)
    BY <1>2
  <2> QED
    BY <2>1, <2>2
<1> HIDE DEF n, d
<1>7. n \div d \in Nat
  BY <1>5, <1>6, QuotientIs
<1> QED
  BY <1>4, <1>7 DEF n, d

LEMMA ScanOneIs ==
  ASSUME NEW rows, IsSample(rows), NEW h
  PROVE  LET p == ScanOne(rows, h).p IN p \in OptionalInt /\ (p # NULL => p <= 100)
<1> DEFINE folds == Splits(DOMAIN rows, h)
<1>1. CASE ~Measurable(rows, h)
  <2>1. ScanOne(rows, h).p = NULL
    BY <1>1 DEF ScanOne
  <2> QED
    BY <2>1 DEF OptionalInt
<1>2. CASE Measurable(rows, h)
  <2>1. ScanOne(rows, h).p = PValue(rows)
    BY <1>2 DEF ScanOne
  <2>2. PValue(rows) \in Int /\ PValue(rows) <= 100
    BY <1>2, PValueIs DEF Measurable
  <2> QED
    BY <2>1, <2>2 DEF OptionalInt
<1> QED
  BY <1>1, <1>2

(* A quotient rounded up is no more than a whole number as the dividend is no   *)
(* more than the product.                                                       *)
LEMMA RoundedUp ==
  ASSUME NEW c \in Int, NEW n \in Nat \ {0}, NEW m \in Int
  PROVE  -((-c) \div n) \in Int /\ (-((-c) \div n) <= m <=> c <= m * n)
<1> DEFINE k == (-c) \div n
<1>1. k \in Int /\ n * k <= -c /\ -c < n * k + n
  OBVIOUS
<1> HIDE DEF k
<1>2. CASE -k <= m
  <2>1. -m <= k
    BY <1>1, <1>2
  <2>2. n * (-m) <= n * k
    BY <1>1, <2>1
  <2>3. n * (-m) = -(m * n)
    OBVIOUS
  <2>4. -(m * n) <= -c
    BY <1>1, <2>2, <2>3
  <2> QED
    BY <1>1, <1>2, <2>4 DEF k
<1>3. CASE ~(-k <= m)
  <2>1. k + 1 <= -m
    BY <1>1, <1>3
  <2>2. n * (k + 1) <= n * (-m)
    BY <1>1, <2>1
  <2>3. n * (-m) = -(m * n) /\ n * (k + 1) = n * k + n
    BY <1>1
  <2>4. -c < -(m * n)
    BY <1>1, <2>2, <2>3
  <2> QED
    BY <1>1, <1>3, <2>4 DEF k
<1> QED
  BY <1>2, <1>3

Rank(scanned, y) == Cardinality({z \in Tested(scanned) : scanned[z].p <= scanned[y].p})

LEMMA RanksAre ==
  ASSUME NEW scanned, IsScan(scanned), IsFiniteSet(DOMAIN scanned)
  PROVE  /\ IsFiniteSet(Tested(scanned)) /\ Cardinality(Tested(scanned)) \in Nat
         /\ \A y \in Tested(scanned) : /\ scanned[y].p \in Int /\ scanned[y].p <= 100
                                       /\ Rank(scanned, y) \in Nat \ {0}
<1>1. IsFiniteSet(Tested(scanned)) /\ Cardinality(Tested(scanned)) \in Nat
  BY FS_Subset, FS_CardinalityType DEF Tested
<1>2. ASSUME NEW y \in Tested(scanned)
      PROVE  /\ scanned[y].p \in Int /\ scanned[y].p <= 100
             /\ Rank(scanned, y) \in Nat \ {0}
  <2>1. scanned[y].p \in Int /\ scanned[y].p <= 100
    BY DEF Tested, IsScan, OptionalInt
  <2> DEFINE upto == {z \in Tested(scanned) : scanned[z].p <= scanned[y].p}
  <2>2. upto \in SUBSET Tested(scanned) /\ upto # {}
    BY <2>1
  <2>3. Cardinality(upto) \in Nat /\ Cardinality(upto) # 0
    BY <1>1, <2>2, CountIs
  <2> QED
    BY <2>1, <2>3 DEF Rank
<1> QED
  BY <1>1, <1>2

(* Adjusted rows: the values are those of the step-up procedure over all tests. *)
IsAdjusted(rows) ==
  LET tested == {x \in DOMAIN rows : rows[x].p # NULL}
      rank(x) == Cardinality({y \in tested : rows[y].p <= rows[x].p})
      rejected == {x \in tested : \E y \in tested :
                     /\ rows[x].p <= rows[y].p
                     /\ rows[y].p * Cardinality(tested) <= MaxQ * rank(y)}
  IN \A x \in DOMAIN rows :
       /\ (x \in tested /\ rows[x].q <= MaxQ) <=> x \in rejected
       /\ rows[x].passes => x \in rejected /\ rows[x].tests = Cardinality(tested)

IsGated(rows) ==
  \A x \in DOMAIN rows : /\ rows[x].q \in OptionalInt
                         /\ rows[x].passes => rows[x].q # NULL /\ rows[x].q <= MaxQ

LEMMA AdjustedRowsAre ==
  ASSUME NEW scanned, IsScan(scanned), IsFiniteSet(DOMAIN scanned)
  PROVE  /\ DOMAIN AdjustAndGate(scanned) = DOMAIN scanned
         /\ IsAdjusted(AdjustAndGate(scanned)) /\ IsGated(AdjustAndGate(scanned))
<1> DEFINE rows == AdjustAndGate(scanned)
           q(x) == IF scanned[x].p = NULL THEN NULL ELSE Q(scanned, x)
           all == Tested(scanned)
           m == Cardinality(all)
           tested == {x \in DOMAIN rows : rows[x].p # NULL}
           rank(x) == Cardinality({y \in tested : rows[y].p <= rows[x].p})
           rejected == {x \in tested : \E y \in tested :
                          /\ rows[x].p <= rows[y].p
                          /\ rows[y].p * Cardinality(tested) <= MaxQ * rank(y)}
           above(x) == {z \in all : scanned[z].p >= scanned[x].p}
           value(y) == -((-(scanned[y].p * m)) \div Rank(scanned, y))
           candidates(x) == {value(y) : y \in above(x)}
<1>1. /\ DOMAIN rows = DOMAIN scanned
      /\ \A x \in DOMAIN rows : /\ rows[x].p = scanned[x].p /\ rows[x].q = q(x) /\ rows[x].tests = m
                                /\ rows[x].passes = Passes(q(x), scanned[x].consistency)
  BY DEF AdjustAndGate
<1> HIDE DEF rows
<1>2. tested = all /\ \A y \in all : rows[y].p = scanned[y].p
  BY <1>1 DEF Tested
<1>3. \A x \in all : rank(x) = Rank(scanned, x)
  BY <1>2 DEF Rank
<1>4. \A x \in DOMAIN scanned :
        x \in rejected <=> x \in all /\ \E y \in above(x) : scanned[y].p * m <= MaxQ * Rank(scanned, y)
  <2>1. \A x \in all : x \in rejected <=> \E y \in all : /\ scanned[x].p <= scanned[y].p
                                                         /\ scanned[y].p * m <= MaxQ * Rank(scanned, y)
    BY <1>2, <1>3
  <2>2. \A x, y \in all : scanned[x].p <= scanned[y].p <=> scanned[y].p >= scanned[x].p
    BY RanksAre
  <2>3. \A x \in DOMAIN scanned : x \in rejected => x \in all
    BY <1>2
  <2> HIDE DEF all, rejected, m
  <2> QED
    BY <2>1, <2>2, <2>3
<1>5. /\ IsFiniteSet(all) /\ m \in Nat
      /\ \A y \in all : scanned[y].p \in Int /\ scanned[y].p <= 100 /\ Rank(scanned, y) \in Nat \ {0}
  BY RanksAre
<1>6. MaxQ \in 0..100
  BY SignalsAssumption
<1> HIDE DEF all, m
<1>7. ASSUME NEW y \in all
      PROVE  value(y) \in Int /\ (value(y) <= MaxQ <=> scanned[y].p * m <= MaxQ * Rank(scanned, y))
  <2>1. scanned[y].p * m \in Int /\ Rank(scanned, y) \in Nat \ {0} /\ MaxQ \in Int
    BY <1>5, <1>6
  <2> QED
    BY <2>1, RoundedUp
<1>8. ASSUME NEW x \in all
      PROVE  /\ Q(scanned, x) \in Int
             /\ Q(scanned, x) <= MaxQ <=> \E y \in above(x) : scanned[y].p * m <= MaxQ * Rank(scanned, y)
  <2> DEFINE C == candidates(x) \cup {100}
  <2>1. Q(scanned, x) = Min(C)
    BY DEF Q, Rank, all, m
  <2> HIDE DEF value
  <2>2. C \in SUBSET Int /\ C # {}
    BY <1>7
  <2>3. IsFiniteSet(C)
    <3>1. above(x) \subseteq all
      OBVIOUS
    <3>2. IsFiniteSet(above(x))
      BY <1>5, <3>1, FS_Subset
    <3> DEFINE g == [y \in above(x) |-> value(y)]
    <3>3. DOMAIN g = above(x) /\ Range(g) = candidates(x)
      BY DEF Range
    <3> HIDE DEF g, above
    <3>4. IsFiniteSet(Range(g))
      BY <3>2, <3>3, RangeIsFinite
    <3> HIDE DEF candidates
    <3> QED
      BY <3>3, <3>4, FS_AddElement
  <2>4. Min(C) \in C /\ \A c \in C : Min(C) <= c
    BY <2>2, <2>3, MinIs
  <2>5. Min(C) \in Int
    BY <2>2, <2>4
  <2>6. ASSUME NEW y \in above(x), scanned[y].p * m <= MaxQ * Rank(scanned, y)
        PROVE  Min(C) <= MaxQ
    <3>1. value(y) \in C /\ value(y) \in Int /\ value(y) <= MaxQ
      BY <1>7, <2>6
    <3> HIDE DEF C
    <3> QED
      BY <1>6, <2>4, <2>5, <3>1
  <2>7. ASSUME Min(C) <= MaxQ
        PROVE  \E y \in above(x) : scanned[y].p * m <= MaxQ * Rank(scanned, y)
    <3>1. CASE Min(C) = 100
      <4>1. MaxQ = 100
        BY <1>6, <2>7, <3>1
      <4> DEFINE ps == {scanned[y].p : y \in all}
                 g == [y \in all |-> scanned[y].p]
      <4>2. ps \in SUBSET Int /\ ps # {}
        BY <1>5
      <4>3. IsFiniteSet(ps)
        <5>1. DOMAIN g = all /\ Range(g) = ps
          BY DEF Range
        <5> HIDE DEF g, ps
        <5> QED
          BY <1>5, <5>1, RangeIsFinite
      <4>4. PICK p \in ps : \A r \in ps : r <= p
        BY <4>2, <4>3, MaxIs
      <4>5. PICK y \in all : scanned[y].p = p
        BY <4>4
      <4>6. \A z \in all : scanned[z].p <= scanned[y].p
        BY <4>4, <4>5
      <4>7. Rank(scanned, y) = m
        BY <4>6 DEF Rank, all, m
      <4>8. scanned[y].p * m <= 100 * m
        BY <1>5, <4>5
      <4>9. y \in above(x)
        BY <1>5, <4>5, <4>6
      <4> QED
        BY <4>1, <4>7, <4>8, <4>9
    <3>2. CASE Min(C) # 100
      <4>1. Min(C) \in candidates(x)
        BY <2>4, <3>2
      <4>2. PICK y \in above(x) : Min(C) = value(y)
        BY <4>1
      <4>3. y \in all /\ value(y) <= MaxQ
        BY <2>7, <4>2
      <4> QED
        BY <1>7, <4>2, <4>3
    <3> QED
      BY <3>1, <3>2
  <2> QED
    BY <2>1, <2>5, <2>6, <2>7
<1> HIDE DEF above, value, candidates
<1>9. \A x \in DOMAIN rows : x \in all <=> scanned[x].p # NULL
  BY <1>1 DEF all, Tested
<1>10. ASSUME NEW x \in DOMAIN rows
       PROVE  /\ rows[x].q \in OptionalInt
              /\ (x \in tested /\ rows[x].q <= MaxQ) <=> x \in rejected
              /\ rows[x].passes => /\ x \in rejected /\ rows[x].tests = Cardinality(tested)
                                   /\ rows[x].q # NULL /\ rows[x].q <= MaxQ
  <2>1. x \in DOMAIN scanned /\ rows[x].q = q(x)
    BY <1>1
  <2>2. x \in all => q(x) = Q(scanned, x)
    BY <1>9
  <2>3. x \notin all => q(x) = NULL
    BY <1>9
  <2>4. q(x) \in OptionalInt /\ (q(x) # NULL => x \in all)
    BY <1>8, <2>2, <2>3 DEF OptionalInt
  <2>5. (x \in all /\ q(x) <= MaxQ) <=> x \in rejected
    <3> HIDE DEF rejected, q
    <3> QED
      BY <1>4, <1>8, <2>1, <2>2
  <2>6. rows[x].passes => q(x) # NULL /\ q(x) <= MaxQ
    BY <1>1 DEF Passes
  <2>7. rows[x].tests = Cardinality(tested)
    BY <1>1, <1>2 DEF m
  <2> HIDE DEF q, tested, rejected
  <2> QED
    BY <1>2, <2>1, <2>4, <2>5, <2>6, <2>7
<1> HIDE DEF q
<1>11. IsAdjusted(rows)
  BY <1>10 DEF IsAdjusted
<1>12. IsGated(rows)
  BY <1>10 DEF IsGated
<1> QED
  BY <1>1, <1>11, <1>12 DEF rows

(* The features a sweep scans.                                                  *)
IsScanned(names) == names \subseteq FeatureNames

RunIs(r) ==
  /\ {"finished", "rows", "grid"} \subseteq DOMAIN r
  /\ r.finished \in BOOLEAN
  /\ \E names : IsScanned(names) /\ r.grid = Pairs(names)
  /\ ~r.finished => r.rows = << >>
  /\ r.finished => \E scanned : /\ IsScan(scanned) /\ DOMAIN scanned = r.grid
                                /\ r.rows = AdjustAndGate(scanned)

(* A sweep under way: whole features are scanned, and its run is open and       *)
(* without rows.                                                                *)
SweepIs(s) ==
  /\ sweep[s] = [pc |-> "scanning", run |-> sweep[s].run, names |-> sweep[s].names,
                 scanned |-> sweep[s].scanned, targets |-> sweep[s].targets,
                 columns |-> sweep[s].columns]
  /\ IsScanned(sweep[s].names)
  /\ IsScan(sweep[s].scanned) /\ DOMAIN sweep[s].scanned \subseteq Pairs(sweep[s].names)
  /\ \A x \in DOMAIN sweep[s].scanned : Pairs({x[1]}) \subseteq DOMAIN sweep[s].scanned
  /\ sweep[s].targets = NULL \/ IsTargets(sweep[s].targets)
  /\ sweep[s].run \in DOMAIN runs
  /\ ~runs[sweep[s].run].finished /\ runs[sweep[s].run].grid = Pairs(sweep[s].names)

(* No two sweeps have the same run.                                             *)
Sweeps ==
  /\ \E R : runs \in Seq(R)
  /\ \A i \in DOMAIN runs : RunIs(runs[i])
  /\ DOMAIN sweep = Sweepers
  /\ \A s \in Sweepers : /\ sweep[s].pc \in {"idle", "scanning"}
                         /\ sweep[s].pc = "scanning" => SweepIs(s)
  /\ \A s, u \in Sweepers : /\ sweep[s].pc = "scanning" /\ sweep[u].pc = "scanning"
                            /\ sweep[s].run = sweep[u].run
                            => s = u

(* What a request holds of the run it reads.                                    *)
SummaryIs(s) ==
  /\ s.run \in DOMAIN runs
  /\ s.finished => /\ runs[s.run].finished
                   /\ s.grid = Cardinality(runs[s.run].grid)
                   /\ s.scanned = Cardinality(DOMAIN runs[s.run].rows)
                   /\ s.passing = Cardinality(Matching(runs[s.run].rows, TRUE))
  /\ ~s.finished => s.scanned = 0

TotalFits(s, passing, total) ==
  LET matching == Matching(runs[s.run].rows, passing)
  IN /\ s.finished => total = Cardinality(matching)
     /\ total = 0 \/ (runs[s.run].finished /\ total = Cardinality(matching))

RowsFit(s, passing, bound, rows) ==
  LET shown == PageOf(runs[s.run].rows, passing, bound)
  IN /\ rows = {} \/ (runs[s.run].finished /\ rows = shown)
     /\ s.finished => rows = shown

IsBound(bound) == bound.limit \in Nat \ {0} /\ bound.offset \in Nat

IsAsked(request) == request.passing \in BOOLEAN /\ IsBound(request.bound)

Pages ==
  /\ page.pc \in {"idle", "resolved", "not_found", "summarised", "counted", "answered"}
  /\ page.pc \in {"resolved", "summarised", "counted"} => IsAsked(page)
  /\ page.pc \in {"summarised", "counted"} => SummaryIs(page.summary)
  /\ page.pc = "counted" => TotalFits(page.summary, page.passing, page.total)
  /\ page.pc = "answered" /\ page.summary # NULL =>
       /\ IsAsked(page)
       /\ SummaryIs(page.summary) /\ TotalFits(page.summary, page.passing, page.total)
       /\ RowsFit(page.summary, page.passing, page.bound, page.rows)

ResearchInv == Tables /\ Sweeps /\ Pages

-----------------------------------------------------------------------------

LEMMA GridsAreFinite ==
  /\ \A names : IsScanned(names) => IsFiniteSet(Pairs(names))
  /\ \A names, x : x \in Pairs(names) => x[1] \in names /\ x \in Pairs({x[1]})
  /\ \A names, f, x : x \in Pairs(names) /\ f \in names =>
       Pairs({f}) \subseteq Pairs(names) /\ Pairs({f}) # {}
  /\ \A x, f : x \in Pairs({f}) => x[1] = f /\ x[2] \in Horizons
<1>1. ASSUME NEW names, IsScanned(names)
      PROVE  IsFiniteSet(Pairs(names))
  <2>1. IsFiniteSet(names)
    <3>1. FeatureNames = {"discharge_mean", "discharge_min"} \cup {"days_below"}
      BY DEF FeatureNames
    <3>2. {"discharge_mean", "discharge_min"} = {"discharge_mean"} \cup {"discharge_min"}
      OBVIOUS
    <3>3. IsFiniteSet({"discharge_mean"})
      BY FS_Singleton
    <3>4. IsFiniteSet({"discharge_mean", "discharge_min"})
      BY <3>2, <3>3, FS_AddElement
    <3>5. IsFiniteSet(FeatureNames)
      BY <3>1, <3>4, FS_AddElement
    <3> QED
      BY <1>1, <3>5, FS_Subset DEF IsScanned
  <2>2. IsFiniteSet(Horizons) /\ IsFiniteSet(Lags)
    BY FeaturesAssumption, SignalsAssumption
  <2>3. IsFiniteSet(Regimes)
    <3>1. IsFiniteSet({"all"})
      BY FS_Singleton
    <3>2. IsFiniteSet({"all"} \cup {"onset"})
      BY <3>1, FS_AddElement
    <3>3. IsFiniteSet(({"all"} \cup {"onset"}) \cup {"recovery"})
      BY <3>2, FS_AddElement
    <3>4. Regimes \subseteq ({"all"} \cup {"onset"}) \cup {"recovery"}
      BY SignalsAssumption
    <3> QED
      BY <3>3, <3>4, FS_Subset
  <2> DEFINE A == names \X Horizons
             B == A \X Lags
             C == B \X Regimes
  <2>4. IsFiniteSet(A)
    BY <2>1, <2>2, FS_Product
  <2>5. IsFiniteSet(B)
    <3> HIDE DEF A
    <3> QED
      BY <2>2, <2>4, FS_Product
  <2>6. IsFiniteSet(C)
    <3> HIDE DEF A, B
    <3> QED
      BY <2>3, <2>5, FS_Product
  <2> DEFINE g == [c \in C |-> <<c[1][1][1], c[1][1][2], c[1][2], c[2]>>]
  <2>7. Pairs(names) \subseteq Range(g)
    <3>1. ASSUME NEW f \in names, NEW h \in Horizons, NEW l \in Lags, NEW r \in Regimes
          PROVE  <<f, h, l, r>> \in Range(g)
      <4> DEFINE c == << << <<f, h>>, l >>, r >>
      <4>1. c \in C /\ g[c] = <<f, h, l, r>>
        OBVIOUS
      <4> HIDE DEF c, g
      <4>2. c \in DOMAIN g
        BY <4>1 DEF g
      <4> QED
        BY <4>1, <4>2 DEF Range
    <3> HIDE DEF g
    <3> QED
      BY <3>1 DEF Pairs
  <2>8. IsFiniteSet(Range(g))
    <3>1. DOMAIN g = C
      OBVIOUS
    <3> HIDE DEF g, C
    <3> QED
      BY <2>6, <3>1, RangeIsFinite
  <2> HIDE DEF g
  <2> QED
    BY <2>7, <2>8, FS_Subset
<1>2. ASSUME NEW names, NEW x, x \in Pairs(names)
      PROVE  /\ x[1] \in names /\ x \in Pairs({x[1]})
             /\ \A f \in names : Pairs({f}) \subseteq Pairs(names) /\ Pairs({f}) # {}
  <2>1. PICK e \in names, h \in Horizons, l \in Lags, r \in Regimes : x = <<e, h, l, r>>
    BY <1>2 DEF Pairs
  <2>2. \A f \in names : Pairs({f}) \subseteq Pairs(names)
    BY DEF Pairs
  <2>3. \A f \in names : <<f, h, l, r>> \in Pairs({f})
    BY DEF Pairs
  <2>4. x[1] = e /\ x \in Pairs({e})
    BY <2>1 DEF Pairs
  <2>5. x[1] \in names /\ x \in Pairs({x[1]})
    BY <2>4
  <2> QED
    BY <2>2, <2>3, <2>5
<1>3. ASSUME NEW x, NEW f, x \in Pairs({f})
      PROVE  x[1] = f /\ x[2] \in Horizons
  BY <1>3 DEF Pairs
<1> QED
  BY <1>1, <1>2, <1>3

-----------------------------------------------------------------------------
(* Pages                                                                        *)

(* A strict order of a finite set, that compares any two of its members, gives  *)
(* them the places from zero, each once: so many of them lie in a range of      *)
(* places as the range has places.                                              *)
Orders(R, S) ==
  /\ \A x \in S : <<x, x>> \notin R
  /\ \A x, y, z \in S : <<x, y>> \in R /\ <<y, z>> \in R => <<x, z>> \in R
  /\ \A x, y \in S : x = y \/ <<x, y>> \in R \/ <<y, x>> \in R

Placed(R, S, low, high) ==
  {x \in S : /\ low <= Cardinality({y \in S : <<y, x>> \in R})
             /\ Cardinality({y \in S : <<y, x>> \in R}) < high}

LEMMA RanksFill ==
  ASSUME NEW S, IsFiniteSet(S), NEW R, Orders(R, S), NEW low \in Nat, NEW high \in Nat
  PROVE  Cardinality(Placed(R, S, low, high))
           = Cardinality((low..(high - 1)) \cap 0..(Cardinality(S) - 1))
<1> USE DEF Orders, Placed
<1> DEFINE Earlier(x) == {y \in S : <<y, x>> \in R}
           rank == [x \in S |-> Cardinality(Earlier(x))]
           n == Cardinality(S)
           T == 0..(n - 1)
<1>1. n \in Nat
  BY FS_CardinalityType
<1>2. \A x \in S : /\ IsFiniteSet(Earlier(x)) /\ Earlier(x) \in SUBSET S
                   /\ Cardinality(Earlier(x)) \in Nat
  <2> SUFFICES ASSUME NEW x \in S
               PROVE  /\ IsFiniteSet(Earlier(x)) /\ Earlier(x) \in SUBSET S
                      /\ Cardinality(Earlier(x)) \in Nat
    OBVIOUS
  <2>1. Earlier(x) \in SUBSET S
    OBVIOUS
  <2> HIDE DEF Earlier
  <2>2. IsFiniteSet(Earlier(x))
    BY <2>1, FS_Subset
  <2> QED
    BY <2>1, <2>2, FS_CardinalityType
<1>3. ASSUME NEW x \in S
      PROVE  Cardinality(Earlier(x)) < n
  <2>1. x \in S /\ x \notin Earlier(x)
    OBVIOUS
  <2> HIDE DEF Earlier, n
  <2>2. Earlier(x) \in SUBSET S /\ Earlier(x) # S
    BY <1>2, <2>1
  <2>3. Cardinality(Earlier(x)) <= n /\ Cardinality(Earlier(x)) # n
    BY <2>2, FS_Subset DEF n
  <2> QED
    BY <1>1, <1>2, <2>3
<1>4. ASSUME NEW x \in S, NEW y \in S, <<x, y>> \in R
      PROVE  Cardinality(Earlier(x)) < Cardinality(Earlier(y))
  <2>1. Earlier(x) \in SUBSET Earlier(y) /\ x \in Earlier(y) /\ x \notin Earlier(x)
    BY <1>4
  <2> HIDE DEF Earlier
  <2>2. Earlier(x) # Earlier(y) /\ IsFiniteSet(Earlier(y))
    BY <1>2, <2>1
  <2>3. Cardinality(Earlier(x)) <= Cardinality(Earlier(y)) /\ Cardinality(Earlier(x)) # Cardinality(Earlier(y))
    BY <2>1, <2>2, FS_Subset
  <2> QED
    BY <1>2, <2>3
<1> HIDE DEF Earlier, n
<1>5. \A x \in S : rank[x] = Cardinality(Earlier(x)) /\ rank[x] \in T
  BY <1>1, <1>2, <1>3
<1>6. rank \in [S -> T]
  BY <1>5
<1>8. DOMAIN rank = S
  OBVIOUS
<1> HIDE DEF rank
<1>7. \A x, y \in S : rank[x] = rank[y] => x = y
  <2> SUFFICES ASSUME NEW x \in S, NEW y \in S, rank[x] = rank[y], x # y PROVE FALSE
    OBVIOUS
  <2>1. Cardinality(Earlier(x)) = Cardinality(Earlier(y)) /\ Cardinality(Earlier(x)) \in Nat
    BY <1>2, <1>5
  <2>2. <<x, y>> \in R \/ <<y, x>> \in R
    BY Zenon
  <2>3. Cardinality(Earlier(x)) < Cardinality(Earlier(y)) \/ Cardinality(Earlier(y)) < Cardinality(Earlier(x))
    BY <1>4, <2>2
  <2> QED
    BY <2>1, <2>3
<1>9. rank \in Injection(S, T)
  BY <1>6, <1>7, <1>8 DEF Injection, IsInjective
<1>10. IsFiniteSet(T) /\ Cardinality(T) = n
  <2>1. 0 \in Int /\ n - 1 \in Int
    BY <1>1
  <2> QED
    BY <1>1, <2>1, FS_Interval
<1> HIDE DEF T
<1>11. \A t \in T : \E x \in S : rank[x] = t
  BY <1>9, <1>10, FS_Injection DEF n, Surjection
<1> DEFINE U == {x \in S : low <= rank[x] /\ rank[x] < high}
           V == (low..(high - 1)) \cap T
           part == [x \in U |-> rank[x]]
<1>12. \A x \in U : rank[x] \in V
  BY <1>5 DEF T
<1>13. part \in [U -> V]
  BY <1>12
<1>14. DOMAIN part = U /\ \A x, y \in U : part[x] = part[y] => x = y
  BY <1>7
<1>15. \A v \in V : \E x \in U : part[x] = v
  <2> SUFFICES ASSUME NEW v \in V PROVE \E x \in U : rank[x] = v
    OBVIOUS
  <2>1. PICK x \in S : rank[x] = v
    BY <1>11
  <2>2. x \in U
    BY <2>1
  <2> QED
    BY <2>1, <2>2
<1>16. U \in SUBSET S
  OBVIOUS
<1>17. U = {x \in S : low <= Cardinality(Earlier(x)) /\ Cardinality(Earlier(x)) < high}
  BY <1>5
<1> HIDE DEF U, V, part
<1>18. part \in Bijection(U, V)
  BY <1>13, <1>14, <1>15 DEF Bijection, Injection, Surjection, IsInjective
<1>19. IsFiniteSet(U)
  BY <1>16, FS_Subset
<1>20. Cardinality(U) = Cardinality(V)
  BY <1>18, <1>19, FS_Bijection DEF ExistsBijection
<1> QED
  BY <1>17, <1>20 DEF Earlier, V, T, n

(* Tuples of six numbers, in the order of the first that differs.               *)
Sextuple == [1..6 -> Int]
Lexical(a, b) == \E i \in 1..6 : a[i] < b[i] /\ \A j \in 1..(i - 1) : a[j] = b[j]

LEMMA LexicalOrders ==
  /\ \A a \in Sextuple : ~Lexical(a, a)
  /\ \A a, b, c \in Sextuple : Lexical(a, b) /\ Lexical(b, c) => Lexical(a, c)
  /\ \A a, b \in Sextuple : a = b \/ Lexical(a, b) \/ Lexical(b, a)
<1>1. \A a \in Sextuple : ~Lexical(a, a)
  BY DEF Lexical, Sextuple
<1>2. ASSUME NEW a \in Sextuple, NEW b \in Sextuple, NEW c \in Sextuple, Lexical(a, b), Lexical(b, c)
      PROVE  Lexical(a, c)
  <2>1. PICK i \in 1..6 : a[i] < b[i] /\ \A m \in 1..(i - 1) : a[m] = b[m]
    BY <1>2 DEF Lexical
  <2>2. PICK j \in 1..6 : b[j] < c[j] /\ \A m \in 1..(j - 1) : b[m] = c[m]
    BY <1>2 DEF Lexical
  <2>3. \A m \in 1..6 : a[m] \in Int /\ b[m] \in Int /\ c[m] \in Int
    BY DEF Sextuple
  <2>4. CASE i <= j
    <3>1. a[i] < c[i]
      <4>1. CASE i = j
        BY <2>1, <2>2, <2>3, <4>1
      <4>2. CASE i < j
        <5>1. b[i] = c[i]
          BY <2>2, <4>2
        <5> QED
          BY <2>1, <5>1
      <4> QED
        BY <2>4, <4>1, <4>2
    <3>2. \A m \in 1..(i - 1) : a[m] = c[m]
      BY <2>1, <2>2, <2>4
    <3> QED
      BY <3>1, <3>2 DEF Lexical
  <2>5. CASE j < i
    <3>1. a[j] < c[j]
      BY <2>1, <2>2, <2>5
    <3>2. \A m \in 1..(j - 1) : a[m] = c[m]
      BY <2>1, <2>2, <2>5
    <3> QED
      BY <3>1, <3>2 DEF Lexical
  <2> QED
    BY <2>4, <2>5
<1>3. ASSUME NEW a \in Sextuple, NEW b \in Sextuple, a # b
      PROVE  Lexical(a, b) \/ Lexical(b, a)
  <2> DEFINE D == {i \in 1..6 : a[i] # b[i]}
  <2>1. D # {}
    BY <1>3 DEF Sextuple
  <2>2. D \in SUBSET Int /\ IsFiniteSet(D)
    <3>1. 1 \in Int /\ 6 \in Int /\ D \in SUBSET (1..6)
      OBVIOUS
    <3>2. IsFiniteSet(1..6)
      BY <3>1, FS_Interval
    <3> QED
      BY <3>1, <3>2, FS_Subset
  <2>3. PICK i \in D : \A j \in D : i <= j
    BY <2>1, <2>2, MinIs
  <2>4. i \in 1..6 /\ a[i] # b[i] /\ a[i] \in Int /\ b[i] \in Int
    BY DEF Sextuple
  <2>5. \A j \in 1..(i - 1) : a[j] = b[j]
    BY <2>3, <2>4
  <2>6. a[i] < b[i] \/ b[i] < a[i]
    BY <2>4
  <2> QED
    BY <2>4, <2>5, <2>6 DEF Lexical
<1> QED
  BY <1>1, <1>2, <1>3

LEMMA LettersAre ==
  /\ \A f \in FeatureNames : Letter(f) \in Int
  /\ \A f, g \in FeatureNames : Letter(f) = Letter(g) => f = g
  /\ \A r \in Regimes : Letter(r) \in Int
  /\ \A r, s \in Regimes : Letter(r) = Letter(s) => r = s
<1> DEFINE Words == {"all", "days_below", "discharge_mean", "discharge_min", "onset", "recovery"}
<1>1. Alphabet = <<"all", "days_below", "discharge_mean", "discharge_min", "onset", "recovery">>
  BY DEF Alphabet
<1>2. /\ DOMAIN Alphabet = 1..6 /\ Alphabet[1] = "all" /\ Alphabet[2] = "days_below"
      /\ Alphabet[3] = "discharge_mean" /\ Alphabet[4] = "discharge_min"
      /\ Alphabet[5] = "onset" /\ Alphabet[6] = "recovery"
  BY <1>1
<1>3. \A w \in Words : \E i \in DOMAIN Alphabet : Alphabet[i] = w
  BY <1>2
<1>4. \A w \in Words : Letter(w) \in DOMAIN Alphabet /\ Alphabet[Letter(w)] = w
  BY <1>3 DEF Letter
<1>5. FeatureNames \subseteq Words /\ Regimes \subseteq Words
  BY SignalsAssumption DEF FeatureNames
<1>6. \A w \in Words : Letter(w) \in Int
  BY <1>2, <1>4
<1> QED
  BY <1>4, <1>5, <1>6

(* The rows of a run are in one order, whatever ties there are among q-values.  *)
LEMMA KeysAre ==
  ASSUME NEW rows, NEW names, IsScanned(names), DOMAIN rows = Pairs(names), IsGated(rows)
  PROVE  /\ \A x \in DOMAIN rows : SortKey(rows, x) \in Sextuple
         /\ \A x, y \in DOMAIN rows : SortKey(rows, x) = SortKey(rows, y) => x = y
<1> DEFINE first(x) == IF rows[x].q = NULL THEN 1 ELSE 0
           second(x) == IF rows[x].q = NULL THEN 0 ELSE rows[x].q
<1>1. ASSUME NEW x \in DOMAIN rows
      PROVE  /\ x = <<x[1], x[2], x[3], x[4]>>
             /\ x[1] \in FeatureNames /\ x[2] \in Int /\ x[3] \in Int /\ x[4] \in Regimes
             /\ first(x) \in Int /\ second(x) \in Int
  <2>1. PICK f \in names, h \in Horizons, l \in Lags, r \in Regimes : x = <<f, h, l, r>>
    BY DEF Pairs
  <2>2. x[1] = f /\ x[2] = h /\ x[3] = l /\ x[4] = r
    BY <2>1
  <2>3. f \in FeatureNames /\ h \in Int /\ l \in Int
    BY FeaturesAssumption, SignalsAssumption DEF IsScanned
  <2>4. rows[x].q \in Int \cup {NULL}
    BY DEF IsGated, OptionalInt
  <2> QED
    BY <2>1, <2>2, <2>3, <2>4
<1>2. \A x : SortKey(rows, x) = <<first(x), second(x), Letter(x[1]), x[2], x[3], Letter(x[4])>>
  BY DEF SortKey
<1> HIDE DEF first, second
<1>3. ASSUME NEW x \in DOMAIN rows
      PROVE  SortKey(rows, x) \in Sextuple
  <2>1. Letter(x[1]) \in Int /\ Letter(x[4]) \in Int
    BY <1>1, LettersAre
  <2> QED
    BY <1>1, <1>2, <2>1 DEF Sextuple
<1>4. ASSUME NEW x \in DOMAIN rows, NEW y \in DOMAIN rows, SortKey(rows, x) = SortKey(rows, y)
      PROVE  x = y
  <2>1. Letter(x[1]) = Letter(y[1]) /\ x[2] = y[2] /\ x[3] = y[3] /\ Letter(x[4]) = Letter(y[4])
    BY <1>2, <1>4
  <2>2. x[1] = y[1] /\ x[4] = y[4]
    BY <1>1, <2>1, LettersAre
  <2> QED
    BY <1>1, <2>1, <2>2
<1> QED
  BY <1>3, <1>4

(* A page is as full as its limit and the rows there are allow.                 *)
LEMMA PageFills ==
  ASSUME NEW rows, NEW names, IsScanned(names), DOMAIN rows = Pairs(names), IsGated(rows),
         IsFiniteSet(DOMAIN rows), NEW passing, NEW bound, IsBound(bound)
  PROVE  LET matching == Matching(rows, passing)
         IN /\ PageOf(rows, passing, bound) \subseteq matching
            /\ Cardinality(PageOf(rows, passing, bound))
                 = Cardinality((bound.offset..(bound.offset + bound.limit - 1))
                               \cap 0..(Cardinality(matching) - 1))
<1> DEFINE S == Matching(rows, passing)
           key(x) == SortKey(rows, x)
           R == {p \in S \X S : Lexical(key(p[1]), key(p[2]))}
           low == bound.offset
           high == bound.offset + bound.limit
           Earlier(x) == {y \in S : Before(rows, y, x)}
<1>1. S \in SUBSET DOMAIN rows /\ IsFiniteSet(S)
  <2>1. S \in SUBSET DOMAIN rows
    BY DEF Matching
  <2> HIDE DEF S
  <2> QED
    BY <2>1, FS_Subset
<1>2. \A x, y \in S : <<x, y>> \in R <=> Lexical(key(x), key(y))
  OBVIOUS
<1>3. \A x, y \in S : <<x, y>> \in R <=> Before(rows, x, y)
  BY <1>2 DEF Lexical, Before
<1>4. PageOf(rows, passing, bound) =
        {x \in S : low <= Cardinality(Earlier(x)) /\ Cardinality(Earlier(x)) < high}
  BY DEF PageOf
<1> HIDE DEF S, R
<1>5. \A x \in S : {y \in S : <<y, x>> \in R} = Earlier(x)
  BY <1>3
<1>6. /\ \A x \in S : key(x) \in Sextuple
      /\ \A x, y \in S : key(x) = key(y) => x = y
  BY <1>1, KeysAre
<1> HIDE DEF key, Earlier
<1>7. Orders(R, S)
  <2>1. \A x \in S : <<x, x>> \notin R
    BY <1>2, <1>6, LexicalOrders
  <2>2. \A x, y, z \in S : <<x, y>> \in R /\ <<y, z>> \in R => <<x, z>> \in R
    BY <1>2, <1>6, LexicalOrders
  <2>3. \A x, y \in S : x = y \/ <<x, y>> \in R \/ <<y, x>> \in R
    BY <1>2, <1>6, LexicalOrders
  <2> QED
    BY <2>1, <2>2, <2>3 DEF Orders
<1>8. low \in Nat /\ high \in Nat
  BY DEF IsBound
<1> HIDE DEF low, high
<1>9. Cardinality(Placed(R, S, low, high))
        = Cardinality((low..(high - 1)) \cap 0..(Cardinality(S) - 1))
  BY <1>1, <1>7, <1>8, RanksFill
<1>10. Placed(R, S, low, high) = PageOf(rows, passing, bound)
  BY <1>4, <1>5 DEF Placed
<1>11. high - 1 = bound.offset + bound.limit - 1
  BY <1>8 DEF IsBound, high
<1> QED
  BY <1>4, <1>9, <1>10, <1>11 DEF S, low

-----------------------------------------------------------------------------
(* The sweeps and the request                                                   *)

LEMMA InitSweeps == Init => Sweeps /\ Pages
<1> SUFFICES ASSUME Init PROVE Sweeps /\ Pages
  OBVIOUS
<1>1. runs = << >> /\ page = NoPage /\ sweep = [s \in Sweepers |-> NoSweep]
  BY DEF Init
<1>2. \A s \in Sweepers : sweep[s].pc = "idle"
  BY <1>1 DEF NoSweep
<1>3. Sweeps
  BY <1>1, <1>2 DEF Sweeps
<1>4. Pages
  BY <1>1 DEF Pages, NoPage
<1> QED
  BY <1>3, <1>4

(* A sweep keeps its run when the others' runs move, or when it stands still.   *)
LEMMA SweepStands ==
  ASSUME NEW s \in Sweepers, SweepIs(s), sweep'[s] = sweep[s], DOMAIN runs \subseteq DOMAIN runs',
         runs'[sweep[s].run] = runs[sweep[s].run]
  PROVE  SweepIs(s)'
BY DEF SweepIs

LEMMA OpenKeepsSweeps ==
  ASSUME Tables, Sweeps, NEW s \in Sweepers, OpenRun(s)
  PROVE  Sweeps' /\ DOMAIN runs \subseteq DOMAIN runs' /\ \A i \in DOMAIN runs : runs'[i] = runs[i]
<1> DEFINE n == Len(runs)
<1>1. PICK filter \in Filters :
        LET names == Scanned(daily) \cap filter
        IN /\ sweep' = [sweep EXCEPT ![s] =
                [pc |-> "scanning", run |-> n + 1, names |-> names, scanned |-> << >>,
                 targets |-> NULL, columns |-> [f \in names |-> SeriesColumn(features[f])]]]
           /\ runs' = Append(runs, Opened(names))
  BY DEF OpenRun
<1> DEFINE names == Scanned(daily) \cap filter
           columns == [f \in names |-> SeriesColumn(features[f])]
           h == [pc |-> "scanning", run |-> n + 1, names |-> names, scanned |-> << >>,
                 targets |-> NULL, columns |-> columns]
<1>2. IsScanned(names)
  BY DEF Scanned, FeatureNames, IsScanned
<1>3. PICK R : runs \in Seq(R)
  BY DEF Sweeps
<1>4. sweep' = [sweep EXCEPT ![s] = h] /\ runs' = Append(runs, Opened(names))
  BY <1>1
<1> HIDE DEF names, columns
<1>5. runs \in Seq(R \cup {Opened(names)})
  BY <1>3
<1>6. /\ runs' \in Seq(R \cup {Opened(names)}) /\ Len(runs') = n + 1 /\ n \in Nat
      /\ DOMAIN runs = 1..n /\ DOMAIN runs' = 1..(n + 1) /\ runs'[n + 1] = Opened(names)
      /\ \A i \in 1..n : runs'[i] = runs[i]
  BY <1>4, <1>5
<1>7. RunIs(Opened(names))
  BY <1>2 DEF RunIs, Opened
<1>8. \A i \in DOMAIN runs' : RunIs(runs'[i])
  <2> SUFFICES ASSUME NEW i \in 1..(n + 1) PROVE RunIs(runs'[i])
    BY <1>6
  <2>1. CASE i = n + 1
    BY <1>6, <1>7, <2>1
  <2>2. CASE i # n + 1
    <3>1. i \in 1..n
      BY <1>6, <2>2
    <3> QED
      BY <1>6, <3>1 DEF Sweeps
  <2> QED
    BY <2>1, <2>2
<1>9. IsScan(<< >>) /\ DOMAIN << >> = {}
  BY DEF IsScan
<1>10. sweep'[s] = h /\ DOMAIN sweep' = Sweepers /\ \A u \in Sweepers : u # s => sweep'[u] = sweep[u]
  BY <1>4 DEF Sweeps
<1>11. /\ h.pc = "scanning" /\ h.run = n + 1 /\ h.names = names /\ h.scanned = << >>
       /\ h.targets = NULL /\ h.columns = columns
       /\ h = [pc |-> "scanning", run |-> h.run, names |-> h.names, scanned |-> h.scanned,
               targets |-> h.targets, columns |-> h.columns]
  OBVIOUS
<1> HIDE DEF h
<1>12. SweepIs(s)'
  <2>1. n + 1 \in DOMAIN runs' /\ ~runs'[n + 1].finished /\ runs'[n + 1].grid = Pairs(names)
    BY <1>6 DEF Opened
  <2>2. /\ sweep'[s].run = n + 1 /\ sweep'[s].names = names /\ sweep'[s].scanned = << >>
        /\ sweep'[s].targets = NULL
        /\ sweep'[s] = [pc |-> "scanning", run |-> sweep'[s].run, names |-> sweep'[s].names,
                        scanned |-> sweep'[s].scanned, targets |-> sweep'[s].targets,
                        columns |-> sweep'[s].columns]
    BY <1>10, <1>11
  <2> QED
    BY <1>2, <1>9, <2>1, <2>2 DEF SweepIs
<1>13. \A u \in Sweepers : u # s /\ sweep[u].pc = "scanning" => SweepIs(u)' /\ sweep'[u].run # n + 1
  <2> SUFFICES ASSUME NEW u \in Sweepers, u # s, sweep[u].pc = "scanning"
               PROVE  SweepIs(u)' /\ sweep'[u].run # n + 1
    OBVIOUS
  <2>1. SweepIs(u) /\ sweep'[u] = sweep[u]
    BY <1>10 DEF Sweeps
  <2>2. sweep[u].run \in 1..n
    BY <1>6, <2>1 DEF SweepIs
  <2>3. runs'[sweep[u].run] = runs[sweep[u].run] /\ DOMAIN runs \subseteq DOMAIN runs'
    BY <1>6, <2>2
  <2> QED
    BY <1>6, <2>1, <2>2, <2>3, SweepStands
<1>14. \A u \in Sweepers : /\ sweep'[u].pc \in {"idle", "scanning"}
                           /\ sweep'[u].pc = "scanning" => SweepIs(u)'
  BY <1>10, <1>11, <1>12, <1>13 DEF Sweeps
<1>15. \A u, v \in Sweepers : /\ sweep'[u].pc = "scanning" /\ sweep'[v].pc = "scanning"
                              /\ sweep'[u].run = sweep'[v].run
                              => u = v
  BY <1>10, <1>11, <1>13 DEF Sweeps
<1>16. Sweeps'
  BY <1>6, <1>8, <1>10, <1>14, <1>15 DEF Sweeps
<1> QED
  BY <1>6, <1>16

LEMMA NextFeatureIs ==
  ASSUME NEW s \in Sweepers, SweepIs(s), Left(s) # {}
  PROVE  NextFeature(s) \in Left(s) /\ NextFeature(s) \in sweep[s].names
<1> DEFINE S == {i \in DOMAIN Registry : Registry[i] \in Left(s)}
<1>1. DOMAIN Registry = 1..3 /\ \A f \in FeatureNames : \E i \in 1..3 : Registry[i] = f
  BY RegistryIs
<1>2. Left(s) \subseteq sweep[s].names /\ Left(s) \subseteq FeatureNames
  BY DEF Left, SweepIs, IsScanned
<1>3. S # {}
  BY <1>1, <1>2
<1>4. S \in SUBSET Int /\ IsFiniteSet(S)
  <2>1. 1..3 \in SUBSET Int /\ IsFiniteSet(1..3)
    <3>1. 1 \in Int /\ 3 \in Int
      OBVIOUS
    <3>2. IsFiniteSet(1..3)
      BY <3>1, FS_Interval
    <3> QED
      BY <3>2
  <2>2. S \subseteq 1..3
    BY <1>1
  <2> QED
    BY <2>1, <2>2, FS_Subset
<1>5. Min(S) \in S
  BY <1>3, <1>4, MinIs
<1> QED
  BY <1>2, <1>5 DEF NextFeature

LEMMA ScanKeepsSweeps ==
  ASSUME Tables, Sweeps, NEW s \in Sweepers, Scan(s)
  PROVE  Sweeps'
<1> DEFINE g == sweep[s]
           f == NextFeature(s)
           series == FeatureSeries(s, f)
           read == TargetSeries(s)
           rows == [x \in Pairs({f}) |-> ScanOne(Aligned(series, read, x[2], x[3], x[4]), x[2])]
           o == Overlay(rows, g.scanned)
           h == [pc |-> "scanning", run |-> g.run, names |-> g.names, scanned |-> o,
                 targets |-> read, columns |-> g.columns]
<1>1. /\ g.pc = "scanning" /\ Left(s) # {} /\ runs' = runs
      /\ sweep' = [sweep EXCEPT ![s].targets = read, ![s].scanned = o]
  BY DEF Scan
<1>2. SweepIs(s) /\ DOMAIN sweep = Sweepers
  BY <1>1 DEF Sweeps
<1>3. f \in g.names /\ f \in FeatureNames
  BY <1>1, <1>2, NextFeatureIs DEF SweepIs, IsScanned
<1>4. IsTargets(read)
  BY <1>2 DEF TargetSeries, SweepIs, Tables
<1>5. \A d \in DOMAIN series : series[d] \in OptionalInt
  <2>1. IsTable(features[f])
    BY <1>3 DEF Tables
  <2> QED
    BY <2>1 DEF FeatureSeries, IsTable, FeatureRow
<1> HIDE DEF f, series, read
<1>6. IsScan(rows) /\ DOMAIN rows = Pairs({f})
  <2>1. ASSUME NEW x \in Pairs({f})
        PROVE  rows[x].p \in OptionalInt /\ (rows[x].p # NULL => rows[x].p <= 100)
    <3> DEFINE aligned == Aligned(series, read, x[2], x[3], x[4])
    <3>1. x[2] \in Horizons
      BY GridsAreFinite
    <3>2. IsSample(aligned)
      BY <1>4, <1>5, <3>1, AlignedIs
    <3>3. rows[x] = ScanOne(aligned, x[2])
      OBVIOUS
    <3> HIDE DEF aligned, rows
    <3> QED
      BY <3>2, <3>3, ScanOneIs
  <2>2. DOMAIN rows = Pairs({f})
    OBVIOUS
  <2> HIDE DEF rows
  <2> QED
    BY <2>1, <2>2 DEF IsScan
<1> HIDE DEF rows
<1>7. /\ DOMAIN o = DOMAIN rows \cup DOMAIN g.scanned
      /\ \A x \in DOMAIN o : \/ x \in DOMAIN rows /\ o[x] = rows[x]
                             \/ x \in DOMAIN g.scanned /\ o[x] = g.scanned[x]
  BY DEF Overlay
<1> HIDE DEF o
<1>8. IsScan(o)
  BY <1>2, <1>6, <1>7 DEF IsScan, SweepIs
<1>9. DOMAIN o \subseteq Pairs(g.names)
  <2>1. Pairs({f}) \subseteq Pairs(g.names)
    BY <1>3 DEF Pairs
  <2> QED
    BY <1>2, <1>6, <1>7, <2>1 DEF SweepIs
<1>10. \A x \in DOMAIN o : Pairs({x[1]}) \subseteq DOMAIN o
  <2> SUFFICES ASSUME NEW x \in DOMAIN o PROVE Pairs({x[1]}) \subseteq DOMAIN o
    OBVIOUS
  <2>1. CASE x \in DOMAIN rows
    <3>1. x[1] = f
      BY <1>6, <2>1, GridsAreFinite
    <3> QED
      BY <1>6, <1>7, <3>1
  <2>2. CASE x \in DOMAIN g.scanned
    BY <1>2, <1>7, <2>2 DEF SweepIs
  <2> QED
    BY <1>7, <2>1, <2>2
<1>11. g = [pc |-> "scanning", run |-> g.run, names |-> g.names, scanned |-> g.scanned,
            targets |-> g.targets, columns |-> g.columns]
  BY <1>2 DEF SweepIs
<1>12. sweep'[s] = h /\ DOMAIN sweep' = Sweepers /\ \A u \in Sweepers : u # s => sweep'[u] = sweep[u]
  <2>1. sweep'[s] = [g EXCEPT !.targets = read, !.scanned = o]
    BY <1>1, <1>2
  <2>2. [g EXCEPT !.targets = read, !.scanned = o] = h
    <3> DEFINE m == [g EXCEPT !.targets = read]
               e == [g EXCEPT !.targets = read, !.scanned = o]
    <3>1. /\ m = [pc |-> "scanning", run |-> g.run, names |-> g.names, scanned |-> g.scanned,
                  targets |-> read, columns |-> g.columns]
          /\ e = [m EXCEPT !.scanned = o]
      BY <1>11
    <3> HIDE DEF m, e
    <3>2. /\ e.pc = "scanning" /\ e.run = g.run /\ e.names = g.names /\ e.scanned = o
          /\ e.targets = read /\ e.columns = g.columns
          /\ DOMAIN e = DOMAIN m /\ e = [d \in DOMAIN e |-> e[d]]
          /\ DOMAIN m = {"pc", "run", "names", "scanned", "targets", "columns"}
      BY <3>1
    <3>3. e = h
      BY <3>2
    <3> QED
      BY <3>3 DEF e
  <2> QED
    BY <1>1, <1>2, <2>1, <2>2
<1>13. /\ h.pc = "scanning" /\ h.run = g.run /\ h.names = g.names /\ h.scanned = o /\ h.targets = read
       /\ h = [pc |-> "scanning", run |-> h.run, names |-> h.names, scanned |-> h.scanned,
               targets |-> h.targets, columns |-> h.columns]
  OBVIOUS
<1> HIDE DEF h
<1>14. SweepIs(s)'
  <2>1. /\ IsScanned(g.names) /\ g.run \in DOMAIN runs
        /\ ~runs[g.run].finished /\ runs[g.run].grid = Pairs(g.names)
    BY <1>2 DEF SweepIs
  <2>2. /\ sweep'[s].run = g.run /\ sweep'[s].names = g.names /\ sweep'[s].scanned = o
        /\ sweep'[s].targets = read
        /\ sweep'[s] = [pc |-> "scanning", run |-> sweep'[s].run, names |-> sweep'[s].names,
                        scanned |-> sweep'[s].scanned, targets |-> sweep'[s].targets,
                        columns |-> sweep'[s].columns]
    BY <1>12, <1>13
  <2> QED
    BY <1>1, <1>4, <1>8, <1>9, <1>10, <2>1, <2>2 DEF SweepIs
<1>15. \A u \in Sweepers : u # s /\ sweep[u].pc = "scanning" => SweepIs(u)'
  BY <1>1, <1>12, SweepStands DEF Sweeps
<1>16. \A u \in Sweepers : /\ sweep'[u].pc = sweep[u].pc
                           /\ sweep[u].pc = "scanning" => SweepIs(u)' /\ sweep'[u].run = sweep[u].run
  BY <1>1, <1>12, <1>13, <1>14, <1>15
<1> QED
  BY <1>1, <1>12, <1>16 DEF Sweeps

(* Closing a run is the only step that moves one, and moves its own alone.      *)
LEMMA CloseRunIs ==
  ASSUME Sweeps, NEW s \in Sweepers, CloseRun(s)
  PROVE  LET n == sweep[s].run
         IN /\ n \in DOMAIN runs /\ ~runs[n].finished
            /\ DOMAIN runs' = DOMAIN runs /\ RunIs(runs'[n])
            /\ runs'[n].finished /\ runs'[n].grid = runs[n].grid
            /\ \A i \in DOMAIN runs : i # n => runs'[i] = runs[i]
            /\ \E R : runs' \in Seq(R)
<1> DEFINE g == sweep[s]
           n == g.run
           old == runs[n]
           r == [old EXCEPT !.finished = TRUE, !.rows = AdjustAndGate(g.scanned)]
<1>1. /\ g.pc = "scanning" /\ Left(s) = {}
      /\ runs' = [runs EXCEPT ![n] = [@ EXCEPT !.finished = TRUE, !.rows = Written(g.scanned)]]
  BY DEF CloseRun
<1>2. SweepIs(s)
  BY <1>1 DEF Sweeps
<1>3. n \in DOMAIN runs /\ ~old.finished /\ old.grid = Pairs(g.names) /\ RunIs(old)
  BY <1>2 DEF SweepIs, Sweeps
<1>4. {"finished", "rows", "grid"} \subseteq DOMAIN old
  BY <1>3 DEF RunIs
<1>5. runs' = [runs EXCEPT ![n] = r]
  BY <1>1 DEF Written
<1> HIDE DEF old
<1>6. /\ r.finished = TRUE /\ r.rows = AdjustAndGate(g.scanned) /\ r.grid = old.grid
      /\ DOMAIN r = DOMAIN old
  BY <1>4
<1> HIDE DEF r
<1>7. DOMAIN g.scanned = Pairs(g.names)
  <2>1. DOMAIN g.scanned \subseteq Pairs(g.names)
    BY <1>2 DEF SweepIs
  <2>2. ASSUME NEW x \in Pairs(g.names)
        PROVE  x \in DOMAIN g.scanned
    <3>1. x[1] \in g.names /\ x \in Pairs({x[1]})
      BY GridsAreFinite
    <3>2. PICK y \in DOMAIN g.scanned : y[1] = x[1]
      BY <1>1, <3>1 DEF Left
    <3>3. Pairs({y[1]}) \subseteq DOMAIN g.scanned
      BY <1>2 DEF SweepIs
    <3> QED
      BY <3>1, <3>2, <3>3
  <2> QED
    BY <2>1, <2>2
<1>8. IsScan(g.scanned) /\ IsScanned(g.names)
  BY <1>2 DEF SweepIs
<1>9. RunIs(r)
  BY <1>3, <1>4, <1>6, <1>7, <1>8 DEF RunIs
<1>10. PICK R : runs \in Seq(R)
  BY DEF Sweeps
<1>11. DOMAIN runs' = DOMAIN runs /\ runs'[n] = r /\ \A i \in DOMAIN runs : i # n => runs'[i] = runs[i]
  BY <1>3, <1>5, <1>10
<1>12. runs' \in Seq(R \cup {r})
  <2>1. runs \in Seq(R \cup {r})
    BY <1>10
  <2> HIDE DEF g
  <2> QED
    BY <1>3, <1>5, <2>1
<1> QED
  BY <1>3, <1>6, <1>9, <1>11, <1>12 DEF old

LEMMA CloseKeepsSweeps ==
  ASSUME Sweeps, NEW s \in Sweepers, CloseRun(s)
  PROVE  Sweeps'
<1> DEFINE n == sweep[s].run
<1>1. /\ n \in DOMAIN runs /\ RunIs(runs'[n]) /\ DOMAIN runs' = DOMAIN runs
      /\ \A i \in DOMAIN runs : i # n => runs'[i] = runs[i]
      /\ \E R : runs' \in Seq(R)
  BY CloseRunIs
<1>2. \A i \in DOMAIN runs' : RunIs(runs'[i])
  BY <1>1 DEF Sweeps
<1>3. sweep[s].pc = "scanning" /\ sweep' = [sweep EXCEPT ![s] = NoSweep]
  BY DEF CloseRun
<1>4. /\ DOMAIN sweep' = Sweepers /\ sweep'[s].pc = "idle"
      /\ \A u \in Sweepers : u # s => sweep'[u] = sweep[u]
  BY <1>3 DEF Sweeps, NoSweep
<1>5. \A u \in Sweepers : u # s /\ sweep[u].pc = "scanning" => SweepIs(u)'
  <2> SUFFICES ASSUME NEW u \in Sweepers, u # s, sweep[u].pc = "scanning" PROVE SweepIs(u)'
    OBVIOUS
  <2>1. SweepIs(u) /\ sweep[u].run # n
    BY <1>3 DEF Sweeps
  <2>2. runs'[sweep[u].run] = runs[sweep[u].run]
    BY <1>1, <2>1 DEF SweepIs
  <2> QED
    BY <1>1, <1>4, <2>1, <2>2, SweepStands
<1> QED
  BY <1>1, <1>2, <1>4, <1>5 DEF Sweeps

LEMMA DieKeepsSweeps ==
  ASSUME Sweeps, NEW s \in Sweepers, DieSweep(s)
  PROVE  Sweeps'
<1>1. sweep' = [sweep EXCEPT ![s] = NoSweep] /\ runs' = runs
  BY DEF DieSweep
<1>2. /\ DOMAIN sweep' = Sweepers /\ sweep'[s].pc = "idle"
      /\ \A u \in Sweepers : u # s => sweep'[u] = sweep[u]
  BY <1>1 DEF Sweeps, NoSweep
<1>3. \A u \in Sweepers : u # s /\ sweep[u].pc = "scanning" => SweepIs(u)'
  BY <1>1, <1>2, SweepStands DEF Sweeps
<1> QED
  BY <1>1, <1>2, <1>3 DEF Sweeps

LEMMA SweepsStand ==
  ASSUME Sweeps, UNCHANGED <<sweep, runs>>
  PROVE  Sweeps'
<1>1. \A s \in Sweepers : SweepIs(s) => SweepIs(s)'
  BY SweepStands
<1> QED
  BY <1>1 DEF Sweeps

(* An answer under way survives what the sweep does: a run that has ended does  *)
(* not move.                                                                    *)
LEMMA RunsMoveUnderAnswers ==
  ASSUME Pages, page' = page, DOMAIN runs \subseteq DOMAIN runs',
         \A i \in DOMAIN runs : runs[i].finished => runs'[i] = runs[i]
  PROVE  Pages'
<1>1. ASSUME NEW s, SummaryIs(s)
      PROVE  /\ SummaryIs(s)'
             /\ \A passing, total : TotalFits(s, passing, total) => TotalFits(s, passing, total)'
             /\ \A passing, bound, rows : RowsFit(s, passing, bound, rows) => RowsFit(s, passing, bound, rows)'
  <2>1. /\ s.run \in DOMAIN runs /\ s.run \in DOMAIN runs'
        /\ runs[s.run].finished => runs'[s.run] = runs[s.run]
        /\ s.finished => runs[s.run].finished
    BY <1>1 DEF SummaryIs
  <2>2. CASE runs[s.run].finished
    <3>1. runs'[s.run] = runs[s.run]
      BY <2>1, <2>2
    <3> QED
      BY <1>1, <2>1, <3>1 DEF SummaryIs, TotalFits, RowsFit
  <2>3. CASE ~runs[s.run].finished
    <3>1. ~s.finished
      BY <2>1, <2>3
    <3>2. SummaryIs(s)'
      BY <1>1, <2>1, <3>1 DEF SummaryIs
    <3>3. ASSUME NEW passing, NEW total, TotalFits(s, passing, total)
          PROVE  total = 0
      BY <2>3, <3>3 DEF TotalFits
    <3>4. ASSUME NEW passing, NEW total, TotalFits(s, passing, total)
          PROVE  TotalFits(s, passing, total)'
      BY <3>1, <3>3, <3>4 DEF TotalFits
    <3>5. ASSUME NEW passing, NEW bound, NEW rows, RowsFit(s, passing, bound, rows)
          PROVE  RowsFit(s, passing, bound, rows)'
      <4>1. rows = {}
        BY <2>3, <3>5 DEF RowsFit
      <4> QED
        BY <3>1, <4>1 DEF RowsFit
    <3> QED
      BY <3>2, <3>4, <3>5
  <2> QED
    BY <2>2, <2>3
<1>2. page.pc \in {"summarised", "counted"} => SummaryIs(page.summary)'
  BY <1>1 DEF Pages
<1>3. page.pc = "counted" => TotalFits(page.summary, page.passing, page.total)'
  BY <1>1 DEF Pages
<1>4. page.pc = "answered" /\ page.summary # NULL =>
        /\ IsAsked(page)
        /\ SummaryIs(page.summary)' /\ TotalFits(page.summary, page.passing, page.total)'
        /\ RowsFit(page.summary, page.passing, page.bound, page.rows)'
  BY <1>1 DEF Pages
<1>5. /\ page.pc \in {"idle", "resolved", "not_found", "summarised", "counted", "answered"}
      /\ page.pc \in {"resolved", "summarised", "counted"} => IsAsked(page)
  BY DEF Pages
<1>6. /\ (page.pc \in {"summarised", "counted"} => SummaryIs(page.summary))'
      /\ (page.pc = "counted" => TotalFits(page.summary, page.passing, page.total))'
      /\ (page.pc = "answered" /\ page.summary # NULL =>
            /\ IsAsked(page)
            /\ SummaryIs(page.summary) /\ TotalFits(page.summary, page.passing, page.total)
            /\ RowsFit(page.summary, page.passing, page.bound, page.rows))'
  BY <1>2, <1>3, <1>4 DEF SummaryIs, TotalFits, RowsFit
<1> QED
  BY <1>5, <1>6 DEF Pages

LEMMA EmptyRuns ==
  ASSUME Sweeps, NEW i \in DOMAIN runs, ~runs[i].finished
  PROVE  /\ DOMAIN runs[i].rows = {} /\ \A passing : Matching(runs[i].rows, passing) = {}
         /\ \A passing, bound : PageOf(runs[i].rows, passing, bound) = {}
<1>1. runs[i].rows = << >>
  BY DEF Sweeps, RunIs
<1>2. \A passing : Matching(runs[i].rows, passing) = {}
  BY <1>1 DEF Matching
<1>3. \A passing, bound : PageOf(runs[i].rows, passing, bound) \subseteq Matching(runs[i].rows, passing)
  BY DEF PageOf
<1> QED
  BY <1>1, <1>2, <1>3

LEMMA RequestKeepsPages ==
  ASSUME Sweeps, Pages, AskSignals \/ ReadSummary \/ CountRows \/ ReadRows
  PROVE  Pages'
<1>0. runs' = runs
  BY DEF AskSignals, ReadSummary, CountRows, ReadRows
<1>1. CASE AskSignals
  <2>1. PICK named \in {NULL, 1}, passing \in BOOLEAN, bound \in PageBounds :
          LET run == IF named = NULL THEN LatestRun ELSE named
          IN page' = IF run = NULL
                     THEN [pc |-> "answered", passing |-> passing, bound |-> bound,
                           summary |-> NULL, total |-> 0, rows |-> {}]
                     ELSE [pc |-> "resolved", passing |-> passing, bound |-> bound, run |-> run]
    BY <1>1 DEF AskSignals
  <2>2. IsBound(bound)
    BY ResearchAssumption DEF IsBound
  <2>3. \/ page'.pc = "answered" /\ page'.summary = NULL
        \/ page'.pc = "resolved" /\ page'.passing \in BOOLEAN /\ page'.bound = bound
    BY <2>1
  <2>4. \/ page'.pc = "answered" /\ page'.summary = NULL
        \/ page'.pc = "resolved" /\ IsAsked(page)'
    BY <2>2, <2>3 DEF IsAsked, IsBound
  <2> QED
    BY <2>4 DEF Pages
<1>2. CASE ReadSummary
  <2> DEFINE i == page.run
             summary == RunSummary(i)
  <2>1. /\ page.pc = "resolved" /\ IsAsked(page)
        /\ page' = IF summary = NULL THEN [pc |-> "not_found"]
                   ELSE [pc |-> "summarised", passing |-> page.passing, bound |-> page.bound,
                         summary |-> summary]
    BY <1>2 DEF ReadSummary, Pages
  <2>2. CASE summary = NULL
    <3>1. page'.pc = "not_found"
      BY <2>1, <2>2
    <3> QED
      BY <3>1 DEF Pages
  <2>3. CASE summary # NULL
    <3>1. i \in DOMAIN runs
      BY <2>3 DEF RunSummary
    <3>2. /\ summary.run = i /\ summary.finished = runs[i].finished
          /\ summary.grid = Cardinality(runs[i].grid)
          /\ summary.scanned = Cardinality(DOMAIN runs[i].rows)
          /\ summary.passing = Cardinality(Matching(runs[i].rows, TRUE))
      BY <3>1 DEF RunSummary
    <3> HIDE DEF summary
    <3>3. ~runs[i].finished => summary.scanned = 0
      BY <3>1, <3>2, EmptyRuns, FS_EmptySet
    <3>4. SummaryIs(summary)
      BY <3>1, <3>2, <3>3 DEF SummaryIs
    <3>5. page'.pc = "summarised" /\ IsAsked(page)' /\ page'.summary = summary
      BY <2>1, <2>3 DEF IsAsked, IsBound
    <3>6. SummaryIs(page.summary)'
      BY <1>0, <3>4, <3>5 DEF SummaryIs
    <3> QED
      BY <3>5, <3>6 DEF Pages
  <2> QED
    BY <2>2, <2>3
<1>3. CASE CountRows
  <2> DEFINE s == page.summary
             matching == Matching(runs[s.run].rows, page.passing)
  <2>1. /\ page.pc = "summarised" /\ IsAsked(page) /\ SummaryIs(s)
        /\ page' = [pc |-> "counted", passing |-> page.passing, bound |-> page.bound,
                    summary |-> s, total |-> Cardinality(matching)]
    BY <1>3 DEF CountRows, Pages
  <2>2. s.run \in DOMAIN runs /\ (s.finished => runs[s.run].finished)
    BY <2>1 DEF SummaryIs
  <2>3. ~runs[s.run].finished => Cardinality(matching) = 0
    BY <2>2, EmptyRuns, FS_EmptySet
  <2>4. TotalFits(s, page.passing, Cardinality(matching))
    BY <2>2, <2>3 DEF TotalFits
  <2>5. /\ page'.pc = "counted" /\ page'.passing = page.passing /\ page'.bound = page.bound
        /\ page'.summary = s /\ page'.total = Cardinality(matching)
    BY <2>1
  <2> HIDE DEF s, matching
  <2>6. IsAsked(page)' /\ SummaryIs(page.summary)' /\ TotalFits(page.summary, page.passing, page.total)'
    BY <1>0, <2>1, <2>4, <2>5 DEF SummaryIs, TotalFits, IsAsked, IsBound
  <2> QED
    BY <2>5, <2>6 DEF Pages
<1>4. CASE ReadRows
  <2> DEFINE s == page.summary
             shown == PageOf(runs[s.run].rows, page.passing, page.bound)
  <2>1. /\ page.pc = "counted" /\ IsAsked(page) /\ SummaryIs(s)
        /\ TotalFits(s, page.passing, page.total)
        /\ page' = [pc |-> "answered", passing |-> page.passing, bound |-> page.bound,
                    summary |-> s, total |-> page.total, rows |-> shown]
    BY <1>4 DEF ReadRows, Pages
  <2>2. s.run \in DOMAIN runs
    BY <2>1 DEF SummaryIs
  <2>3. ~runs[s.run].finished => shown = {}
    BY <2>2, EmptyRuns
  <2>4. RowsFit(s, page.passing, page.bound, shown)
    BY <2>3 DEF RowsFit
  <2>5. /\ page'.pc = "answered" /\ page'.passing = page.passing /\ page'.bound = page.bound
        /\ page'.summary = s /\ page'.total = page.total /\ page'.rows = shown
    BY <2>1
  <2> HIDE DEF s, shown
  <2>6. /\ IsAsked(page)' /\ SummaryIs(page.summary)' /\ TotalFits(page.summary, page.passing, page.total)'
        /\ RowsFit(page.summary, page.passing, page.bound, page.rows)'
    BY <1>0, <2>1, <2>4, <2>5 DEF SummaryIs, TotalFits, RowsFit, IsAsked, IsBound
  <2> QED
    BY <2>5, <2>6 DEF Pages
<1> QED
  BY <1>1, <1>2, <1>3, <1>4

LEMMA FinishedRunsAreWhole == Sweeps => FinishedRunIsWhole
<1> SUFFICES ASSUME Sweeps, NEW i \in DOMAIN runs
             PROVE  LET rows == runs[i].rows
                        tested == {x \in DOMAIN rows : rows[x].p # NULL}
                        rank(x) == Cardinality({y \in tested : rows[y].p <= rows[x].p})
                        rejected == {x \in tested : \E y \in tested :
                                       /\ rows[x].p <= rows[y].p
                                       /\ rows[y].p * Cardinality(tested) <= MaxQ * rank(y)}
                    IN /\ ~runs[i].finished => rows = << >>
                       /\ runs[i].finished =>
                            /\ DOMAIN rows = runs[i].grid
                            /\ \A x \in DOMAIN rows :
                                 /\ (x \in tested /\ rows[x].q <= MaxQ) <=> x \in rejected
                                 /\ rows[x].passes => x \in rejected /\ rows[x].tests = Cardinality(tested)
  BY DEF FinishedRunIsWhole
<1>1. RunIs(runs[i])
  BY DEF Sweeps
<1>2. CASE ~runs[i].finished
  BY <1>1, <1>2 DEF RunIs
<1>3. CASE runs[i].finished
  <2>1. PICK scanned : /\ IsScan(scanned) /\ DOMAIN scanned = runs[i].grid
                       /\ runs[i].rows = AdjustAndGate(scanned)
    BY <1>1, <1>3 DEF RunIs
  <2>2. IsFiniteSet(DOMAIN scanned)
    BY <1>1, <2>1, GridsAreFinite DEF RunIs
  <2>3. DOMAIN runs[i].rows = runs[i].grid /\ IsAdjusted(runs[i].rows)
    BY <2>1, <2>2, AdjustedRowsAre
  <2> QED
    BY <1>3, <2>3 DEF IsAdjusted
<1> QED
  BY <1>2, <1>3

(* The rows of a run that has ended.                                            *)
LEMMA EndedRunIs ==
  ASSUME Sweeps, NEW i \in DOMAIN runs, runs[i].finished
  PROVE  LET rows == runs[i].rows
         IN /\ IsFiniteSet(DOMAIN rows) /\ DOMAIN rows = runs[i].grid
            /\ \E names : IsScanned(names) /\ DOMAIN rows = Pairs(names)
            /\ IsGated(rows)
<1>1. RunIs(runs[i])
  BY DEF Sweeps
<1>2. PICK scanned : /\ IsScan(scanned) /\ DOMAIN scanned = runs[i].grid
                     /\ runs[i].rows = AdjustAndGate(scanned)
  BY <1>1 DEF RunIs
<1>3. PICK names : IsScanned(names) /\ runs[i].grid = Pairs(names)
  BY <1>1 DEF RunIs
<1>4. IsFiniteSet(DOMAIN scanned)
  BY <1>2, <1>3, GridsAreFinite
<1>5. DOMAIN runs[i].rows = DOMAIN scanned
  BY <1>2, <1>4, AdjustedRowsAre
<1>6. IsGated(runs[i].rows)
  BY <1>2, <1>4, AdjustedRowsAre
<1> QED
  BY <1>2, <1>3, <1>4, <1>5, <1>6

LEMMA PagesShowWholeRuns == Sweeps /\ Pages => AnswersAreOfAWholeRun
<1> SUFFICES ASSUME Sweeps, Pages, page.pc = "answered", page.summary # NULL
             PROVE  LET summary == page.summary
                        rows == runs[summary.run].rows
                        matching == Matching(rows, page.passing)
                        room == page.bound.offset..(page.bound.offset + page.bound.limit - 1)
                    IN /\ page.rows \in {{}, PageOf(rows, page.passing, page.bound)}
                       /\ summary.finished =>
                            /\ summary.scanned = summary.grid
                            /\ page.total = IF page.passing THEN summary.passing ELSE summary.scanned
                            /\ Cardinality(page.rows) = Cardinality(room \cap 0..(page.total - 1))
                       /\ ~summary.finished => summary.scanned = 0
                       /\ page.total \in {0, Cardinality(matching)}
                       /\ page.rows # {} => runs[summary.run].finished
  BY DEF AnswersAreOfAWholeRun
<1> DEFINE s == page.summary
           rows == runs[s.run].rows
           room == page.bound.offset..(page.bound.offset + page.bound.limit - 1)
<1>1. /\ IsAsked(page)
      /\ SummaryIs(s) /\ TotalFits(s, page.passing, page.total)
      /\ RowsFit(s, page.passing, page.bound, page.rows)
  BY DEF Pages
<1>2. page.rows \in {{}, PageOf(rows, page.passing, page.bound)}
  BY <1>1 DEF RowsFit
<1>3. page.rows # {} => runs[s.run].finished
  BY <1>1 DEF RowsFit
<1>4. ~s.finished => s.scanned = 0
  BY <1>1 DEF SummaryIs
<1>5. page.total \in {0, Cardinality(Matching(rows, page.passing))}
  BY <1>1 DEF TotalFits
<1>6. ASSUME s.finished
      PROVE  /\ s.scanned = s.grid
             /\ page.total = IF page.passing THEN s.passing ELSE s.scanned
             /\ Cardinality(page.rows) = Cardinality(room \cap 0..(page.total - 1))
  <2>1. /\ s.run \in DOMAIN runs /\ runs[s.run].finished
        /\ s.grid = Cardinality(runs[s.run].grid) /\ s.scanned = Cardinality(DOMAIN rows)
        /\ s.passing = Cardinality(Matching(rows, TRUE))
    BY <1>1, <1>6 DEF SummaryIs
  <2>2. /\ IsFiniteSet(DOMAIN rows) /\ DOMAIN rows = runs[s.run].grid /\ IsGated(rows)
        /\ \E names : IsScanned(names) /\ DOMAIN rows = Pairs(names)
    BY <2>1, EndedRunIs
  <2>3. /\ page.rows = PageOf(rows, page.passing, page.bound)
        /\ page.total = Cardinality(Matching(rows, page.passing))
    BY <1>1, <1>6 DEF TotalFits, RowsFit
  <2>4. page.total = IF page.passing THEN s.passing ELSE s.scanned
    <3>1. CASE page.passing = TRUE
      BY <2>1, <2>3, <3>1
    <3>2. CASE page.passing = FALSE
      <4>1. Matching(rows, FALSE) = DOMAIN rows
        BY DEF Matching
      <4> HIDE DEF rows
      <4>2. page.total = Cardinality(DOMAIN rows)
        BY <2>3, <3>2, <4>1
      <4> QED
        BY <2>1, <3>2, <4>2
    <3> QED
      BY <1>1, <3>1, <3>2 DEF IsAsked
  <2>5. Cardinality(PageOf(rows, page.passing, page.bound))
          = Cardinality(room \cap 0..(Cardinality(Matching(rows, page.passing)) - 1))
    <3> HIDE DEF rows
    <3> QED
      BY <1>1, <2>2, PageFills DEF IsAsked
  <2> HIDE DEF rows, room
  <2> QED
    BY <2>1, <2>2, <2>3, <2>4, <2>5
<1> QED
  BY <1>2, <1>3, <1>4, <1>5, <1>6

LEMMA VerdictsAreOfEndedRuns == Sweeps => VerdictIsOfAnEndedRun
<1> SUFFICES ASSUME Sweeps, SweepVerdict # NULL
             PROVE  LET run == SweepVerdict.summary.run
                        rows == runs[run].rows
                    IN /\ runs[run].finished /\ SweepVerdict.summary.scanned = SweepVerdict.summary.grid
                       /\ \A i \in DOMAIN runs :
                            runs[i].finished /\ (\E x \in runs[i].grid : x[1] = "days_below") => i <= run
                       /\ (\E x \in DOMAIN rows : x[1] = "days_below" /\ rows[x].passes)
                            => SweepVerdict.q <= MaxQ
  BY DEF VerdictIsOfAnEndedRun
<1> DEFINE Of(i) == {x \in DOMAIN runs[i].rows : x[1] = "days_below"}
           scanned == {i \in DOMAIN runs : Of(i) # {}}
           m == Max(scanned)
           rows == runs[m].rows
           qs == {rows[x].q : x \in Of(m)} \ {NULL}
<1>1. StrongestSignal = IF scanned = {} \/ qs = {} THEN NULL ELSE [run |-> m, q |-> Min(qs)]
  BY DEF StrongestSignal
<1>2. /\ StrongestSignal # NULL
      /\ SweepVerdict = [q |-> StrongestSignal.q, summary |-> RunSummary(StrongestSignal.run)]
  BY DEF SweepVerdict
<1> HIDE DEF scanned, m, qs
<1>3. scanned # {} /\ qs # {} /\ StrongestSignal = [run |-> m, q |-> Min(qs)]
  BY <1>1, <1>2
<1>4. SweepVerdict.q = Min(qs) /\ SweepVerdict.summary = RunSummary(m)
  BY <1>2, <1>3
<1>5. DOMAIN runs \in SUBSET Int /\ IsFiniteSet(DOMAIN runs)
  <2>1. PICK R : runs \in Seq(R)
    BY DEF Sweeps
  <2>2. DOMAIN runs = 1..Len(runs) /\ Len(runs) \in Int /\ 1 \in Int
    BY <2>1
  <2> QED
    BY <2>2, FS_Interval
<1>6. scanned \in SUBSET DOMAIN runs
  BY DEF scanned
<1>7. m \in scanned /\ \A i \in scanned : i <= m
  <2>1. scanned \in SUBSET Int /\ IsFiniteSet(scanned)
    BY <1>5, <1>6, FS_Subset
  <2> QED
    BY <1>3, <2>1, MaxIs DEF m
<1>8. m \in DOMAIN runs /\ Of(m) # {}
  BY <1>7 DEF scanned
<1>9. runs[m].finished
  BY <1>8, EmptyRuns
<1>10. /\ IsFiniteSet(DOMAIN rows) /\ DOMAIN rows = runs[m].grid
       /\ \A x \in DOMAIN rows : /\ rows[x].q \in OptionalInt
                                 /\ rows[x].passes => rows[x].q # NULL /\ rows[x].q <= MaxQ
  BY <1>8, <1>9, EndedRunIs DEF IsGated
<1>11. /\ SweepVerdict.summary.run = m
       /\ SweepVerdict.summary.grid = Cardinality(runs[m].grid)
       /\ SweepVerdict.summary.scanned = Cardinality(DOMAIN rows)
  BY <1>4, <1>8 DEF RunSummary
<1>12. ASSUME NEW i \in DOMAIN runs, runs[i].finished, \E x \in runs[i].grid : x[1] = "days_below"
       PROVE  i <= m
  <2>1. PICK x \in runs[i].grid : x[1] = "days_below"
    BY <1>12
  <2>2. x \in Of(i)
    BY <1>12, <2>1, EndedRunIs
  <2>3. i \in scanned
    BY <2>2 DEF scanned
  <2> QED
    BY <1>7, <2>3
<1>13. ASSUME NEW x \in DOMAIN rows, x[1] = "days_below", rows[x].passes
       PROVE  Min(qs) <= MaxQ
  <2>1. rows[x].q \in qs /\ rows[x].q <= MaxQ
    BY <1>10, <1>13 DEF qs
  <2>2. qs \in SUBSET Int
    BY <1>10 DEF qs, OptionalInt
  <2>3. IsFiniteSet(qs)
    <3> DEFINE g == [y \in Of(m) |-> rows[y].q]
    <3>1. DOMAIN g = Of(m) /\ qs \subseteq Range(g)
      BY DEF Range, qs
    <3>2. IsFiniteSet(Of(m))
      BY <1>10, FS_Subset
    <3> HIDE DEF g
    <3>3. IsFiniteSet(Range(g))
      BY <3>1, <3>2, RangeIsFinite
    <3> QED
      BY <3>1, <3>3, FS_Subset
  <2>4. Min(qs) \in Int /\ Min(qs) <= rows[x].q
    BY <2>1, <2>2, <2>3, MinIs
  <2>5. MaxQ \in Int /\ rows[x].q \in Int
    <3>1. rows[x].q \in Int
      BY <2>1, <2>2
    <3>2. MaxQ \in Int
      BY SignalsAssumption
    <3> QED
      BY <3>1, <3>2
  <2> QED
    BY <2>1, <2>4, <2>5
<1> HIDE DEF Of
<1> QED
  BY <1>4, <1>9, <1>10, <1>11, <1>12, <1>13

LEMMA InvariantIsTyped == ResearchInv => TypeOK
<1> SUFFICES ASSUME ResearchInv PROVE TypeOK
  OBVIOUS
<1>1. today \in Days /\ effort \in Nat
  BY DEF ResearchInv, Tables
<1>2. DOMAIN iv \cup DOMAIN dv \cup DOMAIN rates \cup DOMAIN daily \subseteq Days
  BY DEF ResearchInv, Tables, IsPublished, IsPrice, IsRollup
<1>3. \A d \in DOMAIN daily : daily[d].min <= daily[d].mean
  BY DEF ResearchInv, Tables, IsRollup
<1>4. \A f \in FeatureNames : DOMAIN features[f] \subseteq DOMAIN daily
  BY DEF ResearchInv, Tables
<1>5. \A x \in DOMAIN targets : x[1] \in Days /\ x[2] \in Horizons
  BY DEF ResearchInv, Tables, IsTargets
<1>6. \A b \in Builders : build[b].pc \in {"idle", "rolling", "writing", "built"}
  BY DEF ResearchInv, Tables, BuildIs
<1>7. /\ \A s \in Sweepers : sweep[s].pc \in {"idle", "scanning"}
      /\ page.pc \in {"idle", "resolved", "not_found", "summarised", "counted", "answered"}
  BY DEF ResearchInv, Sweeps, Pages
<1> QED
  BY <1>1, <1>2, <1>3, <1>4, <1>5, <1>6, <1>7 DEF TypeOK

LEMMA StepKeepsInvariant ==
  ASSUME ResearchInv, [Next]_vars
  PROVE  ResearchInv'
<1>0. Tables /\ Sweeps /\ Pages
  BY DEF ResearchInv
<1>1. ASSUME UNCHANGED <<sweep, runs, page>>
      PROVE  Sweeps' /\ Pages'
  BY <1>0, <1>1, SweepsStand, RunsMoveUnderAnswers
<1>2. CASE Read \/ PublishRate \/ NextDay
  <2>1. UNCHANGED <<sweep, runs, page>>
    BY <1>2 DEF Read, PublishRate, NextDay
  <2> QED
    BY <1>0, <1>1, <1>2, <2>1, PublishKeepsTables DEF ResearchInv
<1>3. ASSUME NEW b \in Builders,
             StartBuild(b) \/ Roll(b) \/ WriteFeature(b) \/ CommitBuild(b) \/ DieBuild(b)
      PROVE  ResearchInv'
  <2>1. UNCHANGED <<sweep, runs, page>>
    BY <1>3 DEF StartBuild, Roll, WriteFeature, CommitBuild, DieBuild
  <2>2. Tables'
    BY <1>0, <1>3, StartKeepsTables, RollKeepsTables, WriteKeepsTables, CommitKeepsTables, DieKeepsTables
  <2> QED
    BY <1>1, <2>1, <2>2 DEF ResearchInv
<1>4. ASSUME NEW s \in Sweepers, OpenRun(s) \/ Scan(s) \/ CloseRun(s) \/ DieSweep(s)
      PROVE  ResearchInv'
  <2>1. /\ UNCHANGED <<today, iv, dv, rates, daily, features, targets, build>>
        /\ effort' \in Nat /\ page' = page
    BY <1>0, <1>4 DEF OpenRun, Scan, CloseRun, DieSweep, Spend, Tables
  <2>2. Tables'
    BY <1>0, <2>1, ReadersKeepTables
  <2>3. CASE OpenRun(s)
    <3>1. Sweeps' /\ DOMAIN runs \subseteq DOMAIN runs' /\ \A i \in DOMAIN runs : runs'[i] = runs[i]
      BY <1>0, <2>3, OpenKeepsSweeps
    <3> QED
      BY <1>0, <2>1, <2>2, <3>1, RunsMoveUnderAnswers DEF ResearchInv
  <2>4. CASE Scan(s)
    <3>1. runs' = runs
      BY <2>4 DEF Scan
    <3> QED
      BY <1>0, <2>1, <2>2, <2>4, <3>1, ScanKeepsSweeps, RunsMoveUnderAnswers DEF ResearchInv
  <2>5. CASE CloseRun(s)
    <3>1. DOMAIN runs \subseteq DOMAIN runs' /\ \A i \in DOMAIN runs : runs[i].finished => runs'[i] = runs[i]
      BY <1>0, <2>5, CloseRunIs
    <3> QED
      BY <1>0, <2>1, <2>2, <2>5, <3>1, CloseKeepsSweeps, RunsMoveUnderAnswers DEF ResearchInv
  <2>6. CASE DieSweep(s)
    <3>1. runs' = runs
      BY <2>6 DEF DieSweep
    <3> QED
      BY <1>0, <2>1, <2>2, <2>6, <3>1, DieKeepsSweeps, RunsMoveUnderAnswers DEF ResearchInv
  <2> QED
    BY <1>4, <2>3, <2>4, <2>5, <2>6
<1>6. CASE AskSignals \/ ReadSummary \/ CountRows \/ ReadRows
  <2>1. /\ UNCHANGED <<today, iv, dv, rates, daily, features, targets, build, sweep, runs>>
        /\ effort' \in Nat
    BY <1>0, <1>6 DEF AskSignals, ReadSummary, CountRows, ReadRows, Spend, Tables
  <2>2. Tables' /\ Sweeps'
    BY <1>0, <2>1, ReadersKeepTables, SweepsStand
  <2> QED
    BY <1>0, <1>6, <2>2, RequestKeepsPages DEF ResearchInv
<1>5. CASE UNCHANGED vars
  <2>1. /\ UNCHANGED <<today, iv, dv, rates, daily, features, targets, build, effort>>
        /\ UNCHANGED <<sweep, runs, page>>
    BY <1>5 DEF vars
  <2>2. effort' \in Nat
    BY <1>0, <2>1 DEF Tables
  <2> QED
    BY <1>0, <1>1, <2>1, <2>2, ReadersKeepTables DEF ResearchInv
<1> QED
  BY <1>2, <1>3, <1>4, <1>5, <1>6 DEF Next

-----------------------------------------------------------------------------
(* In every state the tables are what a build leaves, whatever was published    *)
(* and however builds interleave or die; a sweep's run is its own and open, one *)
(* that has ended has the adjusted rows of its grid, and a request holds of a   *)
(* run only what the run bears out.                                             *)
THEOREM ResearchIsKept == Spec => []ResearchInv
<1>1. Init => ResearchInv
  BY InitTables, InitSweeps DEF ResearchInv
<1>2. ResearchInv /\ [Next]_vars => ResearchInv'
  BY StepKeepsInvariant
<1> QED
  BY <1>1, <1>2, PTL DEF Spec

(* AnalogEngine.query: the answer for a day is from that day and before, and    *)
(* one that passes rests on enough distinct events, all over before its own.    *)
THEOREM AnswersRestOnEvidence == Spec => []AnswersAreEvidence
<1>1. ResearchInv => AnswersAreEvidence
  BY InvariantIsTyped, TablesAnswerFromThePast, TablesGiveEvidence DEF ResearchInv, AnswersAreEvidence
<1> QED
  BY <1>1, ResearchIsKept, PTL

(* sweep.run and get_signals: a finished run has all the rows of its grid, with *)
(* values adjusted over all of them, and whoever reads a page of a run reads    *)
(* one of the whole.                                                            *)
THEOREM RunsStayWhole == Spec => []RunsAreWhole
<1>1. ResearchInv => RunsAreWhole
  BY FinishedRunsAreWhole, PagesShowWholeRuns, VerdictsAreOfEndedRuns DEF ResearchInv, RunsAreWhole
<1> QED
  BY <1>1, ResearchIsKept, PTL

(* walkforward.splits: no fold trains on a target that reaches its test days,   *)
(* and the folds test each day from the first of all, once and in order.        *)
THEOREM FoldsStayApart == Spec => []FoldsDoNotLeak
<1>1. ResearchInv => FoldsDoNotLeak
  BY TablesKeepFoldsApart DEF ResearchInv
<1> QED
  BY <1>1, ResearchIsKept, PTL

(* build.build: a commit leaves, of its window, the rollup of the readings its  *)
(* statement saw and, unless a build without a row in common committed while it *)
(* read, the features of the whole rollup that is committed.                    *)
THEOREM CommitsAreCurrent == Spec => CommitMakesTheWindowCurrent
<1>1. ASSUME ResearchInv, [Next]_vars
      PROVE  [\A b \in Builders :
                (build[b].pc = "built" /\ build'[b].pc = "idle" /\ effort' = effort) =>
                  \A d \in Days : (build[b].start <= d /\ d <= build[b].end /\ d \in DOMAIN build[b].seen) =>
                    /\ daily'[d] = build[b].seen[d]
                    /\ \/ build[b].crossed
                       \/ \A f \in FeatureNames : features'[f][d] = FeatureRows(daily')[f][d]]_vars
  <2>1. CASE UNCHANGED vars
    BY <2>1
  <2>2. CASE Next
    BY <1>1, <2>2, CommitIsCurrent DEF ResearchInv
  <2> QED
    BY <1>1, <2>1, <2>2
<1> QED
  BY <1>1, ResearchIsKept, PTL DEF Spec, CommitMakesTheWindowCurrent
=============================================================================
