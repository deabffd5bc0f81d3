---------------------------- MODULE TotalsProofs ----------------------------
(* Theorems about the two programs that add up what they read: the evaluation *)
(* report (Evaluation), for every manifest and every file of results, and the *)
(* reading of uploads (SourceUploads), for every request and all limits.      *)
(*                                                                            *)
(* Both rest on what a sum over a finite set is, which is proved first, by    *)
(* induction over the subsets of the set.                                     *)
EXTENDS Evaluation, SourceUploads, FiniteSetTheorems, WellFoundedInduction, TLAPS

----------------------------------------------------------------------------
(* Sums. *)

SumOver(g, S) == MapThenSumSet(LAMBDA x : g[x], S)

\* The element MapThenSumSet takes first.
One(S) == CHOOSE x \in S : TRUE
\* The function MapThenSumSet computes on the parts of S.
SumStep(g, f, T) == IF T = {} THEN 0 ELSE g[One(T)] + f[T \ {One(T)}]
Sums(g, f, S) == f = [T \in SUBSET S |-> SumStep(g, f, T)]

LEMMA SumDefinition ==
    ASSUME NEW g, NEW S
    PROVE  SumOver(g, S) = (CHOOSE f : Sums(g, f, S))[S]
BY Zenon DEF SumOver, MapThenSumSet, MapThenFoldSet, Sums, One, SumStep

\* Induction over finite sets: a property that fails for a part of S fails for a
\* part none of whose own parts it fails for.
LEMMA MinimalSubset ==
    ASSUME NEW S, IsFiniteSet(S), NEW T \in SUBSET (SUBSET S), T # {}
    PROVE  \E m \in T : \A U \in SUBSET m : U \in T => U = m
<1>1. IsWellFoundedOn(StrictSubsetOrdering(S), SUBSET S)
  BY FS_StrictSubsetOrderingWellFounded, FS_FiniteSubsetsOfFinite
<1>2. PICK m \in T : \A U \in T : ~(<<U, m>> \in StrictSubsetOrdering(S))
  BY <1>1, WFMin
<1>3. ASSUME NEW U \in SUBSET m, U \in T PROVE U = m
  BY <1>2, <1>3 DEF StrictSubsetOrdering
<1> QED BY <1>3

LEMMA OneIn == ASSUME NEW T, T # {} PROVE One(T) \in T
BY DEF One

LEMMA SumStepSame ==
    ASSUME NEW g, NEW f, NEW h, NEW T, T # {} => f[T \ {One(T)}] = h[T \ {One(T)}]
    PROVE  SumStep(g, f, T) = SumStep(g, h, T)
<1>1. CASE T = {}
    BY <1>1, Zenon DEF SumStep
<1>2. CASE T # {}
    BY <1>2, Zenon DEF SumStep
<1> QED
    BY <1>1, <1>2

LEMMA SumsApply ==
    ASSUME NEW g, NEW f, NEW S, Sums(g, f, S), NEW T \in SUBSET S
    PROVE  f[T] = SumStep(g, f, T)
BY Zenon DEF Sums

\* There is at most one such function, also on a part of its domain.
LEMMA SumsUnique ==
    ASSUME NEW g, NEW S, IsFiniteSet(S), NEW f, Sums(g, f, S),
           NEW R \in SUBSET S, NEW h, Sums(g, h, R), NEW T \in SUBSET R
    PROVE  f[T] = h[T]
<1> DEFINE Bad == {U \in SUBSET R : f[U] # h[U]}
<1> SUFFICES ASSUME Bad # {} PROVE FALSE
    BY Zenon
<1>1. Bad \in SUBSET (SUBSET S)
    OBVIOUS
<1>2. PICK m \in Bad : \A U \in SUBSET m : U \in Bad => U = m
  <2> HIDE DEF Bad
  <2> QED
      BY <1>1, MinimalSubset
<1>3. f[m] = SumStep(g, f, m) /\ h[m] = SumStep(g, h, m)
    BY SumsApply
<1>4. CASE m = {}
    BY <1>2, <1>3, <1>4 DEF SumStep
<1>5. CASE m # {}
  <2>1. One(m) \in m
      BY <1>5, OneIn
  <2> DEFINE U == m \ {One(m)}
  <2>2. U \in SUBSET m /\ U # m /\ U \in SUBSET R
      BY <2>1, <1>2
  <2>3. f[U] = h[U]
      BY <2>2, <1>2, Zenon
  <2> QED
      BY <1>2, <1>3, <1>5, <2>3, Zenon DEF SumStep
<1> QED
    BY <1>4, <1>5

LEMMA SumsRestrict ==
    ASSUME NEW g, NEW f, NEW S, Sums(g, f, S), NEW R \in SUBSET S
    PROVE  Sums(g, [T \in SUBSET R |-> f[T]], R)
<1> DEFINE h == [T \in SUBSET R |-> f[T]]
<1>1. ASSUME NEW T \in SUBSET R PROVE f[T] = SumStep(g, h, T)
  <2>1. f[T] = SumStep(g, f, T)
      BY SumsApply
  <2>2. CASE T = {}
      BY <2>1, <2>2, Zenon DEF SumStep
  <2>3. CASE T # {}
    <3>1. T \ {One(T)} \in SUBSET R
        OBVIOUS
    <3>2. h[T \ {One(T)}] = f[T \ {One(T)}]
        BY <3>1, Zenon
    <3> QED
        BY <2>1, <2>3, <3>2, Zenon DEF SumStep
  <2> QED
      BY <2>2, <2>3
<1>2. h = [T \in SUBSET R |-> SumStep(g, h, T)]
    BY <1>1, Zenon
<1> QED
    BY <1>2, Zenon DEF Sums

\* There is one: MapThenSumSet is well defined on finite sets.
LEMMA SumsExist ==
    ASSUME NEW g, NEW S, IsFiniteSet(S)
    PROVE  \E f : Sums(g, f, S)
<1> DEFINE Bad == {U \in SUBSET S : ~\E f : Sums(g, f, U)}
<1> SUFFICES ASSUME Bad # {} PROVE FALSE
    BY Zenon
<1>1. Bad \in SUBSET (SUBSET S)
    OBVIOUS
<1>2. PICK m \in Bad : \A U \in SUBSET m : U \in Bad => U = m
  <2> HIDE DEF Bad
  <2> QED
      BY <1>1, MinimalSubset
<1>m. IsFiniteSet(m)
    BY <1>2, FS_Subset
<1> DEFINE F(U) == CHOOSE f : Sums(g, f, U)
           below == [T \in SUBSET m |-> F(T)[T]]
           h == [T \in SUBSET m |-> IF T = m THEN SumStep(g, below, m) ELSE below[T]]
<1>3. ASSUME NEW U \in SUBSET m, U # m PROVE Sums(g, F(U), U)
  <2>1. \E f : Sums(g, f, U)
      BY <1>2, <1>3
  <2> QED
      BY <2>1, Zenon
<1>4. ASSUME NEW U \in SUBSET m, U # m PROVE below[U] = SumStep(g, below, U)
  <2>1. below[U] = F(U)[U]
      BY Zenon
  <2>2. F(U)[U] = SumStep(g, F(U), U)
    <3> HIDE DEF F
    <3> QED
        BY <1>3, <1>4, SumsApply
  <2>3. U # {} => F(U)[U \ {One(U)}] = below[U \ {One(U)}]
    <3> SUFFICES ASSUME U # {} PROVE F(U)[U \ {One(U)}] = below[U \ {One(U)}]
        OBVIOUS
    <3> DEFINE V == U \ {One(U)}
    <3>1. V \in SUBSET U /\ V \in SUBSET m /\ V # m /\ IsFiniteSet(U)
        BY <1>4, OneIn, <1>m, FS_Subset
    <3>2. F(U)[V] = F(V)[V]
      <4> HIDE DEF F
      <4>1. Sums(g, F(U), U) /\ Sums(g, F(V), V)
          BY <1>3, <1>4, <3>1
      <4>2. V \in SUBSET V
          OBVIOUS
      <4> HIDE DEF V
      <4> QED
          BY <4>1, <4>2, <3>1, SumsUnique
    <3>3. below[V] = F(V)[V]
        BY <3>1, Zenon
    <3> QED
        BY <3>2, <3>3, Zenon
  <2> HIDE DEF F, below
  <2> QED
      BY <2>1, <2>2, <2>3, SumStepSame
<1>5. ASSUME NEW T \in SUBSET m PROVE h[T] = SumStep(g, h, T)
  <2>1. h[T] = SumStep(g, below, T)
      BY <1>4, Zenon
  <2>3. T # {} => h[T \ {One(T)}] = below[T \ {One(T)}]
    <3> SUFFICES ASSUME T # {} PROVE h[T \ {One(T)}] = below[T \ {One(T)}]
        OBVIOUS
    <3> DEFINE V == T \ {One(T)}
    <3>1. V \in SUBSET m /\ V # m
        BY OneIn
    <3> QED
        BY <3>1, Zenon
  <2> HIDE DEF h, below
  <2> QED
      BY <2>1, <2>3, SumStepSame
<1>6. h = [T \in SUBSET m |-> SumStep(g, h, T)]
  <2> DEFINE k == [T \in SUBSET m |-> SumStep(g, h, T)]
  <2>1. \A T \in SUBSET m : h[T] = k[T]
      BY <1>5, Zenon
  <2> QED
      BY <2>1, Zenon
<1>7. Sums(g, h, m)
    BY <1>6, Zenon DEF Sums
<1> QED
    BY <1>2, <1>7, Zenon

LEMMA SumIs ==
    ASSUME NEW g, NEW S, IsFiniteSet(S), NEW f, Sums(g, f, S), NEW T \in SUBSET S
    PROVE  SumOver(g, T) = f[T]
<1> DEFINE h == CHOOSE h : Sums(g, h, T)
<1>1. IsFiniteSet(T)
    BY FS_Subset
<1>2. Sums(g, h, T)
  <2>1. \E k : Sums(g, k, T)
      BY <1>1, SumsExist
  <2> QED
      BY <2>1, Zenon
<1>3. SumOver(g, T) = h[T]
    BY SumDefinition
<1> HIDE DEF h
<1>4. f[T] = h[T]
    BY <1>2, SumsUnique
<1> QED
    BY <1>3, <1>4

LEMMA SumEmpty == ASSUME NEW g PROVE SumOver(g, {}) = 0
<1>1. IsFiniteSet({})
    BY FS_EmptySet
<1>2. PICK f : Sums(g, f, {})
    BY <1>1, SumsExist
<1>3. f[{}] = 0
    BY <1>2, SumsApply, Zenon DEF SumStep
<1> QED
    BY <1>1, <1>2, <1>3, SumIs

LEMMA SumChosen ==
    ASSUME NEW g, NEW S, IsFiniteSet(S), S # {}
    PROVE  SumOver(g, S) = g[One(S)] + SumOver(g, S \ {One(S)})
<1>1. PICK f : Sums(g, f, S)
    BY SumsExist
<1>2. S \in SUBSET S /\ S \ {One(S)} \in SUBSET S
    OBVIOUS
<1>3. SumOver(g, S) = f[S] /\ SumOver(g, S \ {One(S)}) = f[S \ {One(S)}]
  <2> DEFINE U == S \ {One(S)}
  <2>1. U \in SUBSET S
      BY <1>2
  <2> HIDE DEF U
  <2>2. SumOver(g, U) = f[U]
      BY <1>1, <2>1, SumIs
  <2>3. SumOver(g, S) = f[S]
      BY <1>1, <1>2, SumIs
  <2> QED
      BY <2>2, <2>3 DEF U
<1>4. f[S] = g[One(S)] + f[S \ {One(S)}]
  <2>1. f[S] = SumStep(g, f, S)
      BY <1>1, <1>2, SumsApply
  <2> QED
      BY <2>1, Zenon DEF SumStep
<1> QED
    BY <1>3, <1>4, Zenon

\* The sum of naturals is one, whatever the order.
LEMMA SumNat ==
    ASSUME NEW S, IsFiniteSet(S), NEW g, \A x \in S : g[x] \in Nat
    PROVE  SumOver(g, S) \in Nat
<1> DEFINE Bad == {U \in SUBSET S : SumOver(g, U) \notin Nat}
<1> SUFFICES ASSUME Bad # {} PROVE FALSE
    BY Zenon
<1>1. PICK m \in Bad : \A U \in SUBSET m : U \in Bad => U = m
  <2>1. Bad \in SUBSET (SUBSET S)
      OBVIOUS
  <2> HIDE DEF Bad
  <2> QED
      BY <2>1, MinimalSubset
<1>2. m # {}
  <2>1. SumOver(g, {}) \in Nat
      BY SumEmpty
  <2> QED
      BY <1>1, <2>1
<1>3. One(m) \in m /\ IsFiniteSet(m)
    BY <1>1, <1>2, OneIn, FS_Subset
<1> DEFINE U == m \ {One(m)}
<1>4. U \in SUBSET m /\ U # m /\ U \in SUBSET S
    BY <1>1, <1>3
<1>5. SumOver(g, U) \in Nat
    BY <1>1, <1>4, Zenon
<1>6. SumOver(g, m) = g[One(m)] + SumOver(g, U)
    BY <1>2, <1>3, SumChosen
<1>7. g[One(m)] \in Nat
    BY <1>3, <1>1
<1> HIDE DEF U
<1>8. SumOver(g, m) \in Nat
    BY <1>5, <1>6, <1>7
<1> QED
    BY <1>1, <1>8

\* Any element may be taken first.
LEMMA SumAny ==
    ASSUME NEW S, IsFiniteSet(S), NEW g, \A y \in S : g[y] \in Nat, NEW x \in S
    PROVE  SumOver(g, S) = g[x] + SumOver(g, S \ {x})
<1> DEFINE Bad == {U \in SUBSET S : \E y \in U : SumOver(g, U) # g[y] + SumOver(g, U \ {y})}
<1> SUFFICES ASSUME Bad # {} PROVE FALSE
  <2>1. S \in SUBSET S
      OBVIOUS
  <2> QED
      BY <2>1, Zenon
<1>1. PICK m \in Bad : \A U \in SUBSET m : U \in Bad => U = m
  <2>1. Bad \in SUBSET (SUBSET S)
      OBVIOUS
  <2> HIDE DEF Bad
  <2> QED
      BY <2>1, MinimalSubset
<1>2. PICK y \in m : SumOver(g, m) # g[y] + SumOver(g, m \ {y})
    BY <1>1
<1> DEFINE c == One(m)
           V == m \ {c}
           W == m \ {y}
           R == m \ {c, y}
<1>3. c \in m /\ IsFiniteSet(m) /\ m \in SUBSET S
    BY <1>1, <1>2, OneIn, FS_Subset
<1>4. SumOver(g, m) = g[c] + SumOver(g, V)
    BY <1>2, <1>3, SumChosen
<1> HIDE DEF c
<1>5. c # y
    BY <1>2, <1>4
<1>6. y \in V /\ c \in W /\ V \ {y} = R /\ W \ {c} = R
    BY <1>2, <1>3, <1>5
<1>7. V \in SUBSET S /\ V \in SUBSET m /\ V # m /\ W \in SUBSET S /\ W \in SUBSET m /\ W # m
    BY <1>2, <1>3
<1>8. V \notin Bad /\ W \notin Bad
    BY <1>1, <1>7, Zenon
<1>9. SumOver(g, V) = g[y] + SumOver(g, V \ {y}) /\ SumOver(g, W) = g[c] + SumOver(g, W \ {c})
    BY <1>6, <1>7, <1>8, Zenon
<1>10. SumOver(g, R) \in Nat
  <2>1. R \in SUBSET S /\ IsFiniteSet(R)
      BY <1>3, FS_Subset
  <2> HIDE DEF R
  <2> QED
      BY <2>1, SumNat
<1>11. g[c] \in Nat /\ g[y] \in Nat
    BY <1>2, <1>3
<1>12. SumOver(g, V) = g[y] + SumOver(g, R) /\ SumOver(g, W) = g[c] + SumOver(g, R)
    BY <1>6, <1>9, Zenon
<1>13. SumOver(g, m) # g[y] + SumOver(g, W)
    BY <1>2
<1> HIDE DEF V, W, R
<1> QED
    BY <1>4, <1>10, <1>11, <1>12, <1>13

\* Where no element exceeds a bound, the sum is at most as many times the bound.
LEMMA SumBounded ==
    ASSUME NEW S, IsFiniteSet(S), NEW g, \A x \in S : g[x] \in 0..100
    PROVE  SumOver(g, S) <= 100 * Cardinality(S)
<1> DEFINE Bad == {U \in SUBSET S : ~(SumOver(g, U) <= 100 * Cardinality(U))}
<1> SUFFICES ASSUME Bad # {} PROVE FALSE
  <2>1. S \in SUBSET S
      OBVIOUS
  <2> QED
      BY <2>1, Zenon
<1>1. PICK m \in Bad : \A U \in SUBSET m : U \in Bad => U = m
  <2>1. Bad \in SUBSET (SUBSET S)
      OBVIOUS
  <2> HIDE DEF Bad
  <2> QED
      BY <2>1, MinimalSubset
<1>2. m # {}
  <2>1. SumOver(g, {}) <= 100 * Cardinality({})
      BY SumEmpty, FS_EmptySet
  <2> QED
      BY <1>1, <2>1
<1>3. One(m) \in m /\ IsFiniteSet(m)
    BY <1>1, <1>2, OneIn, FS_Subset
<1> DEFINE U == m \ {One(m)}
<1>4. U \in SUBSET m /\ U # m /\ U \in SUBSET S
    BY <1>1, <1>3
<1>5. SumOver(g, U) <= 100 * Cardinality(U)
    BY <1>1, <1>4, Zenon
<1>6. SumOver(g, m) = g[One(m)] + SumOver(g, U)
    BY <1>2, <1>3, SumChosen
<1>7. g[One(m)] \in 0..100
    BY <1>3, <1>1
<1>8. Cardinality(U) = Cardinality(m) - 1 /\ Cardinality(m) \in Nat
    BY <1>3, FS_RemoveElement, FS_CardinalityType
<1>9. SumOver(g, U) \in Nat
  <2>1. IsFiniteSet(U) /\ \A x \in U : g[x] \in Nat
      BY <1>4, FS_Subset
  <2> HIDE DEF U
  <2> QED
      BY <2>1, SumNat
<1> HIDE DEF U
<1>10. SumOver(g, m) <= 100 * Cardinality(m)
    BY <1>5, <1>6, <1>7, <1>8, <1>9
<1> QED
    BY <1>1, <1>10

\* A part of a set of naturals adds up to no more than the whole.
LEMMA SumPart ==
    ASSUME NEW S, IsFiniteSet(S), NEW g, \A x \in S : g[x] \in Nat, NEW R \in SUBSET S
    PROVE  SumOver(g, R) <= SumOver(g, S)
<1> DEFINE Bad == {V \in SUBSET S : R \subseteq V /\ ~(SumOver(g, R) <= SumOver(g, V))}
<1> SUFFICES ASSUME Bad # {} PROVE FALSE
  <2>1. S \in SUBSET S
      OBVIOUS
  <2> QED
      BY <2>1, Zenon
<1>1. PICK m \in Bad : \A V \in SUBSET m : V \in Bad => V = m
  <2>1. Bad \in SUBSET (SUBSET S)
      OBVIOUS
  <2> HIDE DEF Bad
  <2> QED
      BY <2>1, MinimalSubset
<1>2. IsFiniteSet(m) /\ IsFiniteSet(R) /\ \A x \in m : g[x] \in Nat
    BY <1>1, FS_Subset
<1>3. SumOver(g, m) \in Nat /\ SumOver(g, R) \in Nat
    BY <1>2, SumNat
<1>4. R # m
    BY <1>1, <1>3
<1>r. R \in SUBSET m
    BY <1>1, Zenon
<1>5. PICK x \in m : x \notin R
    BY <1>4, <1>r, Zenon
<1> DEFINE V == m \ {x}
<1>6. V \in SUBSET m /\ V # m /\ V \in SUBSET S /\ R \subseteq V
    BY <1>1, <1>5
<1>7. SumOver(g, R) <= SumOver(g, V)
    BY <1>1, <1>6, Zenon
<1>8. SumOver(g, m) = g[x] + SumOver(g, V)
    BY <1>2, <1>5, SumAny
<1>9. SumOver(g, V) \in Nat /\ g[x] \in Nat
  <2>1. IsFiniteSet(V) /\ \A y \in V : g[y] \in Nat
      BY <1>2, <1>6, FS_Subset
  <2> HIDE DEF V
  <2> QED
      BY <2>1, <1>2, <1>5, SumNat
<1> HIDE DEF V
<1>10. SumOver(g, R) <= SumOver(g, m)
    BY <1>3, <1>7, <1>8, <1>9
<1> QED
    BY <1>1, <1>10

----------------------------------------------------------------------------
(* Quotients and least elements. *)

LEMMA DivNat ==
    ASSUME NEW n \in Nat, NEW d \in Nat \ {0}
    PROVE  n \div d \in Nat
OBVIOUS

LEMMA DivDef ==
    ASSUME NEW n \in Nat, NEW d \in Nat \ {0}, NEW q \in Int
 
    PROVE  d * q <= n <=> q <= n \div d
<1> DEFINE p == n \div d
<1>1. p \in Int /\ d * p <= n /\ n < d * p + d
  BY SMTT(30)
<1> HIDE DEF p
<1>2. q <= p => d * q <= d * p
  BY <1>1, SMTT(30)
<1>3. q >= p + 1 => d * q >= d * (p + 1)
  BY <1>1, SMTT(30)
<1>4. d * (p + 1) = d * p + d
  BY <1>1, SMTT(30)
<1> QED
  BY <1>1, <1>2, <1>3, <1>4

LEMMA DivBound ==
    ASSUME NEW n \in Nat, NEW d \in Nat \ {0}, n <= 100 * d
    PROVE  n \div d \in 0..100
<1> DEFINE p == n \div d
<1>1. p \in Nat /\ d * p <= n
  BY SMTT(30)
<1> HIDE DEF p
<1>3. p >= 101 => d * p >= d * 101
  BY <1>1, SMTT(30)
<1> QED
  BY <1>1, <1>3 DEF p

LEMMA DivAnti ==
    ASSUME NEW n \in Nat, NEW a \in Nat \ {0}, NEW b \in Nat \ {0}, a <= b
 
    PROVE  n \div b <= n \div a
<1> DEFINE q == n \div b
<1>1. q \in Nat /\ b * q <= n
  BY SMTT(30)
<1> HIDE DEF q
<1>2. a * q <= b * q
  BY <1>1, SMTT(30)
<1>3. a * q \in Int /\ b * q \in Int
  BY <1>1
<1>4. a * q <= n
  BY <1>1, <1>2, <1>3
<1>5. q <= n \div a
  BY <1>1, <1>4, DivDef
<1> QED BY <1>5 DEF q

LEMMA LeastNatural ==
    ASSUME NEW T \in SUBSET Nat, T # {}
    PROVE  \E m \in T : \A y \in T : m <= y
<1>1. PICK n \in T : TRUE
    OBVIOUS
<1> DEFINE G == {0..k : k \in T \intersect 0..n}
<1> DEFINE I == 0..n
<1>i. IsFiniteSet(I)
    BY <1>1, FS_Interval
<1>2. G \in SUBSET (SUBSET I)
  <2>1. ASSUME NEW k \in T \intersect 0..n PROVE 0..k \in SUBSET I
      OBVIOUS
  <2> QED
      BY <2>1
<1>e. G # {}
  <2>1. n \in T \intersect 0..n
      OBVIOUS
  <2> QED
      BY <2>1
<1>3. PICK u \in G : \A v \in SUBSET u : v \in G => v = u
  <2> HIDE DEF G, I
  <2> QED
      BY <1>i, <1>2, <1>e, MinimalSubset
<1>4. PICK m \in T \intersect 0..n : u = 0..m
    BY <1>3
<1>5. ASSUME NEW y \in T, y < m PROVE FALSE
  <2>1. y \in Nat /\ m \in Nat /\ y \in 0..n
      BY <1>4, <1>5
  <2>2. 0..y \in SUBSET u /\ 0..y \in G
      BY <1>4, <1>5, <2>1
  <2>3. 0..y = 0..m
      BY <1>3, <1>4, <2>2
  <2> QED
      BY <1>5, <2>1, <2>3
<1> QED
    BY <1>4, <1>5

LEMMA MinNatural ==
    ASSUME NEW T \in SUBSET Nat, T # {}
    PROVE  Min(T) \in T /\ \A y \in T : Min(T) <= y
BY LeastNatural DEF Min

----------------------------------------------------------------------------
(* The figures of the report. *)

LEMMA RunsOfStack ==
    ASSUME NEW s \in Stacks
    PROVE  /\ RunsOf(s) \subseteq Keys /\ IsFiniteSet(RunsOf(s))
           /\ Cardinality(RunsOf(s)) \in Nat \ {0}
<1>1. RunsOf(s) \subseteq Keys
    BY DEF RunsOf
<1>2. IsFiniteSet(RunsOf(s))
    BY <1>1, FS_Subset, EvaluationAssumption
<1>3. PICK c \in Cases : TRUE
    BY EvaluationAssumption
<1>4. <<c, s, 1>> \in RunsOf(s)
  <2>1. 1 \in 1..Repetitions
      BY EvaluationAssumption
  <2> QED
      BY <2>1 DEF RunsOf, Keys
<1> QED
    BY <1>1, <1>2, <1>4, FS_CardinalityType, FS_EmptySet

Whole == TypeOK /\ Complete

LEMMA RunFigures ==
    ASSUME Whole, NEW k \in Keys
    PROVE  /\ run[k].latency \in Nat /\ run[k].cost \in Nat /\ run[k].effort \in Nat
           /\ run[k].quality \in {NoValue} \union 0..100
<1>1. run[k] \in OutcomeTypes
    BY EvaluationAssumption DEF Whole, TypeOK, Complete
<1> QED
    BY <1>1 DEF OutcomeTypes

LEMMA TotalNat ==
    ASSUME NEW S, IsFiniteSet(S), NEW g \in [S -> Nat]
    PROVE  Total(g) \in Nat
<1>1. SumOver(g, S) \in Nat
    BY SumNat
<1> QED
    BY <1>1 DEF Total, SumOver

LEMMA RatioType ==
    ASSUME NEW sum \in Nat, NEW count \in Nat
    PROVE  /\ count # 0 => Ratio(sum, count) \in Nat
           /\ count = 0 => Ratio(sum, count) = NoValue
<1>1. Scale * sum \in Nat
    BY EvaluationAssumption
<1>2. count # 0 => (Scale * sum) \div count \in Nat
    BY <1>1, DivNat
<1> QED
    BY <1>2 DEF Ratio

\* Of a complete matrix every stack has a latency, and it has a cost and an effort
\* exactly when one of its runs succeeded.
LEMMA FigureTypes ==
    ASSUME Whole, NEW s \in Stacks
    PROVE  /\ Latency(s) \in Nat
           /\ Cost(s) \in Nat \union {NoValue} /\ Effort(s) \in Nat \union {NoValue}
           /\ Cost(s) = NoValue <=> Effort(s) = NoValue
<1>1. /\ RunsOf(s) \subseteq Keys /\ IsFiniteSet(RunsOf(s))
      /\ Cardinality(RunsOf(s)) \in Nat \ {0}
    BY RunsOfStack
<1> DEFINE n == Cardinality(SuccessesOf(s))
           l == [k \in RunsOf(s) |-> run[k].latency]
           c == [k \in RunsOf(s) |-> run[k].cost]
           e == [k \in RunsOf(s) |-> run[k].effort]
<1>2. n \in Nat
    BY <1>1, FS_Subset, FS_CardinalityType DEF SuccessesOf
<1>3. l \in [RunsOf(s) -> Nat] /\ c \in [RunsOf(s) -> Nat] /\ e \in [RunsOf(s) -> Nat]
    BY <1>1, RunFigures
<1>4. Latency(s) = Ratio(Total(l), Cardinality(RunsOf(s)))
    BY DEF Latency
<1>5. Cost(s) = Ratio(Total(c), n) /\ Effort(s) = Ratio(Total(e), n)
    BY DEF Cost, Effort
<1> HIDE DEF l, c, e, n
<1>6. Total(l) \in Nat /\ Total(c) \in Nat /\ Total(e) \in Nat
    BY <1>1, <1>3, TotalNat
<1>7. Latency(s) \in Nat
    BY <1>1, <1>4, <1>6, RatioType
<1>8. /\ n # 0 => Cost(s) \in Nat /\ Effort(s) \in Nat
      /\ n = 0 => Cost(s) = NoValue /\ Effort(s) = NoValue
    BY <1>2, <1>5, <1>6, RatioType
<1> QED
    BY <1>7, <1>8 DEF NoValue

\* Quality and success rate are percentages.
LEMMA Percentages ==
    ASSUME Whole, NEW s \in Stacks
    PROVE  Quality(s) \in {NoValue} \union 0..100 /\ SuccessRate(s) \in 0..100
<1>1. /\ RunsOf(s) \subseteq Keys /\ IsFiniteSet(RunsOf(s))
      /\ Cardinality(RunsOf(s)) \in Nat \ {0}
    BY RunsOfStack
<1>2. SuccessesOf(s) \subseteq RunsOf(s)
    BY DEF SuccessesOf
<1>3. SuccessRate(s) \in 0..100
  <2> DEFINE n == Cardinality(SuccessesOf(s))
             d == Cardinality(RunsOf(s))
  <2>1. n \in Nat /\ n <= d
      BY <1>1, <1>2, FS_Subset, FS_CardinalityType
  <2>2. SuccessRate(s) = (100 * n) \div d
      BY DEF SuccessRate
  <2>3. d \in Nat \ {0}
      BY <1>1
  <2> HIDE DEF n, d
  <2>4. 100 * n \in Nat /\ 100 * n <= 100 * d
      BY <2>1, <2>3
  <2> QED
      BY <2>2, <2>3, <2>4, DivBound
<1>4. Quality(s) \in {NoValue} \union 0..100
  <2> DEFINE rated == {k \in SuccessesOf(s) : run[k].quality # NoValue}
             q == [k \in rated |-> run[k].quality]
  <2>1. Quality(s) = IF rated = {} THEN NoValue ELSE Total(q) \div Cardinality(rated)
      BY DEF Quality
  <2>2. IsFiniteSet(rated)
      BY <1>1, <1>2, FS_Subset
  <2>3. q \in [rated -> 0..100]
      BY <1>1, <1>2, RunFigures
  <2> HIDE DEF rated, q
  <2>4. CASE rated # {}
    <3>1. Cardinality(rated) \in Nat \ {0}
        BY <2>2, <2>4, FS_CardinalityType, FS_EmptySet
    <3>2. \A k \in rated : q[k] \in 0..100 /\ q[k] \in Nat
        BY <2>3
    <3>3. SumOver(q, rated) \in Nat /\ SumOver(q, rated) <= 100 * Cardinality(rated)
        BY <2>2, <3>2, SumNat, SumBounded
    <3>4. Total(q) = SumOver(q, rated)
        BY <2>3 DEF Total, SumOver
    <3> QED
        BY <2>1, <2>4, <3>1, <3>3, <3>4, DivBound
  <2> QED
      BY <2>1, <2>4
<1> QED
    BY <1>3, <1>4

----------------------------------------------------------------------------
(* The score. *)

Scores == 0..100
Figures == Nat \union {NoValue}

\* The score of a figure is a percentage and falls as the figure grows, as long as
\* nothing is below the least figure.
LEMMA InverseScoreType ==
    ASSUME NEW m \in Figures, NEW v \in Figures, m = NoValue \/ v = NoValue \/ m <= v
    PROVE  InverseScore(m, v) \in Scores
<1>1. CASE m = NoValue \/ v = NoValue \/ v = 0
    BY <1>1 DEF InverseScore, Scores, Figures, NoValue
<1>2. CASE ~(m = NoValue \/ v = NoValue \/ v = 0)
  <2>1. m \in Nat /\ v \in Nat \ {0} /\ 100 * m \in Nat /\ 100 * m <= 100 * v
      BY <1>2 DEF Figures, NoValue
  <2>2. (100 * m) \div v \in 0..100
      BY <2>1, DivBound
  <2>3. InverseScore(m, v) = (100 * m) \div v
      BY <1>2, <2>1 DEF InverseScore, NoValue
  <2> QED
      BY <2>2, <2>3 DEF Scores
<1> QED
    BY <1>1, <1>2

LEMMA InverseScoreFalls ==
    ASSUME NEW m \in Nat, NEW a \in Nat, NEW b \in Nat, m <= a, a <= b
    PROVE  InverseScore(m, a) >= InverseScore(m, b)
<1>0. InverseScore(m, b) \in Scores
    BY InverseScoreType DEF Figures
<1>1. CASE a = 0
  <2>1. InverseScore(m, a) = 100
      BY <1>1 DEF InverseScore, NoValue
  <2> QED
      BY <1>0, <2>1 DEF Scores
<1>2. CASE a # 0
  <2>1. 100 * m \in Nat /\ a \in Nat \ {0} /\ b \in Nat \ {0}
      BY <1>2
  <2>2. (100 * m) \div b <= (100 * m) \div a
      BY <2>1, DivAnti
  <2>3. (100 * m) \div a \in Nat /\ (100 * m) \div b \in Nat
      BY <2>1, DivNat
  <2>4. /\ InverseScore(m, a) = (100 * m) \div a
        /\ InverseScore(m, b) = (100 * m) \div b
      BY <2>1 DEF InverseScore, NoValue
  <2> QED
      BY <2>2, <2>3, <2>4
<1> QED
    BY <1>1, <1>2

EligibleStacks == {s \in Stacks : Eligible(s)}

\* What the report has computed when it ends: with two eligible stacks or more,
\* each of them has a cost.
Scored ==
    /\ pc # "reported" => score = [s \in Stacks |-> NoValue]
    /\ pc = "reported" =>
          /\ Complete
          /\ Cardinality(EligibleStacks) <= 1 \/ \A s \in EligibleStacks : Cost(s) # NoValue
          /\ score = [s \in Stacks |->
                        IF s \in EligibleStacks THEN WeightedScore(s, EligibleStacks) ELSE NoValue]

CostsKnown ==
    Cardinality(EligibleStacks) <= 1 \/ \A s \in EligibleStacks : Cost(s) # NoValue

LEMMA OnlyEligible ==
    ASSUME NEW s \in EligibleStacks, Cardinality(EligibleStacks) <= 1
    PROVE  EligibleStacks = {s}
<1>1. PICK c \in Cases : TRUE
    BY EvaluationAssumption
<1>2. [t \in Stacks |-> <<c, t, 1>>] \in Injection(Stacks, Keys)
  <2>1. 1 \in 1..Repetitions
      BY EvaluationAssumption
  <2> QED
      BY <2>1, Zenon DEF Injection, IsInjective, Keys
<1>3. IsFiniteSet(EligibleStacks)
    BY <1>2, FS_Injection, FS_Subset, EvaluationAssumption DEF EligibleStacks
<1>4. Cardinality(EligibleStacks) \in Nat /\ Cardinality(EligibleStacks) # 0
    BY <1>3, FS_CardinalityType, FS_EmptySet
<1>5. Cardinality(EligibleStacks) = 1
    BY <1>4
<1> QED
    BY <1>3, <1>5, FS_Singleton

\* The least of the figures compared: they all have a value, or there is one only.
LEMMA LeastFigure ==
    ASSUME NEW T \in SUBSET Figures, T # {}, T \subseteq Nat \/ \E v \in Figures : T = {v}
    PROVE  /\ Min(T) \in Figures
           /\ \A v \in T : Min(T) = NoValue \/ v = NoValue \/ Min(T) <= v
           /\ T \subseteq Nat => Min(T) \in Nat /\ \A v \in T : Min(T) <= v
<1>1. CASE T \subseteq Nat
    BY <1>1, MinNatural DEF Figures
<1>2. CASE \E v \in Figures : T = {v}
  <2>1. PICK v \in Figures : T = {v}
      BY <1>2
  <2>2. v \in Int /\ v <= v
      BY DEF Figures, NoValue
  <2>3. Min(T) = v
      BY <2>1, <2>2 DEF Min
  <2> QED
      BY <2>1, <2>2, <2>3
<1> QED
    BY <1>1, <1>2

\* What the three inverse scores compare.
Compared(T) == T \subseteq Nat \/ \E v \in Figures : T = {v}
Latencies == {Latency(s) : s \in EligibleStacks}
Costs == {Cost(s) : s \in EligibleStacks}
Efforts == {Effort(s) : s \in EligibleStacks}

LEMMA ComparedFigures ==
    ASSUME Whole, CostsKnown
    PROVE  /\ Latencies \in SUBSET Nat
           /\ Costs \in SUBSET Figures /\ Compared(Costs)
           /\ Efforts \in SUBSET Figures /\ Compared(Efforts)
<1>1. \A s \in EligibleStacks :
          /\ Latency(s) \in Nat /\ Cost(s) \in Figures /\ Effort(s) \in Figures
          /\ Cost(s) = NoValue <=> Effort(s) = NoValue
    BY FigureTypes DEF EligibleStacks, Figures
<1>2. Latencies \in SUBSET Nat /\ Costs \in SUBSET Figures /\ Efforts \in SUBSET Figures
    BY <1>1 DEF Latencies, Costs, Efforts
<1>3. CASE \A s \in EligibleStacks : Cost(s) # NoValue
  <2>1. \A s \in EligibleStacks : Cost(s) \in Nat /\ Effort(s) \in Nat
      BY <1>1, <1>3 DEF Figures
  <2> QED
      BY <1>2, <2>1 DEF Compared, Costs, Efforts
<1>4. CASE Cardinality(EligibleStacks) <= 1
  <2>1. CASE EligibleStacks = {}
      BY <1>2, <2>1 DEF Compared, Costs, Efforts
  <2>2. CASE EligibleStacks # {}
    <3>1. PICK s \in EligibleStacks : TRUE
        BY <2>2
    <3>2. EligibleStacks = {s}
        BY <1>4, OnlyEligible
    <3>3. Costs = {Cost(s)} /\ Efforts = {Effort(s)}
        BY <3>2, Zenon DEF Costs, Efforts
    <3>4. Cost(s) \in Figures /\ Effort(s) \in Figures
        BY <1>1
    <3> QED
        BY <1>2, <3>3, <3>4 DEF Compared
  <2> QED
      BY <2>1, <2>2
<1> QED
    BY <1>2, <1>3, <1>4 DEF CostsKnown

\* The three inverse scores of an eligible stack.
LatencyScore(s) == InverseScore(Min(Latencies), Latency(s))
CostScore(s) == InverseScore(Min(Costs), Cost(s))
EffortScore(s) == InverseScore(Min(Efforts), Effort(s))

Points(q, r, l, c, e) == 40 * q + 25 * r + 15 * l + 10 * c + 10 * e
Mean(q, r, l, c, e) == Points(q, r, l, c, e) \div 100

LEMMA ScoreIs ==
    ASSUME NEW s
    PROVE  WeightedScore(s, EligibleStacks) =
             IF Quality(s) = NoValue THEN NoValue
             ELSE Mean(Quality(s), SuccessRate(s), LatencyScore(s), CostScore(s), EffortScore(s))
BY Zenon DEF WeightedScore, Mean, Points, Least, LatencyScore, CostScore, EffortScore, Latencies, Costs,
    Efforts

LEMMA InverseScores ==
    ASSUME Whole, CostsKnown, NEW s \in EligibleStacks
    PROVE  LatencyScore(s) \in Scores /\ CostScore(s) \in Scores /\ EffortScore(s) \in Scores
<1>1. /\ Latencies \in SUBSET Nat
      /\ Costs \in SUBSET Figures /\ Compared(Costs)
      /\ Efforts \in SUBSET Figures /\ Compared(Efforts)
    BY ComparedFigures
<1>2. Latency(s) \in Latencies /\ Cost(s) \in Costs /\ Effort(s) \in Efforts
    BY DEF Latencies, Costs, Efforts
<1>3. /\ Min(Latencies) \in Nat /\ Min(Latencies) <= Latency(s) /\ Latency(s) \in Nat
    BY <1>1, <1>2, MinNatural
<1>4. /\ Min(Costs) \in Figures /\ Cost(s) \in Figures
      /\ Min(Costs) = NoValue \/ Cost(s) = NoValue \/ Min(Costs) <= Cost(s)
    BY <1>1, <1>2, LeastFigure DEF Compared
<1>5. /\ Min(Efforts) \in Figures /\ Effort(s) \in Figures
      /\ Min(Efforts) = NoValue \/ Effort(s) = NoValue \/ Min(Efforts) <= Effort(s)
    BY <1>1, <1>2, LeastFigure DEF Compared
<1>6. LatencyScore(s) \in Scores
    BY <1>3, InverseScoreType DEF LatencyScore, Figures
<1>7. CostScore(s) \in Scores
    BY <1>4, InverseScoreType DEF CostScore
<1>8. EffortScore(s) \in Scores
    BY <1>5, InverseScoreType DEF EffortScore
<1> QED
    BY <1>6, <1>7, <1>8

LEMMA MeanType ==
    ASSUME NEW q \in 0..100, NEW r \in 0..100, NEW l \in 0..100, NEW c \in 0..100, NEW e \in 0..100
    PROVE  Mean(q, r, l, c, e) \in 0..100
BY DEF Mean, Points

LEMMA WeightedScoreType ==
    ASSUME Whole, CostsKnown, NEW s \in EligibleStacks
    PROVE  WeightedScore(s, EligibleStacks) \in {NoValue} \union 0..100
<1>1. Quality(s) \in {NoValue} \union 0..100 /\ SuccessRate(s) \in 0..100
    BY Percentages DEF EligibleStacks
<1>2. LatencyScore(s) \in Scores /\ CostScore(s) \in Scores /\ EffortScore(s) \in Scores
    BY InverseScores
<1>3. CASE Quality(s) = NoValue
    BY <1>3, ScoreIs
<1>4. CASE Quality(s) # NoValue
  <2>1. Quality(s) \in 0..100
      BY <1>1, <1>4
  <2>2. Mean(Quality(s), SuccessRate(s), LatencyScore(s), CostScore(s), EffortScore(s)) \in 0..100
      BY <1>1, <1>2, <2>1, MeanType DEF Scores
  <2> QED
      BY <1>4, <2>2, ScoreIs
<1> QED
    BY <1>3, <1>4

\* A figure that is not greater never scores less.
LEMMA InverseScoresRank ==
    ASSUME Whole, CostsKnown, NEW s \in EligibleStacks, NEW t \in EligibleStacks,
           Latency(s) <= Latency(t), Cost(s) <= Cost(t), Effort(s) <= Effort(t)
    PROVE  /\ LatencyScore(s) >= LatencyScore(t)
           /\ CostScore(s) >= CostScore(t) /\ EffortScore(s) >= EffortScore(t)
<1>1. /\ LatencyScore(s) \in Scores /\ CostScore(s) \in Scores /\ EffortScore(s) \in Scores
    BY InverseScores
<1>2. CASE s = t
    BY <1>1, <1>2 DEF Scores
<1>3. CASE s # t
  <2>1. \A u \in EligibleStacks : Cost(u) # NoValue
      BY <1>3, OnlyEligible DEF CostsKnown
  <2>2. \A u \in EligibleStacks : Latency(u) \in Nat /\ Cost(u) \in Nat /\ Effort(u) \in Nat
      BY <2>1, FigureTypes DEF EligibleStacks
  <2>3. Latencies \in SUBSET Nat /\ Costs \in SUBSET Nat /\ Efforts \in SUBSET Nat
      BY <2>2 DEF Latencies, Costs, Efforts
  <2>4. Latency(s) \in Latencies /\ Cost(s) \in Costs /\ Effort(s) \in Efforts
      BY DEF Latencies, Costs, Efforts
  <2>5. Min(Latencies) \in Nat /\ Min(Latencies) <= Latency(s)
      BY <2>3, <2>4, MinNatural
  <2>6. Min(Costs) \in Nat /\ Min(Costs) <= Cost(s)
      BY <2>3, <2>4, MinNatural
  <2>7. Min(Efforts) \in Nat /\ Min(Efforts) <= Effort(s)
      BY <2>3, <2>4, MinNatural
  <2>8. LatencyScore(s) >= LatencyScore(t)
      BY <2>2, <2>5, InverseScoreFalls DEF LatencyScore
  <2>9. CostScore(s) >= CostScore(t)
      BY <2>2, <2>6, InverseScoreFalls DEF CostScore
  <2>10. EffortScore(s) >= EffortScore(t)
      BY <2>2, <2>7, InverseScoreFalls DEF EffortScore
  <2> QED
      BY <2>8, <2>9, <2>10
<1> QED
    BY <1>2, <1>3

----------------------------------------------------------------------------
(* The report. *)

\* While records are read, each line read is a run of the matrix.
EvaluationInv ==
    /\ TypeOK
    /\ pc = "reading" => lines = Cardinality(DOMAIN run)
    /\ ReportCoversMatrix
    /\ Scored

LEMMA RunFinite == TypeOK => IsFiniteSet(DOMAIN run) /\ Cardinality(DOMAIN run) <= Cardinality(Keys)
BY FS_Subset, EvaluationAssumption DEF TypeOK

LEMMA EvaluationInit == Init => EvaluationInv
<1> SUFFICES ASSUME Init PROVE EvaluationInv
    OBVIOUS
<1>1. pc = "reading" /\ lines = 0 /\ DOMAIN run = {} /\ score = [s \in Stacks |-> NoValue]
    BY DEF Init
<1>2. Cardinality({}) = 0 /\ Cardinality(Keys) \in Nat
    BY FS_EmptySet, FS_CardinalityType, EvaluationAssumption
<1>3. TypeOK
    BY <1>1, <1>2 DEF TypeOK
<1> QED
    BY <1>1, <1>2, <1>3 DEF EvaluationInv, ReportCoversMatrix, Scored

\* Figures and scores are of the runs read, and of nothing else.
LEMMA SameRunSameScores ==
    ASSUME run' = run
    PROVE  /\ EligibleStacks' = EligibleStacks
           /\ \A s : Cost(s)' = Cost(s)
           /\ \A s : WeightedScore(s, EligibleStacks)' = WeightedScore(s, EligibleStacks)
<1>1. EligibleStacks' = EligibleStacks
    BY DEF EligibleStacks, Eligible, HardFailure
<1>2. \A s : SuccessesOf(s)' = SuccessesOf(s)
    BY DEF SuccessesOf, Succeeded, HardFailure, ExpectationFailure
<1>3. \A s : Latency(s)' = Latency(s) /\ Cost(s)' = Cost(s) /\ Effort(s)' = Effort(s)
    BY <1>2 DEF Latency, Cost, Effort
<1>4. \A s : Quality(s)' = Quality(s) /\ SuccessRate(s)' = SuccessRate(s)
    BY <1>2 DEF Quality, SuccessRate
<1>5. \A s : WeightedScore(s, EligibleStacks)' = WeightedScore(s, EligibleStacks)
    BY <1>1, <1>3, <1>4, Zenon DEF WeightedScore, Least
<1> QED
    BY <1>1, <1>3, <1>5

LEMMA ReadRecordKeeps == EvaluationInv /\ ReadRecord => EvaluationInv'
<1> SUFFICES ASSUME EvaluationInv, ReadRecord PROVE EvaluationInv'
    OBVIOUS
<1>1. /\ pc = "reading" /\ lines <= Cardinality(Keys) /\ lines' = lines + 1 /\ score' = score
      /\ TypeOK /\ lines = Cardinality(DOMAIN run) /\ score = [s \in Stacks |-> NoValue]
    BY DEF EvaluationInv, ReadRecord, Scored
<1>2. IsFiniteSet(DOMAIN run) /\ Cardinality(Keys) \in Nat
    BY <1>1, RunFinite, FS_CardinalityType, EvaluationAssumption
<1>3. lines' \in 0..Cardinality(Keys) + 1
    BY <1>1, <1>2 DEF TypeOK
<1>4. CASE pc' = "refused" /\ UNCHANGED run
    BY <1>1, <1>3, <1>4 DEF EvaluationInv, TypeOK, ReportCoversMatrix, Scored
<1>5. ASSUME NEW k \in Keys, NEW o \in Outcomes, k \notin DOMAIN run, pc' = pc,
             run' = [j \in DOMAIN run \union {k} |-> IF j = k THEN o ELSE run[j]]
      PROVE  EvaluationInv'
  <2>1. DOMAIN run' = DOMAIN run \union {k}
      BY <1>5
  <2>2. lines' = Cardinality(DOMAIN run')
      BY <1>1, <1>2, <1>5, <2>1, FS_AddElement
  <2>3. DOMAIN run' \subseteq Keys /\ \A j \in DOMAIN run' : run'[j] \in Outcomes
      BY <1>1, <1>5 DEF TypeOK
  <2>4. TypeOK'
      BY <1>1, <1>3, <1>5, <2>3 DEF TypeOK
  <2> QED
      BY <1>1, <1>5, <2>2, <2>4 DEF EvaluationInv, ReportCoversMatrix, Scored
<1> QED
    BY <1>1, <1>4, <1>5 DEF ReadRecord, Duplicate

LEMMA ReportKeeps == EvaluationInv /\ Report => EvaluationInv'
<1> SUFFICES ASSUME EvaluationInv, Report PROVE EvaluationInv'
    OBVIOUS
<1>1. /\ pc = "reading" /\ lines' = lines /\ run' = run /\ TypeOK
      /\ lines = Cardinality(DOMAIN run) /\ score = [s \in Stacks |-> NoValue]
    BY DEF EvaluationInv, Report, Scored
<1>2. CASE pc' \in {"refused", "crashed"} /\ score' = score
    BY <1>1, <1>2 DEF EvaluationInv, TypeOK, ReportCoversMatrix, Scored
<1>3. CASE ~(pc' \in {"refused", "crashed"} /\ score' = score)
  <2>1. /\ Complete /\ CostsKnown /\ pc' = "reported"
        /\ score' = [s \in Stacks |->
                       IF s \in EligibleStacks THEN WeightedScore(s, EligibleStacks) ELSE NoValue]
      BY <1>3 DEF Report, CostsKnown, EligibleStacks
  <2>2. score' \in [Stacks -> {NoValue} \union 0..100]
    <3>1. \A s \in EligibleStacks : WeightedScore(s, EligibleStacks) \in {NoValue} \union 0..100
        BY <1>1, <2>1, WeightedScoreType DEF Whole
    <3> QED
        BY <2>1, <3>1
  <2>3. TypeOK'
      BY <1>1, <2>1, <2>2 DEF TypeOK
  <2>4. Complete' /\ CostsKnown' /\ EligibleStacks' = EligibleStacks
        /\ \A s \in Stacks : WeightedScore(s, EligibleStacks)' = WeightedScore(s, EligibleStacks)
    <3>1. run' = run
        BY <1>1
    <3> QED
        BY <2>1, <3>1, SameRunSameScores DEF Complete, CostsKnown
  <2> QED
      BY <1>1, <2>1, <2>3, <2>4
      DEF EvaluationInv, ReportCoversMatrix, Scored, Complete, CostsKnown
<1> QED
    BY <1>2, <1>3

LEMMA EvaluationNext == EvaluationInv /\ [Next]_vars => EvaluationInv'
<1> SUFFICES ASSUME EvaluationInv, [Next]_vars PROVE EvaluationInv'
    OBVIOUS
<1>1. CASE ReadRecord
    BY <1>1, ReadRecordKeeps
<1>2. CASE Report
    BY <1>2, ReportKeeps
<1>3. CASE UNCHANGED vars
  <2>1. /\ run' = run /\ pc' = pc /\ lines' = lines /\ score' = score
      BY <1>3 DEF vars
  <2>2. TypeOK' /\ ReportCoversMatrix' /\ Complete' = Complete
      BY <2>1 DEF EvaluationInv, TypeOK, ReportCoversMatrix, Complete
  <2> QED
      BY <2>1, <2>2, SameRunSameScores DEF EvaluationInv, Scored
<1> QED
    BY <1>1, <1>2, <1>3 DEF Next, Finished

LEMMA AlwaysEvaluationInv == Spec => []EvaluationInv
BY EvaluationInit, EvaluationNext, PTL DEF Spec

\* The report keeps every variable of its type; in particular every score is a
\* percentage, for any figures.
THEOREM EvaluationTypeCorrect == Spec => []TypeOK
<1>1. EvaluationInv => TypeOK
    BY DEF EvaluationInv
<1> QED
    BY <1>1, AlwaysEvaluationInv, PTL

\* A report is of the whole matrix, each run once, for any cases, stacks and
\* repetitions and whatever is in the file (evaluation.py:126-149).
THEOREM ReportsCoverTheMatrix == Spec => []ReportCoversMatrix
<1>1. EvaluationInv => ReportCoversMatrix
    BY DEF EvaluationInv
<1> QED
    BY <1>1, AlwaysEvaluationInv, PTL

LEMMA ScoredIsEligible ==
    ASSUME EvaluationInv, NEW s \in Stacks, score[s] # NoValue
    PROVE  /\ pc = "reported" /\ Whole /\ CostsKnown /\ s \in EligibleStacks
           /\ score[s] = WeightedScore(s, EligibleStacks) /\ Quality(s) # NoValue
<1>1. pc = "reported"
    BY DEF EvaluationInv, Scored
<1>2. /\ Whole /\ CostsKnown
      /\ score = [t \in Stacks |->
                   IF t \in EligibleStacks THEN WeightedScore(t, EligibleStacks) ELSE NoValue]
    BY <1>1 DEF EvaluationInv, Scored, Whole, CostsKnown
<1>3. s \in EligibleStacks /\ score[s] = WeightedScore(s, EligibleStacks)
    BY <1>2
<1>4. Quality(s) # NoValue
    BY <1>3, ScoreIs
<1> QED
    BY <1>1, <1>2, <1>3, <1>4

\* No stack with an unsafe run is scored, however many of its runs were safe
\* (evaluation.py:254).
THEOREM UnsafeStacksAreUnscored == Spec => []UnsafeStackUnscored
<1>1. EvaluationInv => UnsafeStackUnscored
  <2> SUFFICES ASSUME EvaluationInv, NEW s \in Stacks, score[s] # NoValue, NEW k \in RunsOf(s)
               PROVE  /\ run[k].gates
                      /\ run[k].delivered => run[k].valid /\ k[1] \notin FailClosed
      BY DEF UnsafeStackUnscored
  <2>1. ~HardFailure(k)
      BY ScoredIsEligible DEF EligibleStacks, Eligible
  <2> QED
      BY <2>1 DEF HardFailure
<1> QED
    BY <1>1, AlwaysEvaluationInv, PTL

\* The score ranks: who is at least as good in all five figures does not score
\* lower, for any number of stacks and any figures, zero included
\* (evaluation.py:274-309).
THEOREM BetterStacksScoreHigher == Spec => []BetterScoresHigher
<1>1. EvaluationInv => BetterScoresHigher
  <2> SUFFICES ASSUME EvaluationInv, NEW s \in Stacks, NEW t \in Stacks,
                      score[s] # NoValue, score[t] # NoValue,
                      Quality(s) >= Quality(t), SuccessRate(s) >= SuccessRate(t),
                      Latency(s) <= Latency(t), Cost(s) <= Cost(t), Effort(s) <= Effort(t)
               PROVE  score[s] >= score[t]
      BY DEF BetterScoresHigher
  <2>1. /\ Whole /\ CostsKnown /\ s \in EligibleStacks /\ t \in EligibleStacks
        /\ score[s] = WeightedScore(s, EligibleStacks) /\ Quality(s) # NoValue
        /\ score[t] = WeightedScore(t, EligibleStacks) /\ Quality(t) # NoValue
      BY ScoredIsEligible
  <2>2. /\ Quality(s) \in 0..100 /\ SuccessRate(s) \in 0..100
        /\ Quality(t) \in 0..100 /\ SuccessRate(t) \in 0..100
      BY <2>1, Percentages
  <2>3. /\ LatencyScore(s) \in 0..100 /\ CostScore(s) \in 0..100 /\ EffortScore(s) \in 0..100
        /\ LatencyScore(t) \in 0..100 /\ CostScore(t) \in 0..100 /\ EffortScore(t) \in 0..100
      BY <2>1, InverseScores DEF Scores
  <2>4. /\ LatencyScore(s) >= LatencyScore(t)
        /\ CostScore(s) >= CostScore(t) /\ EffortScore(s) >= EffortScore(t)
      BY <2>1, InverseScoresRank
  <2> DEFINE a == Points(Quality(s), SuccessRate(s), LatencyScore(s), CostScore(s), EffortScore(s))
             b == Points(Quality(t), SuccessRate(t), LatencyScore(t), CostScore(t), EffortScore(t))
  <2>5. a \in Nat /\ b \in Nat /\ a >= b
    <3>1. /\ 40 * Quality(s) \in Nat /\ 40 * Quality(t) \in Nat
          /\ 40 * Quality(s) >= 40 * Quality(t)
        BY <2>2
    <3>2. /\ 25 * SuccessRate(s) \in Nat /\ 25 * SuccessRate(t) \in Nat
          /\ 25 * SuccessRate(s) >= 25 * SuccessRate(t)
        BY <2>2
    <3>3. /\ 15 * LatencyScore(s) \in Nat /\ 15 * LatencyScore(t) \in Nat
          /\ 15 * LatencyScore(s) >= 15 * LatencyScore(t)
        BY <2>3, <2>4
    <3>4. /\ 10 * CostScore(s) \in Nat /\ 10 * CostScore(t) \in Nat
          /\ 10 * CostScore(s) >= 10 * CostScore(t)
        BY <2>3, <2>4
    <3>5. /\ 10 * EffortScore(s) \in Nat /\ 10 * EffortScore(t) \in Nat
          /\ 10 * EffortScore(s) >= 10 * EffortScore(t)
        BY <2>3, <2>4
    <3> QED
        BY <3>1, <3>2, <3>3, <3>4, <3>5 DEF Points
  <2>6. a \div 100 >= b \div 100
    <3> HIDE DEF a, b
    <3> QED
        BY <2>5
  <2>7. Mean(Quality(s), SuccessRate(s), LatencyScore(s), CostScore(s), EffortScore(s))
          >= Mean(Quality(t), SuccessRate(t), LatencyScore(t), CostScore(t), EffortScore(t))
      BY <2>6 DEF Mean
  <2> QED
      BY <2>1, <2>7, ScoreIs
<1> QED
    BY <1>1, AlwaysEvaluationInv, PTL

----------------------------------------------------------------------------
(* The uploads of a request, which read_uploaded_sources adds up.              *)

Size == [i \in DOMAIN files |-> files[i].size]
BytesOf(n) == SumOver(Size, 1..n)

\* A file that keeps within the limits on its own.
Good(i) == Named(files[i]) /\ Signed(files[i]) /\ files[i].size \in 1..FileLimit

Acceptable ==
    /\ Len(files) \in 1..MaxFiles
    /\ \A i \in DOMAIN files : Good(i)
    /\ BytesOf(Len(files)) <= TotalLimit

\* The files before index were good, and their bytes are counted; of the file at
\* index it is known, once it was read, whether it is good.
Reading ==
    /\ Len(files) \in 1..MaxFiles
    /\ index \in 1..Len(files)
    /\ closed = 1..(index - 1)
    /\ \A i \in 1..(index - 1) : Good(i)
    /\ total = BytesOf(index - 1)
    /\ Len(sources) = index - 1 /\ \A i \in 1..(index - 1) : sources[i] = i

UploadsInv ==
    /\ UploadsTypeOK
    /\ total <= TotalLimit
    /\ reader = "count" =>
          index = 1 /\ total = 0 /\ pending = 0 /\ sources = <<>> /\ closed = {}
    /\ reader \in {"read", "close"} => Reading
    /\ reader = "read" => pending = 0
    /\ reader = "close" =>
          /\ raised <=> ~Good(index)
          /\ ~raised => pending = files[index].size
    /\ reader = "accepted" => Acceptable /\ sources = [i \in DOMAIN files |-> i]
    /\ reader = "refused" => ~Acceptable
    /\ ReadFilesClosed

LEMMA FileTypes ==
    ASSUME UploadsTypeOK
    PROVE  /\ Len(files) \in Nat /\ DOMAIN files = 1..Len(files)
           /\ \A i \in DOMAIN files : /\ files[i].size \in Nat
                                      /\ Size[i] = files[i].size
<1>1. files \in Seq(Uploads)
    BY DEF UploadsTypeOK
<1>2. \A i \in DOMAIN files : files[i] \in Uploads
    BY <1>1
<1>3. \A file \in Uploads : file.size \in Nat
    BY LimitsAssumption DEF Uploads
<1> QED
    BY <1>1, <1>2, <1>3 DEF Size

LEMMA SizesAreBytes ==
    ASSUME UploadsTypeOK
    PROVE  Sizes(files) = BytesOf(Len(files))
<1>1. DOMAIN files = 1..Len(files) /\ DOMAIN Size = DOMAIN files
    BY FileTypes DEF Size
<1>2. Sizes(files) = SumOver(Size, DOMAIN files)
    BY <1>1, Zenon DEF Sizes, SumOver, Size, MapThenSumSet, MapThenFoldSet,
        MapThenSumSet, MapThenFoldSet
<1> QED
    BY <1>1, <1>2 DEF BytesOf

LEMMA BytesAdd ==
    ASSUME UploadsTypeOK, NEW n \in 1..Len(files)
    PROVE  /\ BytesOf(n) = BytesOf(n - 1) + files[n].size
           /\ BytesOf(n) \in Nat /\ BytesOf(n) <= BytesOf(Len(files))
<1> DEFINE S == 1..n
           A == 1..Len(files)
<1>1. /\ Len(files) \in Nat /\ n \in Nat /\ S \in SUBSET A /\ n \in S
      /\ S \ {n} = 1..(n - 1) /\ files[n].size \in Nat /\ Size[n] = files[n].size
      /\ \A i \in A : Size[i] \in Nat
    BY FileTypes
<1>2. IsFiniteSet(S) /\ IsFiniteSet(A)
    BY <1>1, FS_Interval
<1>3. BytesOf(n) = SumOver(Size, S) /\ BytesOf(Len(files)) = SumOver(Size, A)
    BY DEF BytesOf
<1>4. BytesOf(n - 1) = SumOver(Size, S \ {n})
    BY <1>1 DEF BytesOf
<1> HIDE DEF S, A
<1>5. SumOver(Size, S) = Size[n] + SumOver(Size, S \ {n})
    BY <1>1, <1>2, SumAny
<1>6. SumOver(Size, S) \in Nat /\ SumOver(Size, S \ {n}) \in Nat
  <2>1. IsFiniteSet(S \ {n}) /\ \A i \in S : Size[i] \in Nat
      BY <1>1, <1>2, FS_RemoveElement
  <2> QED
      BY <1>2, <2>1, SumNat
<1>7. SumOver(Size, S) <= SumOver(Size, A)
    BY <1>1, <1>2, SumPart
<1> QED
    BY <1>1, <1>3, <1>4, <1>5, <1>6, <1>7

LEMMA NoBytes == BytesOf(0) = 0
<1>1. 1..0 = {}
    OBVIOUS
<1> QED
    BY <1>1, SumEmpty DEF BytesOf

LEMMA UploadsInvInit ==
    ASSUME UploadsInit
    PROVE  UploadsInv
<1>1. PICK n \in 0..MostFiles : files \in [1..n -> Uploads]
    BY DEF UploadsInit
<1>2. files \in Seq(Uploads)
    BY <1>1, LimitsAssumption
<1>3. /\ reader = "count" /\ index = 1 /\ pending = 0 /\ raised = FALSE
      /\ total = 0 /\ sources = <<>> /\ closed = {}
    BY DEF UploadsInit
<1>4. /\ 0 \in 0..(FileLimit + 1) /\ 0 <= TotalLimit /\ sources \in Seq(1..Len(files))
    BY <1>3, LimitsAssumption
<1>5. 0 \in Nat /\ 1 \in Nat \ {0} /\ {} \subseteq DOMAIN files
    OBVIOUS
<1>6. UploadsTypeOK
    BY <1>2, <1>3, <1>4, <1>5 DEF UploadsTypeOK
<1> QED
    BY <1>3, <1>4, <1>6 DEF UploadsInv, ReadFilesClosed

LEMMA CountFilesKeeps ==
    ASSUME UploadsInv, CountFiles
    PROVE  UploadsInv'
<1>1. /\ reader = "count" /\ index = 1 /\ total = 0 /\ pending = 0 /\ sources = <<>>
      /\ closed = {} /\ UploadsTypeOK /\ total <= TotalLimit
      /\ reader' = IF Len(files) \in 1..MaxFiles THEN "read" ELSE "refused"
      /\ UNCHANGED <<files, index, pending, raised, total, sources, closed>>
    BY DEF UploadsInv, CountFiles
<1>2. UploadsTypeOK'
    BY <1>1 DEF UploadsTypeOK
<1>3. 1..(1 - 1) = {} /\ 1 - 1 = 0
    OBVIOUS
<1>4. CASE Len(files) \in 1..MaxFiles
  <2>1. reader' = "read"
      BY <1>1, <1>4
  <2>2. 1 \in 1..Len(files)
      BY <1>4, LimitsAssumption
  <2>3. total = BytesOf(index - 1)
      BY <1>1, <1>3, NoBytes
  <2>4. Len(sources) = index - 1
      BY <1>1, <1>3
  <2>5. Reading
      BY <1>1, <1>3, <1>4, <2>2, <2>3, <2>4 DEF Reading
  <2>6. Reading'
      BY <1>1, <2>5 DEF Reading, Good, BytesOf, Size, Named, Signed
  <2> QED
      BY <1>1, <1>2, <2>1, <2>6 DEF UploadsInv, ReadFilesClosed
<1>5. CASE Len(files) \notin 1..MaxFiles
    BY <1>1, <1>2, <1>5 DEF UploadsInv, ReadFilesClosed, Acceptable
<1> QED
    BY <1>4, <1>5

LEMMA ReadUploadKeeps ==
    ASSUME UploadsInv, ReadUpload
    PROVE  UploadsInv'
<1>1. /\ reader = "read" /\ reader' = "close" /\ UploadsTypeOK /\ total <= TotalLimit /\ Reading
      /\ pending' = IF Named(files[index]) THEN Readable(files[index]) ELSE 0
      /\ raised' = ~(/\ Named(files[index])
                     /\ pending' > 0 /\ pending' <= FileLimit
                     /\ Signed(files[index]))
      /\ UNCHANGED <<files, index, total, sources, closed>>
    BY DEF UploadsInv, ReadUpload
<1>2. index \in DOMAIN files /\ files[index].size \in Nat
    BY <1>1, FileTypes DEF Reading
<1>3. Readable(files[index]) \in 0..(FileLimit + 1)
    BY <1>2, LimitsAssumption DEF Readable
<1>4. pending' \in 0..(FileLimit + 1) /\ raised' \in BOOLEAN
    BY <1>1, <1>3, LimitsAssumption
<1>5. UploadsTypeOK'
    BY <1>1, <1>4 DEF UploadsTypeOK
<1>6. /\ raised' <=> ~Good(index)
      /\ ~raised' => pending' = files[index].size
  <2>1. CASE ~Named(files[index])
      BY <1>1, <2>1 DEF Good
  <2>2. CASE Named(files[index])
    <3>1. pending' = Readable(files[index])
        BY <1>1, <2>2
    <3>2. /\ pending' > 0 /\ pending' <= FileLimit <=> files[index].size \in 1..FileLimit
          /\ pending' <= FileLimit => pending' = files[index].size
        BY <1>2, <3>1, LimitsAssumption DEF Readable
    <3> QED
        BY <1>1, <2>2, <3>2, Zenon DEF Good
  <2> QED
      BY <2>1, <2>2
<1>7. Reading' /\ (Good(index)' <=> Good(index))
    BY <1>1 DEF Reading, Good, BytesOf, Size, Named, Signed
<1> QED
    BY <1>1, <1>5, <1>6, <1>7 DEF UploadsInv, ReadFilesClosed

LEMMA CloseUploadKeeps ==
    ASSUME UploadsInv, CloseUpload
    PROVE  UploadsInv'
<1>1. /\ reader = "close" /\ UploadsTypeOK /\ total <= TotalLimit /\ Reading
      /\ raised <=> ~Good(index)
      /\ ~raised => pending = files[index].size
      /\ closed' = closed \union {index}
      /\ UNCHANGED <<files, raised>>
    BY DEF UploadsInv, CloseUpload, Closed
<1>2. /\ Len(files) \in 1..MaxFiles /\ Len(files) \in Nat /\ DOMAIN files = 1..Len(files)
      /\ index \in 1..Len(files) /\ index \in Nat \ {0} /\ index \in Nat /\ total \in Nat
      /\ closed = 1..(index - 1)
      /\ total = BytesOf(index - 1)
      /\ Len(sources) = index - 1 /\ \A i \in 1..(index - 1) : sources[i] = i
      /\ \A i \in 1..(index - 1) : Good(i)
      /\ pending \in 0..(FileLimit + 1) /\ sources \in Seq(1..Len(files))
    BY <1>1, FileTypes DEF Reading, UploadsTypeOK
<1>3. closed' = 1..index /\ closed' \subseteq DOMAIN files
    BY <1>1, <1>2
<1>4. /\ BytesOf(index) = BytesOf(index - 1) + files[index].size
      /\ BytesOf(index) \in Nat /\ BytesOf(index) <= BytesOf(Len(files))
    BY <1>1, <1>2, BytesAdd
<1>5. BytesOf(Len(files)) \in Nat
  <2>1. Len(files) \in 1..Len(files)
      BY <1>2
  <2> QED
      BY <1>1, <2>1, BytesAdd
<1>6. CASE raised \/ OverLimit
  <2>1. reader' = "refused" /\ UNCHANGED <<files, index, total, sources, pending, raised>>
      BY <1>1, <1>6 DEF CloseUpload
  <2>2. ~Acceptable
    <3>1. CASE raised
      <4>1. index \in DOMAIN files
          BY <1>2
      <4> QED
          BY <1>1, <3>1, <4>1, Zenon DEF Acceptable
    <3>2. CASE ~raised
      <4>1. total + pending > TotalLimit /\ pending = files[index].size
          BY <1>1, <1>6, <3>2 DEF OverLimit
      <4>2. ~(BytesOf(Len(files)) <= TotalLimit)
          BY <1>2, <1>4, <1>5, <4>1, LimitsAssumption
      <4> QED
          BY <4>2 DEF Acceptable
    <3> QED
        BY <3>1, <3>2
  <2>3. ~Acceptable'
      BY <2>1, <2>2 DEF Acceptable, Good, BytesOf, Size, Named, Signed
  <2>4. UploadsTypeOK'
      BY <1>1, <1>3, <2>1 DEF UploadsTypeOK
  <2> QED
      BY <1>1, <1>2, <1>3, <2>1, <2>3, <2>4 DEF UploadsInv, ReadFilesClosed
<1>7. CASE ~(raised \/ OverLimit)
  <2>1. /\ total' = total + pending /\ pending' = 0 /\ sources' = Append(sources, index)
        /\ files' = files /\ raised' = raised
        /\ IF index < Len(files) THEN reader' = "read" /\ index' = index + 1
           ELSE reader' = "accepted" /\ index' = index
      BY <1>1, <1>7 DEF CloseUpload
  <2>2. Good(index) /\ pending = files[index].size /\ total + pending <= TotalLimit
      BY <1>1, <1>2, <1>7, LimitsAssumption DEF OverLimit
  <2>3. total' = BytesOf(index) /\ total' <= TotalLimit /\ total' \in Nat
      BY <1>2, <1>4, <2>1, <2>2
  <2>4. /\ sources' \in Seq(1..Len(files)) /\ Len(sources') = index
        /\ \A i \in 1..index : sources'[i] = i
      BY <1>2, <2>1
  <2>5. \A i \in 1..index : Good(i)
    <3>1. \A i \in 1..index : i \in 1..(index - 1) \/ i = index
        BY <1>2
    <3> QED
        BY <1>2, <2>2, <3>1
  <2>6. 0 \in 0..(FileLimit + 1) /\ 0 \in Nat
      BY LimitsAssumption
  <2>7. CASE index < Len(files)
    <3>1. reader' = "read" /\ index' = index + 1 /\ index' \in 1..Len(files)
          /\ index' \in Nat \ {0} /\ index' - 1 = index
        BY <1>2, <2>1, <2>7
    <3>2. UploadsTypeOK'
        BY <1>1, <1>3, <2>1, <2>3, <2>4, <2>6, <3>1 DEF UploadsTypeOK
    <3>3. Size' = Size
        BY <2>1 DEF Size
    <3>4. total' = SumOver(Size', 1..(index' - 1))
        BY <2>3, <3>1, <3>3 DEF BytesOf
    <3>5. \A i \in 1..(index' - 1) : Good(i)'
        BY <2>1, <2>5, <3>1 DEF Good, Named, Signed
    <3>6. Len(sources') = index' - 1 /\ \A i \in 1..(index' - 1) : sources'[i] = i
        BY <2>4, <3>1
    <3>7. closed' = 1..(index' - 1)
        BY <1>3, <3>1
    <3>8. Reading'
        BY <1>2, <2>1, <3>1, <3>4, <3>5, <3>6, <3>7 DEF Reading, BytesOf
    <3> QED
        BY <2>1, <2>3, <3>1, <3>2, <3>8 DEF UploadsInv, ReadFilesClosed
  <2>8. CASE ~(index < Len(files))
    <3>0. reader' = "accepted" /\ index' = index
        BY <2>1, <2>8
    <3>i. \A m, n \in Nat : n \in 1..m /\ ~(n < m) => n = m
        OBVIOUS
    <3>1. reader' = "accepted" /\ index' = index /\ index = Len(files)
        BY <1>2, <2>8, <3>0, <3>i, Zenon
    <3>2. UploadsTypeOK'
        BY <1>1, <1>3, <2>1, <2>3, <2>4, <2>6, <3>1 DEF UploadsTypeOK
    <3>3. Acceptable
        BY <1>2, <2>3, <2>5, <3>1 DEF Acceptable
    <3>4. Acceptable'
        BY <2>1, <3>3 DEF Acceptable, Good, BytesOf, Size, Named, Signed
    <3>5. sources' = [i \in DOMAIN files |-> i]
        BY <1>2, <2>4, <3>1
    <3> QED
        BY <1>2, <1>3, <2>1, <2>3, <3>1, <3>2, <3>4, <3>5 DEF UploadsInv, ReadFilesClosed
  <2> QED
      BY <2>7, <2>8
<1> QED
    BY <1>6, <1>7

LEMMA UploadsInvNext ==
    ASSUME UploadsInv, [UploadsNext]_uploadsVars
    PROVE  UploadsInv'
<1>1. CASE CountFiles
    BY <1>1, CountFilesKeeps
<1>2. CASE ReadUpload
    BY <1>2, ReadUploadKeeps
<1>3. CASE CloseUpload
    BY <1>3, CloseUploadKeeps
<1>4. CASE UNCHANGED uploadsVars
  <2>1. UNCHANGED <<reader, files, index, pending, raised, total, sources, closed>>
      BY <1>4 DEF uploadsVars
  <2>2. UploadsTypeOK'
      BY <2>1 DEF UploadsInv, UploadsTypeOK
  <2>3. /\ Reading' <=> Reading
        /\ Good(index)' <=> Good(index)
        /\ Acceptable' <=> Acceptable
      BY <2>1 DEF Reading, Acceptable, Good, BytesOf, Size, Named, Signed
  <2> QED
      BY <2>1, <2>2, <2>3 DEF UploadsInv, ReadFilesClosed
<1> QED
    BY <1>1, <1>2, <1>3, <1>4 DEF UploadsNext, Answered

LEMMA AlwaysUploads ==
    UploadsSpec => []UploadsInv
<1>1. UploadsInit => UploadsInv
    BY UploadsInvInit
<1>2. UploadsInv /\ [UploadsNext]_uploadsVars => UploadsInv'
    BY UploadsInvNext
<1> QED
    BY <1>1, <1>2, PTL DEF UploadsSpec

\* Reading keeps every variable of its type, whatever the client sends.
THEOREM UploadsTypeCorrect ==
    UploadsSpec => []UploadsTypeOK
<1>1. UploadsInv => UploadsTypeOK
    BY DEF UploadsInv
<1> QED
    BY <1>1, AlwaysUploads, PTL

\* No request makes the portal hold more than the limit of a request and one byte
\* over the limit of a file, for every value of the limits (uploads.py:45-46 looks
\* at the total only after the file is in memory).
THEOREM MemoryIsBounded ==
    UploadsSpec => []MemoryBounded
<1>1. UploadsInv => MemoryBounded
    BY LimitsAssumption DEF UploadsInv, UploadsTypeOK, MemoryBounded
<1> QED
    BY <1>1, AlwaysUploads, PTL

\* Every file that was read is closed when the request is answered, for any number
\* of files and however reading went (the finally block of uploads.py:43-44).
THEOREM ReadFilesAreClosed ==
    UploadsSpec => []ReadFilesClosed
<1>1. UploadsInv => ReadFilesClosed
    BY DEF UploadsInv
<1> QED
    BY <1>1, AlwaysUploads, PTL

\* Reading file by file with early exits decides as a check of the whole request
\* would: a request is accepted, whole and in its order, exactly when it has some
\* files and not too many, each of them is good, and all their bytes together keep
\* within the limit, for every request and all limits (uploads.py:35-49).
THEOREM RequestsAreAcceptedExactly ==
    UploadsSpec => []AcceptsExactly
<1>1. ASSUME UploadsInv PROVE AcceptsExactly
  <2>1. Sizes(files) = BytesOf(Len(files))
      BY <1>1, SizesAreBytes DEF UploadsInv
  <2>2. /\ reader = "accepted" => Acceptable /\ sources = [i \in DOMAIN files |-> i]
        /\ reader = "refused" => ~Acceptable
      BY <1>1 DEF UploadsInv
  <2>3. Acceptable <=>
          /\ Len(files) \in 1..MaxFiles
          /\ \A i \in DOMAIN files :
                Named(files[i]) /\ Signed(files[i]) /\ files[i].size \in 1..FileLimit
          /\ Sizes(files) <= TotalLimit
      BY <2>1, Zenon DEF Acceptable, Good
  <2>4. "accepted" # "refused"
      OBVIOUS
  <2> QED
      BY <2>2, <2>3, <2>4, Zenon DEF AcceptsExactly
<1> QED
    BY <1>1, AlwaysUploads, PTL
=============================================================================
