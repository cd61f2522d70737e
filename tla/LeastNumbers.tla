---------------------------- MODULE LeastNumbers -----------------------------
(* The least and the greatest of a set of numbers. What is read by         *)
(* recursion, along a chain of corrections or over a set, is proved about  *)
(* from a least counterexample; so are the sums over finite sets that      *)
(* registers, payments, months and calendars are added up with.            *)
EXTENDS Integers, FiniteSetsExt, FiniteSetTheorems, WellFoundedInduction, TLAPS

\* Less-than on the naturals is well founded, stated with its pairs.
LEMMA LessThanWellFounded == IsWellFoundedOn({ss \in Nat \X Nat : ss[1] < ss[2]}, Nat)
  BY NatLessThanWellFounded DEF OpToRel

\* A set of naturals that has a member has a least one.
LEMMA LeastNatural ==
  ASSUME NEW T \in SUBSET Nat, T # {}
  PROVE  \E x \in T : \A y \in T : x <= y
  <1> DEFINE R == {ss \in Nat \X Nat : ss[1] < ss[2]}
  <1>1. PICK x \in T : \A y \in T : ~(<<y, x>> \in R)
    BY LessThanWellFounded, WFMin
  <1>2. ASSUME NEW y \in T PROVE x <= y
    <2>1. ~(<<y, x>> \in R) /\ <<y, x>> \in Nat \X Nat
      BY <1>1
    <2>2. ~(y < x)
      BY <2>1
    <2>3. QED
      BY <2>2
  <1>3. QED
    BY <1>2

\* Min finds it.
LEMMA MinIsLeast ==
  ASSUME NEW T \in SUBSET Nat, T # {}
  PROVE  Min(T) \in T /\ \A y \in T : Min(T) <= y
  BY LeastNatural DEF Min

\* A bounded set of naturals that has a member has a greatest one, and Max
\* finds it.
LEMMA MaxIsGreatest ==
  ASSUME NEW n \in Nat, NEW T \in SUBSET (0..n), T # {}
  PROVE  Max(T) \in T /\ \A y \in T : Max(T) >= y
  <1> DEFINE U == {k \in 0..n : n - k \in T}
  <1>1. U \in SUBSET Nat /\ U # {}
    <2>1. PICK y \in T : TRUE
      OBVIOUS
    <2>2. y \in 0..n /\ n - (n - y) = y /\ n - y \in 0..n
      BY <2>1
    <2>3. n - y \in U
      BY <2>1, <2>2
    <2>4. U \in SUBSET Nat
      OBVIOUS
    <2>5. QED
      BY <2>3, <2>4
  <1>2. PICK k \in U : \A l \in U : k <= l
    BY <1>1, LeastNatural
  <1>3. n - k \in T /\ k \in 0..n
    BY <1>2
  <1>4. ASSUME NEW y \in T PROVE n - k >= y
    <2>1. y \in 0..n /\ n - (n - y) = y
      OBVIOUS
    <2>2. n - y \in U
      BY <2>1
    <2>3. k <= n - y
      BY <1>2, <2>2
    <2>4. QED
      BY <1>3, <2>1, <2>3
  <1>5. QED
    BY <1>3, <1>4 DEF Max

\* Among the parts of a finite set, in any choice of them, there is one that
\* no other of the choice is a part of.
AreWithin(F, U) == \A T \in F : T \subseteq U

IsSmallest(T, F) == T \in F /\ \A S \in F : S \subseteq T => S = T

\* A choice of such parts that is not empty has a smallest member.
LEMMA SmallestSet ==
  ASSUME NEW U, IsFiniteSet(U), NEW F, AreWithin(F, U), F # {}
  PROVE  \E T : IsSmallest(T, F)
  <1> DEFINE R == StrictSubsetOrdering(U)
  <1>1. FiniteSubsetsOf(U) = SUBSET U
    BY FS_FiniteSubsetsOfFinite
  <1>2. IsWellFoundedOn(R, SUBSET U)
    BY <1>1, FS_StrictSubsetOrderingWellFounded
  <1>3. F \in SUBSET (SUBSET U)
    BY DEF AreWithin
  <1>4. PICK T \in F : \A S \in F : ~(<<S, T>> \in R)
    BY <1>2, <1>3, WFMin
  <1>5. ASSUME NEW S \in F, S \subseteq T PROVE S = T
    BY <1>3, <1>4, <1>5 DEF StrictSubsetOrdering
  <1>6. QED
    BY <1>5 DEF IsSmallest

-----------------------------------------------------------------------------
(* Sums over finite sets, in whatever order they are taken.                *)

TotalOver(v, T) == MapThenSumSet(LAMBDA x : v[x], T)

\* A set that is finite, and a function that has a value for each of it.
IsValued(D, v) == IsFiniteSet(D) /\ \A x \in D : v[x] \in Int

\* g[T] is what the values of T come to, whichever of them is taken out first.
AddsOver(D, v, g) ==
  /\ g \in [SUBSET D -> Int]
  /\ g[{}] = 0
  /\ \A T \in SUBSET D : \A x \in T : g[T] = v[x] + g[T \ {x}]

\* With a value more there is such a function if there was without it.
LEMMA OneValueMore ==
  ASSUME NEW D, NEW v, IsValued(D, v), NEW k \in D, NEW low, D = low \cup {k}, k \notin low,
         NEW f, AddsOver(low, v, f)
  PROVE  \E g : AddsOver(D, v, g)
  <1> DEFINE most(T) == T \ {k}
             own(T) == IF k \in T THEN v[k] ELSE 0
             g == [T \in SUBSET D |-> own(T) + f[most(T)]]
  <1>1. v[k] \in Int
    BY DEF IsValued
  <1>2. \A T \in SUBSET D : most(T) \in SUBSET low
    OBVIOUS
  <1>3. \A T \in SUBSET D : f[most(T)] \in Int
    <2> HIDE DEF most
    <2>1. QED
      BY <1>2 DEF AddsOver
  <1>4. \A T \in SUBSET D : own(T) \in Int
    BY <1>1
  <1>5. \A T \in SUBSET D : own(T) + f[most(T)] \in Int
    <2> HIDE DEF most, own
    <2>1. QED
      BY <1>3, <1>4
  <1>6. \A T \in SUBSET D : g[T] = own(T) + f[most(T)]
    OBVIOUS
  <1>7. g \in [SUBSET D -> Int]
    <2> HIDE DEF most, own
    <2>1. QED
      BY <1>5
  <1> HIDE DEF g
  <1>8. g[{}] = 0
    <2>1. most({}) = {} /\ {} \in SUBSET D /\ own({}) = 0 /\ f[{}] = 0
      BY DEF AddsOver
    <2>2. g[{}] = own({}) + f[most({})]
      BY <1>6, <2>1, Zenon
    <2>3. g[{}] = 0 + 0
      BY <2>1, <2>2, Zenon
    <2>4. QED
      BY <2>3
  <1>9. ASSUME NEW T \in SUBSET D, NEW x \in T PROVE g[T] = v[x] + g[T \ {x}]
    <2>1. T \ {x} \in SUBSET D /\ v[x] \in Int
      BY DEF IsValued
    <2>2. g[T] = own(T) + f[most(T)] /\ g[T \ {x}] = own(T \ {x}) + f[most(T \ {x})]
      BY <1>6, <2>1
    <2>3. CASE x = k
      <3>1. most(T \ {x}) = most(T) /\ own(T) = v[x] /\ own(T \ {x}) = 0
        BY <2>3
      <3>2. f[most(T)] \in Int
        BY <1>3
      <3> HIDE DEF own, most
      <3>3. g[T] = v[x] + f[most(T)] /\ g[T \ {x}] = 0 + f[most(T)]
        BY <2>2, <3>1, Zenon
      <3>4. QED
        BY <2>1, <3>2, <3>3
    <2>4. CASE x # k
      <3>1. x \in most(T) /\ most(T \ {x}) = most(T) \ {x} /\ own(T) = own(T \ {x})
        BY <2>4
      <3>2. most(T) \in SUBSET low /\ own(T) \in Int /\ f[most(T \ {x})] \in Int
        BY <1>2, <1>3, <1>4, <2>1
      <3> HIDE DEF own, most
      <3>3. f[most(T)] = v[x] + f[most(T \ {x})]
        BY <3>1, <3>2 DEF AddsOver
      <3>4. g[T] = own(T) + (v[x] + f[most(T \ {x})]) /\ g[T \ {x}] = own(T) + f[most(T \ {x})]
        BY <2>2, <3>1, <3>3, Zenon
      <3>5. QED
        BY <2>1, <3>2, <3>4
    <2>5. QED
      BY <2>3, <2>4
  <1>10. AddsOver(D, v, g)
    BY <1>7, <1>8, <1>9 DEF AddsOver
  <1>11. QED
    BY <1>10

\* There is such a function for any values.
LEMMA SumExists ==
  ASSUME NEW D, NEW v, IsValued(D, v)
  PROVE  \E g : AddsOver(D, v, g)
  <1> DEFINE F == {T \in SUBSET D : ~\E g : AddsOver(T, v, g)}
  <1>1. F = {}
    <2>1. SUFFICES ASSUME F # {} PROVE FALSE
      OBVIOUS
    <2>2. AreWithin(F, D) /\ IsFiniteSet(D)
      BY DEF AreWithin, IsValued
    <2> HIDE DEF F
    <2>3. PICK T : IsSmallest(T, F)
      BY <2>1, <2>2, SmallestSet
    <2> USE DEF F
    <2>4. T \in SUBSET D /\ ~\E g : AddsOver(T, v, g)
      BY <2>3 DEF IsSmallest
    <2>5. IsValued(T, v)
      BY <2>4, FS_Subset DEF IsValued
    <2>6. T # {}
      <3> DEFINE none == [S \in SUBSET {} |-> 0]
      <3>1. none \in [SUBSET {} -> Int] /\ none[{}] = 0
        OBVIOUS
      <3> HIDE DEF none
      <3>2. AddsOver({}, v, none)
        BY <3>1 DEF AddsOver
      <3>3. QED
        BY <2>4, <3>2
    <2>7. PICK k \in T : TRUE
      BY <2>6
    <2> DEFINE low == T \ {k}
    <2>8. low \in SUBSET D /\ low \subseteq T /\ low # T /\ T = low \cup {k} /\ k \notin low
      BY <2>4, <2>7
    <2>9. low \notin F
      BY <2>3, <2>8 DEF IsSmallest
    <2>10. PICK f : AddsOver(low, v, f)
      BY <2>8, <2>9
    <2> HIDE DEF low, F
    <2>11. QED
      BY <2>4, <2>5, <2>7, <2>8, <2>10, OneValueMore
  <1>2. D \in SUBSET D
    OBVIOUS
  <1>3. QED
    BY <1>1, <1>2

\* What MapThenSumSet makes of a function's values is that sum.
LEMMA TotalIsTheSum ==
  ASSUME NEW D, NEW f, IsValued(D, f), NEW g, AddsOver(D, f, g), NEW T \in SUBSET D
  PROVE  TotalOver(f, T) = g[T]
  <1> DEFINE Iter(h) == h = [S \in SUBSET T |-> IF S = {} THEN 0
                               ELSE f[CHOOSE x \in S : TRUE] + h[S \ {CHOOSE x \in S : TRUE}]]
  <1>1. Iter([S \in SUBSET T |-> g[S]])
    <2> DEFINE h == [S \in SUBSET T |-> g[S]]
    <2>1. ASSUME NEW S \in SUBSET T, S # {}
          PROVE  h[S] = f[CHOOSE x \in S : TRUE] + h[S \ {CHOOSE x \in S : TRUE}]
      <3> DEFINE x == CHOOSE x \in S : TRUE
      <3>1. x \in S
        BY <2>1
      <3> HIDE DEF x
      <3>2. S \in SUBSET D /\ S \ {x} \in SUBSET T
        BY <3>1
      <3>3. g[S] = f[x] + g[S \ {x}]
        BY <3>1, <3>2 DEF AddsOver
      <3>4. h[S] = f[x] + h[S \ {x}]
        BY <3>2, <3>3
      <3>5. QED
        BY <3>4 DEF x
    <2>2. h[{}] = 0
      BY DEF AddsOver
    <2>3. QED
      BY <2>1, <2>2
  <1> DEFINE it == CHOOSE h : Iter(h)
  <1>2. Iter(it)
    BY <1>1
  <1>3. TotalOver(f, T) = it[T]
    BY DEF TotalOver, MapThenSumSet, MapThenFoldSet
  <1> HIDE DEF it
  <1> DEFINE F == {S \in SUBSET T : it[S] # g[S]}
  <1>4. F = {}
    <2>1. SUFFICES ASSUME F # {} PROVE FALSE
      OBVIOUS
    <2>2. AreWithin(F, D) /\ IsFiniteSet(D)
      BY DEF AreWithin, IsValued
    <2> HIDE DEF F
    <2>3. PICK S : IsSmallest(S, F)
      BY <2>1, <2>2, SmallestSet
    <2> USE DEF F
    <2>4. S # {}
      <3>1. {} \in SUBSET T /\ it[{}] = 0 /\ g[{}] = 0
        BY <1>2 DEF AddsOver
      <3>2. QED
        BY <2>3, <3>1 DEF IsSmallest
    <2> DEFINE x == CHOOSE x \in S : TRUE
    <2>5. x \in S
      BY <2>4
    <2>6. it[S] = f[x] + it[S \ {x}]
      BY <1>2, <2>3, <2>4 DEF IsSmallest
    <2> HIDE DEF x
    <2>7. S \ {x} \in SUBSET T /\ S \ {x} \notin F
      BY <2>3, <2>5 DEF IsSmallest
    <2>8. g[S] = f[x] + g[S \ {x}]
      BY <2>3, <2>5 DEF AddsOver, IsSmallest
    <2>9. QED
      BY <2>3, <2>6, <2>7, <2>8 DEF IsSmallest
  <1>5. QED
    BY <1>3, <1>4

\* A total is a number, and each of its values is in it.
LEMMA TotalAddsUp ==
  ASSUME NEW D, NEW f, IsValued(D, f)
  PROVE  /\ TotalOver(f, {}) = 0
         /\ \A T \in SUBSET D :
              /\ TotalOver(f, T) \in Int
              /\ \A x \in T : TotalOver(f, T) = f[x] + TotalOver(f, T \ {x})
  <1>1. PICK g : AddsOver(D, f, g)
    BY SumExists
  <1>2. \A T \in SUBSET D : TotalOver(f, T) = g[T]
    BY <1>1, TotalIsTheSum
  <1>3. \A T \in SUBSET D : {} \in SUBSET D /\ \A x \in T : T \ {x} \in SUBSET D
    OBVIOUS
  <1>4. QED
    BY <1>1, <1>2, <1>3 DEF AddsOver

\* Values that are no more than others come to no more, and to less if one is.
LEMMA TotalsCompare ==
  ASSUME NEW D, NEW f, IsValued(D, f), NEW h, IsValued(D, h),
         NEW T \in SUBSET D, \A x \in T : f[x] <= h[x]
  PROVE  /\ TotalOver(f, T) <= TotalOver(h, T)
         /\ (\E x \in T : f[x] < h[x]) => TotalOver(f, T) < TotalOver(h, T)
  <1>0. IsFiniteSet(D)
    BY DEF IsValued
  <1> DEFINE F == {S \in SUBSET T : ~(TotalOver(f, S) <= TotalOver(h, S))}
  <1>1. ASSUME NEW S \in SUBSET T
        PROVE  /\ TotalOver(f, S) \in Int /\ TotalOver(h, S) \in Int
               /\ TotalOver(f, {}) = 0 /\ TotalOver(h, {}) = 0
               /\ \A x \in S : /\ TotalOver(f, S) = f[x] + TotalOver(f, S \ {x})
                               /\ TotalOver(h, S) = h[x] + TotalOver(h, S \ {x})
    <2>1. S \in SUBSET D
      OBVIOUS
    <2>2. /\ TotalOver(f, {}) = 0 /\ \A R \in SUBSET D : TotalOver(f, R) \in Int /\ \A x \in R : TotalOver(f, R) = f[x] + TotalOver(f, R \ {x})
      BY TotalAddsUp
    <2>3. /\ TotalOver(h, {}) = 0 /\ \A R \in SUBSET D : TotalOver(h, R) \in Int /\ \A x \in R : TotalOver(h, R) = h[x] + TotalOver(h, R \ {x})
      BY TotalAddsUp
    <2>4. QED
      BY <2>1, <2>2, <2>3
  <1>2. \A x \in T : f[x] \in Int /\ h[x] \in Int
    BY DEF IsValued
  <1>3. F = {}
    <2>1. SUFFICES ASSUME F # {} PROVE FALSE
      OBVIOUS
    <2>2. AreWithin(F, D)
      BY <1>0 DEF AreWithin
    <2> HIDE DEF F
    <2>3. PICK S : IsSmallest(S, F)
      BY <1>0, <2>1, <2>2, SmallestSet
    <2> USE DEF F
    <2>4. S \in SUBSET T /\ ~(TotalOver(f, S) <= TotalOver(h, S))
      BY <2>3 DEF IsSmallest
    <2>5. S # {}
      <3>1. {} \in SUBSET T
        OBVIOUS
      <3>2. TotalOver(f, {}) = 0 /\ TotalOver(h, {}) = 0
        BY <1>1, <3>1
      <3>3. QED
        BY <2>4, <3>2
    <2>6. PICK x \in S : TRUE
      BY <2>5
    <2>7. S \ {x} \in SUBSET T /\ S \ {x} \notin F
      BY <2>3, <2>6 DEF IsSmallest
    <2>8. TotalOver(f, S \ {x}) <= TotalOver(h, S \ {x}) /\ f[x] <= h[x]
      BY <2>4, <2>7
    <2>9. /\ TotalOver(f, S) = f[x] + TotalOver(f, S \ {x}) /\ TotalOver(h, S) = h[x] + TotalOver(h, S \ {x})
          /\ TotalOver(f, S \ {x}) \in Int /\ TotalOver(h, S \ {x}) \in Int
      BY <1>1, <2>4, <2>7
    <2>10. QED
      BY <1>2, <2>4, <2>8, <2>9
  <1>4. ASSUME NEW x \in T, f[x] < h[x] PROVE TotalOver(f, T) < TotalOver(h, T)
    <2>1. T \ {x} \in SUBSET T /\ T \in SUBSET T
      OBVIOUS
    <2>2. TotalOver(f, T \ {x}) <= TotalOver(h, T \ {x})
      BY <1>3, <2>1
    <2>3. /\ TotalOver(f, T) = f[x] + TotalOver(f, T \ {x}) /\ TotalOver(h, T) = h[x] + TotalOver(h, T \ {x})
          /\ TotalOver(f, T \ {x}) \in Int /\ TotalOver(h, T \ {x}) \in Int
      BY <1>1, <2>1
    <2>4. QED
      BY <1>2, <1>4, <2>2, <2>3
  <1>5. T \in SUBSET T
    OBVIOUS
  <1>6. QED
    BY <1>3, <1>4, <1>5

\* The same values come to the same.
LEMMA SameTotal ==
  ASSUME NEW D, NEW f, IsValued(D, f), NEW h,
         \A x \in D : f[x] = h[x]
  PROVE  TotalOver(f, D) = TotalOver(h, D)
  <1>0. IsFiniteSet(D)
    BY DEF IsValued
  <1>1. IsValued(D, h) /\ D \in SUBSET D
    BY DEF IsValued
  <1>2. \A x \in D : f[x] <= h[x] /\ h[x] <= f[x]
    BY DEF IsValued
  <1>3. TotalOver(f, D) <= TotalOver(h, D) /\ TotalOver(h, D) <= TotalOver(f, D)
    BY <1>1, <1>2, TotalsCompare
  <1>4. TotalOver(f, D) \in Int /\ TotalOver(h, D) \in Int
    BY <1>1, TotalAddsUp
  <1>5. QED
    BY <1>3, <1>4

\* Naturals come to a natural.
LEMMA TotalIsNatural ==
  ASSUME NEW D, NEW f, IsValued(D, f), \A x \in D : f[x] >= 0
  PROVE  TotalOver(f, D) \in Nat
  <1>0. IsFiniteSet(D)
    BY DEF IsValued
  <1>1. \A x \in D : f[x] \in Int
    BY DEF IsValued
  <1> DEFINE F == {S \in SUBSET D : ~(TotalOver(f, S) >= 0)}
  <1>2. ASSUME NEW S \in SUBSET D
        PROVE  /\ TotalOver(f, S) \in Int /\ TotalOver(f, {}) = 0
               /\ \A x \in S : TotalOver(f, S) = f[x] + TotalOver(f, S \ {x})
    BY <1>1, TotalAddsUp
  <1>3. F = {}
    <2>1. SUFFICES ASSUME F # {} PROVE FALSE
      OBVIOUS
    <2>2. AreWithin(F, D)
      BY <1>0 DEF AreWithin
    <2> HIDE DEF F
    <2>3. PICK S : IsSmallest(S, F)
      BY <1>0, <2>1, <2>2, SmallestSet
    <2> USE DEF F
    <2>4. S \in SUBSET D /\ ~(TotalOver(f, S) >= 0)
      BY <2>3 DEF IsSmallest
    <2>5. S # {}
      <3>1. {} \in SUBSET D /\ (S = {} => TotalOver(f, S) = TotalOver(f, {}))
        OBVIOUS
      <3> HIDE DEF F
      <3>2. QED
        BY <1>2, <2>4, <3>1
    <2>6. PICK x \in S : TRUE
      BY <2>5
    <2>7. S \ {x} \in SUBSET D /\ S \ {x} \notin F
      BY <2>3, <2>6 DEF IsSmallest
    <2>8. TotalOver(f, S) = f[x] + TotalOver(f, S \ {x}) /\ TotalOver(f, S \ {x}) \in Int
      BY <1>2, <2>4, <2>7
    <2>9. f[x] \in Int /\ f[x] >= 0
      BY <1>1, <2>4
    <2>10. QED
      BY <2>4, <2>7, <2>8, <2>9
  <1>4. D \in SUBSET D
    OBVIOUS
  <1>5. QED
    BY <1>2, <1>3, <1>4

\* Differences come to the difference.
LEMMA TotalOfDifferences ==
  ASSUME NEW D, NEW f, IsValued(D, f), NEW h, IsValued(D, h),
         NEW r, \A x \in D : r[x] = f[x] - h[x]
  PROVE  TotalOver(r, D) = TotalOver(f, D) - TotalOver(h, D)
  <1>0. IsFiniteSet(D)
    BY DEF IsValued
  <1>1. IsValued(D, r)
    <2>1. \A x \in D : f[x] \in Int /\ h[x] \in Int
      BY DEF IsValued
    <2>2. \A x \in D : r[x] \in Int
      BY <2>1
    <2>3. QED
      BY <1>0, <2>2 DEF IsValued
  <1> DEFINE F == {S \in SUBSET D : TotalOver(r, S) # TotalOver(f, S) - TotalOver(h, S)}
  <1>2. ASSUME NEW S \in SUBSET D
        PROVE  /\ TotalOver(f, S) \in Int /\ TotalOver(h, S) \in Int /\ TotalOver(r, S) \in Int
               /\ TotalOver(f, {}) = 0 /\ TotalOver(h, {}) = 0 /\ TotalOver(r, {}) = 0
               /\ \A x \in S : /\ TotalOver(f, S) = f[x] + TotalOver(f, S \ {x})
                               /\ TotalOver(h, S) = h[x] + TotalOver(h, S \ {x})
                               /\ TotalOver(r, S) = r[x] + TotalOver(r, S \ {x})
    BY <1>1, TotalAddsUp
  <1>3. F = {}
    <2>1. SUFFICES ASSUME F # {} PROVE FALSE
      OBVIOUS
    <2>2. AreWithin(F, D)
      BY <1>0 DEF AreWithin
    <2> HIDE DEF F
    <2>3. PICK S : IsSmallest(S, F)
      BY <1>0, <2>1, <2>2, SmallestSet
    <2> USE DEF F
    <2>4. S \in SUBSET D /\ TotalOver(r, S) # TotalOver(f, S) - TotalOver(h, S)
      BY <2>3 DEF IsSmallest
    <2>5. S # {}
      <3> DEFINE none == {}
      <3>1. /\ none \in SUBSET D
            /\ (S = none => /\ TotalOver(f, S) = TotalOver(f, none)
                            /\ TotalOver(h, S) = TotalOver(h, none)
                            /\ TotalOver(r, S) = TotalOver(r, none))
        OBVIOUS
      <3>2. TotalOver(f, none) = 0 /\ TotalOver(h, none) = 0 /\ TotalOver(r, none) = 0
        BY <1>2, <3>1
      <3> HIDE DEF F, none
      <3>3. QED
        BY <2>4, <3>1, <3>2 DEF none
    <2>6. PICK x \in S : TRUE
      BY <2>5
    <2>7. S \ {x} \in SUBSET D /\ S \ {x} \notin F
      BY <2>3, <2>6 DEF IsSmallest
    <2> DEFINE rest == S \ {x}
    <2>8. /\ TotalOver(f, S) = f[x] + TotalOver(f, rest) /\ TotalOver(f, rest) \in Int /\ f[x] \in Int
          /\ TotalOver(h, S) = h[x] + TotalOver(h, rest) /\ TotalOver(h, rest) \in Int /\ h[x] \in Int
          /\ TotalOver(r, S) = r[x] + TotalOver(r, rest) /\ r[x] = f[x] - h[x]
      BY <1>2, <2>4, <2>7 DEF IsValued
    <2>9. TotalOver(r, rest) = TotalOver(f, rest) - TotalOver(h, rest)
      BY <2>7
    <2> HIDE DEF rest, F
    <2>10. QED
      BY <2>4, <2>8, <2>9
  <1>4. D \in SUBSET D
    OBVIOUS
  <1>5. QED
    BY <1>3, <1>4

\* Steps between the marks of a scale come to what lies between the first and
\* the last.
LEMMA TotalTelescopes ==
  ASSUME NEW a \in Nat, NEW b \in Nat, a <= b, NEW marks, \A n \in a..b + 1 : marks[n] \in Int,
         NEW f, \A n \in a..b : f[n] = marks[n + 1] - marks[n]
  PROVE  TotalOver(f, a..b) = marks[b + 1] - marks[a]
  <1>1. IsValued(a..b, f)
    <2> SUFFICES ASSUME NEW n \in a..b PROVE f[n] \in Int
      BY FS_Interval DEF IsValued
    <2>1. n \in a..b + 1 /\ n + 1 \in a..b + 1
      OBVIOUS
    <2>2. QED
      BY <2>1
  <1>2. ASSUME NEW c \in a..b
        PROVE  /\ TotalOver(f, a..c) \in Int /\ TotalOver(f, {}) = 0
               /\ \A x \in a..c : TotalOver(f, a..c) = f[x] + TotalOver(f, (a..c) \ {x})
    <2> DEFINE D == a..b
               T == a..c
    <2>1. T \in SUBSET D /\ IsValued(D, f)
      BY <1>1
    <2> HIDE DEF D, T
    <2>2. TotalOver(f, T) \in Int /\ TotalOver(f, {}) = 0 /\ \A x \in T : TotalOver(f, T) = f[x] + TotalOver(f, T \ {x})
      BY <2>1, TotalAddsUp
    <2>3. QED
      BY <2>2 DEF T
  <1> DEFINE F == {c \in a..b : TotalOver(f, a..c) # marks[c + 1] - marks[a]}
  <1>3. F = {}
    <2>1. SUFFICES ASSUME F # {} PROVE FALSE
      OBVIOUS
    <2>2. F \in SUBSET Nat
      OBVIOUS
    <2>3. PICK c \in F : \A l \in F : c <= l
      BY <2>1, <2>2, LeastNatural
    <2>4. c \in a..b /\ c \in a..c /\ c \in Nat /\ c + 1 \in a..b + 1 /\ c \in a..b + 1 /\ a \in a..b + 1
      BY <2>3
    <2>5. /\ TotalOver(f, a..c) = f[c] + TotalOver(f, (a..c) \ {c})
          /\ f[c] = marks[c + 1] - marks[c]
          /\ marks[c] \in Int /\ marks[c + 1] \in Int /\ marks[a] \in Int
      BY <1>2, <2>4
    <2>6. CASE c = a
      <3>1. (a..c) \ {c} = {}
        BY <2>6
      <3>2. TotalOver(f, (a..c) \ {c}) = 0
        BY <1>2, <2>4, <3>1
      <3>3. QED
        BY <2>3, <2>5, <2>6, <3>2
    <2>7. CASE c # a
      <3>1. (a..c) \ {c} = a..c - 1 /\ c - 1 \in a..b /\ ~(c <= c - 1) /\ c - 1 + 1 = c
        BY <2>4, <2>7
      <3>2. c - 1 \notin F
        BY <2>3, <3>1
      <3>3. TotalOver(f, a..c - 1) = marks[c - 1 + 1] - marks[a]
        BY <3>1, <3>2
      <3>4. TotalOver(f, (a..c) \ {c}) = marks[c] - marks[a]
        BY <3>1, <3>3
      <3>5. TotalOver(f, a..c) = marks[c + 1] - marks[a]
        BY <2>5, <3>4
      <3>6. QED
        BY <2>3, <3>5
    <2>8. QED
      BY <2>6, <2>7
  <1>4. b \in a..b
    OBVIOUS
  <1>5. QED
    BY <1>3, <1>4

\* Two sets that share nothing come to what they come to together.
LEMMA TotalOfParts ==
  ASSUME NEW D, NEW f, IsValued(D, f), NEW A \in SUBSET D, NEW B \in SUBSET D, A \cap B = {}
  PROVE  TotalOver(f, A \cup B) = TotalOver(f, A) + TotalOver(f, B)
  <1>0. IsFiniteSet(D)
    BY DEF IsValued
  <1>1. ASSUME NEW S \in SUBSET D
        PROVE  /\ TotalOver(f, S) \in Int /\ TotalOver(f, {}) = 0
               /\ \A x \in S : TotalOver(f, S) = f[x] + TotalOver(f, S \ {x})
    BY TotalAddsUp
  <1>2. \A x \in D : f[x] \in Int
    BY DEF IsValued
  <1> DEFINE F == {S \in SUBSET B : TotalOver(f, A \cup S) # TotalOver(f, A) + TotalOver(f, S)}
  <1>3. F = {}
    <2>1. SUFFICES ASSUME F # {} PROVE FALSE
      OBVIOUS
    <2>2. AreWithin(F, D)
      BY <1>0 DEF AreWithin
    <2> HIDE DEF F
    <2>3. PICK S : IsSmallest(S, F)
      BY <1>0, <2>1, <2>2, SmallestSet
    <2> USE DEF F
    <2>4. S \in SUBSET B /\ S \in SUBSET D /\ TotalOver(f, A \cup S) # TotalOver(f, A) + TotalOver(f, S)
      BY <2>3 DEF IsSmallest
    <2>5. S # {}
      <3>1. TotalOver(f, {}) = 0 /\ TotalOver(f, A) \in Int
        BY <1>1
      <3>2. S = {} => A \cup S = A
        OBVIOUS
      <3> DEFINE both == A \cup S
      <3>3. TotalOver(f, both) # TotalOver(f, A) + TotalOver(f, S) /\ (S = {} => both = A)
        BY <2>4, <3>2
      <3> HIDE DEF both, F
      <3>4. QED
        BY <3>1, <3>3
    <2>6. PICK x \in S : TRUE
      BY <2>5
    <2>7. S \ {x} \in SUBSET B /\ S \ {x} \in SUBSET D /\ S \ {x} \notin F
      BY <2>3, <2>6 DEF IsSmallest
    <2> DEFINE rest == S \ {x}
               both == A \cup S
    <2>8. both \in SUBSET D /\ x \in both /\ both \ {x} = A \cup rest
      BY <2>4, <2>6
    <2>9. TotalOver(f, A \cup rest) = TotalOver(f, A) + TotalOver(f, rest)
      BY <2>7
    <2>11. TotalOver(f, S) = f[x] + TotalOver(f, rest)
      BY <1>1, <2>4, <2>6
    <2>10. TotalOver(f, both) # TotalOver(f, A) + TotalOver(f, S) /\ TotalOver(f, both \ {x}) = TotalOver(f, A) + TotalOver(f, rest)
      BY <2>4, <2>8, <2>9
    <2> HIDE DEF rest, both, F
    <2>12. TotalOver(f, both) = f[x] + TotalOver(f, both \ {x})
      BY <1>1, <2>8
    <2>13. f[x] \in Int /\ TotalOver(f, A) \in Int /\ TotalOver(f, rest) \in Int
      BY <1>1, <1>2, <2>4, <2>6, <2>7 DEF rest
    <2>14. QED
      BY <2>11, <2>12, <2>13, <2>10
  <1>4. B \in SUBSET B
    OBVIOUS
  <1>5. QED
    BY <1>3, <1>4

\* What has the value zero adds nothing.
LEMMA TotalOfTheRest ==
  ASSUME NEW D, NEW f, IsValued(D, f), NEW W \in SUBSET D, \A x \in D \ W : f[x] = 0
  PROVE  TotalOver(f, D) = TotalOver(f, W)
  <1> DEFINE rest == D \ W
             zero == [x \in rest |-> 0]
  <1>0. IsFiniteSet(D)
    BY DEF IsValued
  <1>1. rest \in SUBSET D /\ W \cap rest = {} /\ W \cup rest = D
    OBVIOUS
  <1>2. IsFiniteSet(rest)
    BY <1>0, <1>1, FS_Subset
  <1>3. IsValued(rest, zero) /\ \A x \in rest : zero[x] = zero[x] - zero[x] /\ zero[x] = f[x]
    BY <1>2 DEF IsValued
  <1> HIDE DEF rest, zero
  <1>4. TotalOver(zero, rest) = TotalOver(zero, rest) - TotalOver(zero, rest)
    BY <1>3, TotalOfDifferences
  <1>5. rest \in SUBSET rest
    OBVIOUS
  <1>6. TotalOver(zero, rest) \in Int
    BY <1>3, <1>5, TotalAddsUp
  <1>7. TotalOver(zero, rest) = TotalOver(f, rest)
    BY <1>3, SameTotal
  <1>8. TotalOver(f, D) = TotalOver(f, W) + TotalOver(f, rest)
    BY <1>1, TotalOfParts
  <1>9. TotalOver(f, W) \in Int
    BY TotalAddsUp
  <1>10. QED
    BY <1>4, <1>6, <1>7, <1>8, <1>9

-----------------------------------------------------------------------------
(* A sum of what an operator makes of the members of a set.                *)

PickOf(S) == CHOOSE x \in S : TRUE

\* it[S] is what a sum over S comes to when its members are taken out in the
\* order CHOOSE takes them.
Iterates(it, T, v) ==
  \A S \in SUBSET T : it[S] = IF S = {} THEN 0 ELSE v[PickOf(S)] + it[S \ {PickOf(S)}]

\* The totals of the parts of a set come about that way.
LEMMA TotalsIterate ==
  ASSUME NEW T, NEW v, IsValued(T, v)
  PROVE  Iterates([S \in SUBSET T |-> TotalOver(v, S)], T, v)
  <1> DEFINE it == [S \in SUBSET T |-> TotalOver(v, S)]
  <1>1. ASSUME NEW S \in SUBSET T
        PROVE  it[S] = IF S = {} THEN 0 ELSE v[PickOf(S)] + it[S \ {PickOf(S)}]
    <2>1. CASE S = {}
      BY <2>1, TotalAddsUp
    <2>2. CASE S # {}
      <3>1. PickOf(S) \in S
        BY <2>2 DEF PickOf
      <3>2. S \ {PickOf(S)} \in SUBSET T
        OBVIOUS
      <3>3. TotalOver(v, S) = v[PickOf(S)] + TotalOver(v, S \ {PickOf(S)})
        BY <3>1, TotalAddsUp
      <3>4. QED
        BY <2>2, <3>2, <3>3
    <2>3. QED
      BY <2>1, <2>2
  <1>2. QED
    BY <1>1 DEF Iterates

\* And whatever comes about that way is the total.
LEMMA IteratesAgree ==
  ASSUME NEW T, NEW v, IsValued(T, v), NEW it, Iterates(it, T, v)
  PROVE  it[T] = TotalOver(v, T)
  <1> DEFINE F == {S \in SUBSET T : it[S] # TotalOver(v, S)}
  <1>1. F = {}
    <2>1. SUFFICES ASSUME F # {} PROVE FALSE
      OBVIOUS
    <2>2. AreWithin(F, T) /\ IsFiniteSet(T)
      BY DEF AreWithin, IsValued
    <2> HIDE DEF F
    <2>3. PICK S : IsSmallest(S, F)
      BY <2>1, <2>2, SmallestSet
    <2> USE DEF F
    <2>4. S \in SUBSET T /\ it[S] # TotalOver(v, S)
      BY <2>3 DEF IsSmallest
    <2>5. it[S] = IF S = {} THEN 0 ELSE v[PickOf(S)] + it[S \ {PickOf(S)}]
      BY <2>4 DEF Iterates
    <2>6. S # {}
      <3>1. TotalOver(v, {}) = 0
        BY TotalAddsUp
      <3> HIDE DEF F
      <3>2. QED
        BY <2>4, <2>5, <3>1
    <2>7. PickOf(S) \in S
      BY <2>6 DEF PickOf
    <2>8. S \ {PickOf(S)} \in SUBSET T /\ S \ {PickOf(S)} \notin F
      BY <2>3, <2>4, <2>7 DEF IsSmallest
    <2>9. TotalOver(v, S) = v[PickOf(S)] + TotalOver(v, S \ {PickOf(S)})
      BY <2>4, <2>7, TotalAddsUp
    <2>10. QED
      BY <2>4, <2>5, <2>6, <2>8, <2>9
  <1>2. T \in SUBSET T
    OBVIOUS
  <1>3. QED
    BY <1>1, <1>2

\* A list's values add up one after the other.
LEMMA TotalGrows ==
  ASSUME NEW n \in Nat, NEW v, \A i \in 1..n : v[i] \in Int
  PROVE  /\ TotalOver(v, 1..0) = 0
         /\ \A k \in 1..n : /\ TotalOver(v, 1..k) \in Int /\ TotalOver(v, 1..k - 1) \in Int
                            /\ TotalOver(v, 1..k) = TotalOver(v, 1..k - 1) + v[k]
  <1> DEFINE D == 1..n
  <1>1. IsValued(D, v)
    BY FS_Interval DEF IsValued
  <1>2. 1..0 = {}
    OBVIOUS
  <1>3. \A k \in 1..n : /\ 1..k \in SUBSET D /\ 1..k - 1 \in SUBSET D
                        /\ k \in 1..k /\ (1..k) \ {k} = 1..k - 1
    OBVIOUS
  <1> HIDE DEF D
  <1>4. TotalOver(v, {}) = 0
    BY <1>1, TotalAddsUp
  <1>5. ASSUME NEW k \in 1..n
        PROVE  /\ TotalOver(v, 1..k) \in Int /\ TotalOver(v, 1..k - 1) \in Int
               /\ TotalOver(v, 1..k) = TotalOver(v, 1..k - 1) + v[k]
    <2> DEFINE upto == 1..k
               below == 1..k - 1
    <2>1. upto \in SUBSET D /\ below \in SUBSET D /\ k \in upto /\ upto \ {k} = below
      BY <1>3
    <2> HIDE DEF upto, below
    <2>2. TotalOver(v, upto) \in Int /\ TotalOver(v, below) \in Int
      BY <1>1, <2>1, TotalAddsUp
    <2>3. TotalOver(v, upto) = v[k] + TotalOver(v, below)
      <3>1. \A T \in SUBSET D : \A x \in T : TotalOver(v, T) = v[x] + TotalOver(v, T \ {x})
        <4> SUFFICES ASSUME NEW T \in SUBSET D, NEW x \in T
                     PROVE  TotalOver(v, T) = v[x] + TotalOver(v, T \ {x})
          OBVIOUS
        <4>1. QED
          BY <1>1, TotalAddsUp
      <3>2. TotalOver(v, upto) = v[k] + TotalOver(v, upto \ {k})
        BY <2>1, <3>1, Zenon
      <3>3. QED
        BY <2>1, <3>2, Zenon
    <2>4. v[k] \in Int
      OBVIOUS
    <2>5. TotalOver(v, upto) = TotalOver(v, below) + v[k]
      <3> DEFINE whole == TotalOver(v, upto)
                 rest == TotalOver(v, below)
                 more == v[k]
      <3>1. whole \in Int /\ rest \in Int /\ more \in Int /\ whole = more + rest
        BY <2>2, <2>3, <2>4
      <3> HIDE DEF whole, rest, more
      <3>2. whole = rest + more
        BY <3>1
      <3>3. QED
        BY <3>2 DEF whole, rest, more
    <2>6. QED
      BY <2>2, <2>5 DEF upto, below
  <1>6. QED
    BY <1>2, <1>4, <1>5

-----------------------------------------------------------------------------
(* Lists built one step at a time.                                         *)

\* A list of what each of n steps came to, the step after x at k being step[<<k, x>>].
Follows(f, n, first, step) ==
  f[0] = first /\ \A k \in 1..n : f[k] = step[<<k, f[k - 1]>>]

\* Any number of steps can be taken.
LEMMA StepsExist ==
  ASSUME NEW X, NEW first \in X, NEW n \in Nat, NEW step \in [(1..n) \X X -> X]
  PROVE  \E f \in [0..n -> X] : Follows(f, n, first, step)
  <1> DEFINE stuck == {m \in 0..n : ~\E f \in [0..m -> X] : Follows(f, m, first, step)}
  <1>1. stuck = {}
    <2>1. SUFFICES ASSUME stuck # {} PROVE FALSE
      OBVIOUS
    <2>2. stuck \in SUBSET Nat
      OBVIOUS
    <2>3. PICK m \in stuck : \A y \in stuck : m <= y
      BY <2>1, <2>2, LeastNatural
    <2>4. m \in 0..n /\ ~\E f \in [0..m -> X] : Follows(f, m, first, step)
      BY <2>3
    <2>5. CASE m = 0
      <3> DEFINE f == [k \in 0..0 |-> first]
      <3>1. f \in [0..m -> X] /\ Follows(f, m, first, step)
        BY <2>5 DEF Follows
      <3>2. QED
        BY <2>4, <3>1
    <2>6. CASE m # 0
      <3>1. m - 1 \in 0..n /\ ~(m <= m - 1) /\ m \in 1..n
        BY <2>4, <2>6
      <3>2. m - 1 \notin stuck
        BY <2>3, <3>1
      <3>3. PICK f \in [0..m - 1 -> X] : Follows(f, m - 1, first, step)
        BY <3>1, <3>2
      <3> DEFINE g == [k \in 0..m |-> IF k = m THEN step[<<m, f[m - 1]>>] ELSE f[k]]
      <3>4. f[m - 1] \in X
        BY <3>1, <3>3
      <3>5. step[<<m, f[m - 1]>>] \in X
        BY <3>1, <3>4
      <3>6. \A k \in 0..m : k # m => k \in 0..m - 1 /\ f[k] \in X
        BY <3>1, <3>3
      <3>7. g \in [0..m -> X]
        BY <3>5, <3>6
      <3>8. g[0] = first
        BY <3>1, <3>3 DEF Follows
      <3>9. ASSUME NEW k \in 1..m PROVE g[k] = step[<<k, g[k - 1]>>]
        <4>1. k - 1 \in 0..m /\ k - 1 # m /\ k \in 0..m
          BY <3>1
        <4>2. g[k - 1] = f[k - 1]
          BY <4>1
        <4>3. CASE k = m
          BY <4>1, <4>2, <4>3
        <4>4. CASE k # m
          <5>1. k \in 1..m - 1
            BY <3>1, <4>4
          <5>2. f[k] = step[<<k, f[k - 1]>>]
            BY <3>3, <5>1 DEF Follows
          <5>3. g[k] = f[k]
            BY <4>1, <4>4
          <5> HIDE DEF g
          <5>4. QED
            BY <4>2, <5>2, <5>3
        <4>5. QED
          BY <4>3, <4>4
      <3> HIDE DEF g
      <3>10. Follows(g, m, first, step)
        BY <3>8, <3>9 DEF Follows
      <3>11. QED
        BY <2>4, <3>7, <3>10
    <2>7. QED
      BY <2>5, <2>6
  <1>2. n \in 0..n
    OBVIOUS
  <1>3. QED
    BY <1>1, <1>2

\* What holds of the first number, and of each next one that it holds of the
\* number before, holds of them all.
LEMMA HoldsUpTo ==
  ASSUME NEW n \in Nat, NEW T \in SUBSET (0..n), 0 \in T, \A k \in 1..n : k - 1 \in T => k \in T
  PROVE  T = 0..n
  <1> DEFINE not == (0..n) \ T
  <1>1. not = {}
    <2>1. SUFFICES ASSUME not # {} PROVE FALSE
      OBVIOUS
    <2>2. not \in SUBSET Nat
      OBVIOUS
    <2>3. PICK m \in not : \A y \in not : m <= y
      BY <2>1, <2>2, LeastNatural
    <2>4. m \in 1..n /\ m - 1 \in 0..n /\ ~(m <= m - 1)
      BY <2>3
    <2>5. m - 1 \in T
      BY <2>3, <2>4
    <2>6. QED
      BY <2>3, <2>4, <2>5
  <1>2. QED
    BY <1>1
=============================================================================
