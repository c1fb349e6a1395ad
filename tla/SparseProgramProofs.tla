-------------------------- MODULE SparseProgramProofs --------------------------
(***************************************************************************)
(* For all networks and all answers of SCIP: rows and prices agree, what   *)
(* the rows admit is one tour, no fixing excludes a better one, and no     *)
(* member of a family of cuts, whatever fractional solution it was found   *)
(* for, removes a tour, but for cycles that leave no vertex to turn off to.*)
(***************************************************************************)
EXTENDS SparseProgram, FiniteSetTheorems, SequenceTheorems, WellFoundedInduction, TLAPS

(* Recursion.  Induction is by sets of numbers, with the least one that is not in it.  *)

LEMMA Induction ==
  ASSUME NEW S \in SUBSET Nat, 0 \in S, \A n \in S : n + 1 \in S
  PROVE  S = Nat
<1> DEFINE T == Nat \ S
<1> SUFFICES ASSUME T # {} PROVE FALSE
  OBVIOUS
<1>1. PICK n \in T : \A m \in T : ~ (<<m, n>> \in OpToRel(<, Nat))
  <2>1. T \subseteq Nat  OBVIOUS
  <2> HIDE DEF T
  <2> QED BY <2>1, NatLessThanWellFounded, WFMin
<1>2. \A m \in T : ~ (m < n)
  BY <1>1 DEF OpToRel
<1>3. n # 0 /\ n - 1 \in Nat /\ n - 1 < n  OBVIOUS
<1>4. n - 1 \in S  BY <1>2, <1>3
<1>5. (n - 1) + 1 = n  OBVIOUS
<1> QED BY <1>4, <1>5

\* A set of numbers has a least one, ...
LEMMA LeastExists ==
  ASSUME NEW T \in SUBSET Nat, T # {}
  PROVE  /\ \E n \in T : \A m \in T : n <= m
         /\ Min(T) \in T /\ \A m \in T : Min(T) <= m
<1>1. PICK n \in T : \A m \in T : ~ (<<m, n>> \in OpToRel(<, Nat))
  BY NatLessThanWellFounded, WFMin
<1>2. \A m \in T : ~ (m < n)
  BY <1>1 DEF OpToRel
<1>3. \A m \in T : n <= m
  BY <1>2
<1> QED BY <1>3 DEF Min

\* ... and a greatest one if there is a bound.
LEMMA GreatestExists ==
  ASSUME NEW T \in SUBSET Nat, T # {}, NEW b \in Nat, \A n \in T : n <= b
  PROVE  \E n \in T : \A m \in T : m <= n
<1> DEFINE D == {b - n : n \in T}
<1>1. D \in SUBSET Nat /\ D # {}
  <2>1. \A n \in T : b - n \in Nat  OBVIOUS
  <2> QED BY <2>1
<1>2. PICK d \in D : \A x \in D : d <= x
  <2> HIDE DEF D
  <2> QED BY <1>1, LeastExists
<1>3. PICK n \in T : d = b - n  BY <1>2
<1>4. \A m \in T : b - n <= b - m  BY <1>2, <1>3
<1> QED BY <1>3, <1>4

\* A function that is defined by iteration.
IsIteration(g, F, base, N, V) ==
  /\ g \in [0 .. N -> V]
  /\ \A n \in 0 .. N : g[n] = IF n = 0 THEN base ELSE F[g[n - 1]]

LEMMA IterationExists ==
  ASSUME NEW V, NEW base \in V, NEW F \in [V -> V], NEW N \in Nat
  PROVE  \E g : IsIteration(g, F, base, N, V)
<1> DEFINE Exists(k) == \E g \in [0 .. k -> V] : \A n \in 0 .. k : g[n] = IF n = 0 THEN base ELSE F[g[n - 1]]
           S == {k \in Nat : Exists(k)}
<1>1. 0 \in S
  <2> DEFINE g == [n \in 0 .. 0 |-> base]
  <2>1. g \in [0 .. 0 -> V] /\ \A n \in 0 .. 0 : n = 0 /\ g[n] = base  OBVIOUS
  <2>2. Exists(0)
    <3> HIDE DEF g
    <3> QED BY <2>1
  <2> QED BY <2>2
<1>2. \A k \in S : k + 1 \in S
  <2> TAKE k \in S
  <2>1. PICK g \in [0 .. k -> V] : \A n \in 0 .. k : g[n] = IF n = 0 THEN base ELSE F[g[n - 1]]
    OBVIOUS
  <2> DEFINE h == [n \in 0 .. k + 1 |-> IF n = k + 1 THEN F[g[k]] ELSE g[n]]
  <2>2. k \in Nat  OBVIOUS
  <2>3. h \in [0 .. k + 1 -> V]  BY <2>2
  <2>4. \A n \in 0 .. k + 1 : h[n] = IF n = 0 THEN base ELSE F[h[n - 1]]
    <3> TAKE n \in 0 .. k + 1
    <3>1. CASE n = k + 1
      <4>1. n # 0 /\ n - 1 = k /\ k \in 0 .. k + 1 /\ k # k + 1  BY <2>2, <3>1
      <4> QED BY <3>1, <4>1
    <3>2. CASE n # k + 1
      <4>1. n \in 0 .. k /\ h[n] = g[n]  BY <2>2, <3>2
      <4>2. n # 0 => n - 1 \in 0 .. k + 1 /\ n - 1 # k + 1 /\ h[n - 1] = g[n - 1]  BY <2>2, <4>1
      <4> QED BY <2>1, <4>1, <4>2
    <3> QED BY <3>1, <3>2
  <2>5. Exists(k + 1)
    <3> HIDE DEF h
    <3> QED BY <2>3, <2>4
  <2> QED BY <2>2, <2>5
<1>3. S = Nat
  <2>1. S \in SUBSET Nat  OBVIOUS
  <2> HIDE DEF S
  <2> QED BY <1>1, <1>2, <2>1, Induction
<1>4. Exists(N)  BY <1>3
<1> QED BY <1>4 DEF IsIteration

\* A set of subsets of a finite set has one with none of the others below it.
LEMMA LeastSubsetExists ==
  ASSUME NEW S, IsFiniteSet(S), NEW T \in SUBSET SUBSET S, T # {}
  PROVE  \E s \in T : s \in SUBSET S /\ \A t \in SUBSET s : t # s => t \notin T
<1>1. IsWellFoundedOn(StrictSubsetOrdering(S), SUBSET S)
  BY FS_StrictSubsetOrderingWellFounded, FS_FiniteSubsetsOfFinite
<1>2. PICK s \in T : \A t \in T : ~ (<<t, s>> \in StrictSubsetOrdering(S))
  BY <1>1, WFMin
<1>3. \A t \in SUBSET s : t # s => t \notin T
  BY <1>2 DEF StrictSubsetOrdering
<1> QED BY <1>3

First(s) == CHOOSE x \in s : TRUE

\* A function that is defined by taking the elements of a set one by one.
IsFold(g, F, base, S, V) ==
  /\ g \in [SUBSET S -> V]
  /\ \A s \in SUBSET S : g[s] = IF s = {} THEN base ELSE F[First(s)][g[s \ {First(s)}]]

LEMMA FoldExists ==
  ASSUME NEW S, IsFiniteSet(S), NEW V, NEW base \in V, NEW F \in [S -> [V -> V]]
  PROVE  \E g : IsFold(g, F, base, S, V)
<1> DEFINE Small(n) == {s \in SUBSET S : Cardinality(s) <= n}
           Folds(g, n) == \A s \in Small(n) : g[s] = IF s = {} THEN base ELSE F[First(s)][g[s \ {First(s)}]]
           T == {n \in Nat : \E g \in [Small(n) -> V] : Folds(g, n)}
<1>1. \A s \in SUBSET S : s # {} =>
        /\ First(s) \in s /\ First(s) \in S /\ s \ {First(s)} \in SUBSET S
        /\ Cardinality(s) \in Nat /\ Cardinality(s) # 0
        /\ Cardinality(s \ {First(s)}) = Cardinality(s) - 1
  <2> TAKE s \in SUBSET S
  <2> HAVE s # {}
  <2>1. IsFiniteSet(s)  BY FS_Subset
  <2>2. First(s) \in s  BY DEF First
  <2> QED BY <2>1, <2>2, FS_RemoveElement, FS_CardinalityType, FS_EmptySet
<1>2. {} \in SUBSET S /\ Cardinality({}) = 0  BY FS_EmptySet
<1>3. 0 \in T
  <2> DEFINE g == [s \in Small(0) |-> base]
  <2>1. \A s \in Small(0) : s = {}
    <3> SUFFICES ASSUME NEW s \in SUBSET S, Cardinality(s) <= 0, s # {} PROVE FALSE
      OBVIOUS
    <3>1. Cardinality(s) \in Nat /\ Cardinality(s) # 0  BY <1>1
    <3> QED BY <3>1
  <2>2. g \in [Small(0) -> V] /\ Folds(g, 0)  BY <2>1
  <2> HIDE DEF g
  <2> QED BY <2>2
<1>4. \A n \in T : n + 1 \in T
  <2> TAKE n \in T
  <2>1. PICK g \in [Small(n) -> V] : Folds(g, n)  OBVIOUS
  <2>2. n \in Nat  OBVIOUS
  <2> DEFINE h == [s \in Small(n + 1) |-> IF s \in Small(n) THEN g[s] ELSE F[First(s)][g[s \ {First(s)}]]]
  <2>3. \A s \in Small(n + 1) : s # {} => s \ {First(s)} \in Small(n) /\ s \ {First(s)} \in Small(n + 1)
    BY <1>1, <2>2
  <2>4. {} \in Small(n)  BY <1>2, <2>2
  <2>5. h \in [Small(n + 1) -> V]
    <3> SUFFICES ASSUME NEW s \in Small(n + 1), s \notin Small(n)
                 PROVE  F[First(s)][g[s \ {First(s)}]] \in V
      BY <2>1
    <3>1. s # {}  BY <2>4
    <3>2. First(s) \in S /\ g[s \ {First(s)}] \in V  BY <1>1, <2>1, <2>3, <3>1
    <3>3. F[First(s)] \in [V -> V]  BY <3>2
    <3> QED BY <3>2, <3>3
  <2>6. Folds(h, n + 1)
    <3> SUFFICES ASSUME NEW s \in Small(n + 1)
                 PROVE  h[s] = IF s = {} THEN base ELSE F[First(s)][h[s \ {First(s)}]]
      OBVIOUS
    <3>1. s # {} => h[s \ {First(s)}] = g[s \ {First(s)}]  BY <2>3
    <3>2. CASE s \in Small(n)
      <4>1. h[s] = g[s]  BY <3>2
      <4>2. g[s] = IF s = {} THEN base ELSE F[First(s)][g[s \ {First(s)}]]  BY <2>1, <3>2
      <4> QED BY <3>1, <4>1, <4>2
    <3>3. CASE s \notin Small(n)
      <4>1. h[s] = F[First(s)][g[s \ {First(s)}]] /\ s # {}  BY <2>4, <3>3
      <4> QED BY <3>1, <4>1
    <3> QED BY <3>2, <3>3
  <2> HIDE DEF h, Folds, Small
  <2> QED BY <2>2, <2>5, <2>6
<1>5. T = Nat
  <2>1. T \in SUBSET Nat  OBVIOUS
  <2> HIDE DEF T
  <2> QED BY <1>3, <1>4, <2>1, Induction
<1>6. Cardinality(S) \in Nat  BY FS_CardinalityType
<1>7. Small(Cardinality(S)) = SUBSET S
  <2>1. \A s \in SUBSET S : Cardinality(s) <= Cardinality(S)  BY FS_Subset
  <2> QED BY <2>1
<1>8. PICK g \in [Small(Cardinality(S)) -> V] : Folds(g, Cardinality(S))
  BY <1>5, <1>6
<1>9. g \in [SUBSET S -> V] /\ \A s \in SUBSET S : g[s] = IF s = {} THEN base ELSE F[First(s)][g[s \ {First(s)}]]
  BY <1>7, <1>8
<1> QED BY <1>9 DEF IsFold

-----------------------------------------------------------------------------
(* Sums.                                                                   *)

\* g has the sums of f over the subsets of S.
HasSums(g, f, S) ==
  /\ g \in [SUBSET S -> Int]
  /\ \A s \in SUBSET S :
       g[s] = IF s = {} THEN 0 ELSE f[First(s)] + g[s \ {First(s)}]

LEMMA SumExists ==
  ASSUME NEW S, IsFiniteSet(S), NEW f \in [S -> Int]
  PROVE  \E g : HasSums(g, f, S)
<1> DEFINE F == [x \in S |-> [a \in Int |-> f[x] + a]]
<1>1. F \in [S -> [Int -> Int]] /\ 0 \in Int  OBVIOUS
<1>2. PICK g : IsFold(g, F, 0, S, Int)
  <2> HIDE DEF F
  <2> QED BY <1>1, FoldExists
<1>3. g \in [SUBSET S -> Int]  BY <1>2 DEF IsFold
<1>4. \A s \in SUBSET S : g[s] = IF s = {} THEN 0 ELSE f[First(s)] + g[s \ {First(s)}]
  <2> TAKE s \in SUBSET S
  <2>1. s # {} => First(s) \in S /\ s \ {First(s)} \in SUBSET S  BY DEF First
  <2>2. g[s] = IF s = {} THEN 0 ELSE F[First(s)][g[s \ {First(s)}]]
    <3> HIDE DEF F
    <3> QED BY <1>2 DEF IsFold
  <2>3. s # {} => F[First(s)][g[s \ {First(s)}]] = f[First(s)] + g[s \ {First(s)}]
    BY <1>3, <2>1
  <2> HIDE DEF F
  <2> QED BY <2>2, <2>3
<1> QED BY <1>3, <1>4 DEF HasSums

\* The elements can be taken in any order.
InAnyOrder(g, f, S) == \A s \in SUBSET S : \A y \in s : g[s] = f[y] + g[s \ {y}]

LEMMA SumInAnyOrder ==
  ASSUME NEW S, IsFiniteSet(S), NEW f \in [S -> Int], NEW g, HasSums(g, f, S)
  PROVE  InAnyOrder(g, f, S)
<1> DEFINE Every(s) == \A y \in s : g[s] = f[y] + g[s \ {y}]
           T == {s \in SUBSET S : ~ Every(s)}
<1>1. g \in [SUBSET S -> Int] /\ \A s \in SUBSET S : s # {} => g[s] = f[First(s)] + g[s \ {First(s)}]
  BY DEF HasSums
<1> SUFFICES ASSUME T # {} PROVE FALSE
  BY DEF InAnyOrder
<1>2. PICK s \in T : \A t \in SUBSET s : t # s => t \notin T
  <2>1. T \in SUBSET SUBSET S  OBVIOUS
  <2> HIDE DEF T
  <2> QED BY <2>1, LeastSubsetExists
<1>3. \A t \in SUBSET s : t # s => Every(t)
  <2> TAKE t \in SUBSET s
  <2> HAVE t # s
  <2>1. t \in SUBSET S  OBVIOUS
  <2> HIDE DEF Every
  <2> QED BY <1>2, <2>1
<1>4. PICK y \in s : ~ (g[s] = f[y] + g[s \ {y}])  OBVIOUS
<1> DEFINE x == First(s)
<1>5. x \in s /\ g[s] = f[x] + g[s \ {x}]  BY <1>1, <1>4 DEF First
<1> HIDE DEF x, T, Every
<1>6. x # y  BY <1>4, <1>5
<1>7. g[s \ {x}] = f[y] + g[(s \ {x}) \ {y}]
  <2>1. s \ {x} \in SUBSET s /\ s \ {x} # s /\ y \in s \ {x}  BY <1>4, <1>5, <1>6
  <2> QED BY <1>3, <2>1 DEF Every
<1>8. g[s \ {y}] = f[x] + g[(s \ {y}) \ {x}]
  <2>1. s \ {y} \in SUBSET s /\ s \ {y} # s /\ x \in s \ {y}  BY <1>4, <1>5, <1>6
  <2> QED BY <1>3, <2>1 DEF Every
<1>9. (s \ {x}) \ {y} = (s \ {y}) \ {x}  OBVIOUS
<1> DEFINE k == g[(s \ {x}) \ {y}]
<1>10. f[x] \in Int /\ f[y] \in Int /\ k \in Int
  <2>1. s \in SUBSET S  BY DEF T
  <2> QED BY <1>1, <1>5, <2>1
<1>11. g[s] = f[x] + (f[y] + k) /\ g[s \ {y}] = f[x] + k  BY <1>5, <1>7, <1>8, <1>9
<1> HIDE DEF k
<1> QED BY <1>4, <1>10, <1>11

\* A sum of what is not positive is no more than any of it.
LEMMA SumIsAtMost ==
  ASSUME NEW S, IsFiniteSet(S), NEW f \in [S -> Int], NEW g, HasSums(g, f, S), \A x \in S : f[x] <= 0
  PROVE  (\A s \in SUBSET S : g[s] <= 0) /\ (\A s \in SUBSET S : \A x \in s : g[s] <= f[x])
<1> DEFINE T == {s \in SUBSET S : ~ (g[s] <= 0)}
<1>1. g \in [SUBSET S -> Int] /\ g[{}] = 0  BY DEF HasSums
<1>2. InAnyOrder(g, f, S)  BY SumInAnyOrder
<1>3. T = {}
  <2> SUFFICES ASSUME T # {} PROVE FALSE
    OBVIOUS
  <2>1. PICK s \in T : \A t \in SUBSET s : t # s => t \notin T
    <3>1. T \in SUBSET SUBSET S  OBVIOUS
    <3> HIDE DEF T
    <3> QED BY <3>1, LeastSubsetExists
  <2>2. PICK y \in s : TRUE  BY <1>1
  <2>3. s \ {y} \in SUBSET S /\ s \ {y} \subseteq s /\ s \ {y} # s  OBVIOUS
  <2>4. g[s \ {y}] <= 0  BY <2>1, <2>3
  <2>5. g[s] = f[y] + g[s \ {y}] /\ f[y] <= 0 /\ f[y] \in Int /\ g[s \ {y}] \in Int /\ g[s] \in Int
    BY <1>1, <1>2, <2>2, <2>3 DEF InAnyOrder
  <2>6. g[s] <= 0  BY <2>4, <2>5
  <2> QED BY <2>6
<1>4. \A s \in SUBSET S : g[s] <= 0  BY <1>3
<1>5. \A s \in SUBSET S : \A x \in s : g[s] <= f[x]
  <2> TAKE s \in SUBSET S
  <2> TAKE x \in s
  <2>1. g[s] = f[x] + g[s \ {x}] /\ g[s \ {x}] <= 0 /\ g[s \ {x}] \in Int /\ f[x] \in Int
    BY <1>1, <1>2, <1>4 DEF InAnyOrder
  <2> QED BY <2>1
<1> QED BY <1>4, <1>5

\* A sum of what is not negative is no less than any of it.
LEMMA SumIsAtLeast ==
  ASSUME NEW S, IsFiniteSet(S), NEW f \in [S -> Int], NEW g, HasSums(g, f, S), \A x \in S : 0 <= f[x]
  PROVE  (\A s \in SUBSET S : 0 <= g[s]) /\ (\A s \in SUBSET S : \A x \in s : f[x] <= g[s])
<1> DEFINE h == [x \in S |-> 0 - f[x]]
           k == [s \in SUBSET S |-> 0 - g[s]]
<1>1. g \in [SUBSET S -> Int]  BY DEF HasSums
<1>2. h \in [S -> Int] /\ (\A x \in S : h[x] <= 0 /\ h[x] = 0 - f[x]) /\ k \in [SUBSET S -> Int]
  BY <1>1
<1>3. HasSums(k, h, S)
  <2> SUFFICES ASSUME NEW s \in SUBSET S
               PROVE  k[s] = IF s = {} THEN 0 ELSE h[First(s)] + k[s \ {First(s)}]
    BY <1>2 DEF HasSums
  <2>1. CASE s = {}
    <3>1. g[s] = 0  BY <2>1 DEF HasSums
    <3> QED BY <2>1, <3>1
  <2>2. CASE s # {}
    <3> DEFINE x == First(s)
    <3>1. g[s] = f[x] + g[s \ {x}]  BY <2>2 DEF HasSums
    <3>2. x \in S  BY <2>2 DEF First
    <3> HIDE DEF x
    <3>3. s \ {x} \in SUBSET S  OBVIOUS
    <3>4. f[x] \in Int /\ g[s \ {x}] \in Int  BY <1>1, <3>2, <3>3
    <3>5. k[s] = h[x] + k[s \ {x}]  BY <3>1, <3>2, <3>3, <3>4
    <3> QED BY <2>2, <3>5 DEF x
  <2> QED BY <2>1, <2>2
<1>4. (\A s \in SUBSET S : k[s] <= 0) /\ (\A s \in SUBSET S : \A x \in s : k[s] <= h[x])
  <2> HIDE DEF h, k
  <2> QED BY <1>2, <1>3, SumIsAtMost
<1>5. \A s \in SUBSET S : g[s] \in Int /\ k[s] = 0 - g[s]  BY <1>1
<1>6. \A s \in SUBSET S : \A x \in s : f[x] \in Int /\ h[x] = 0 - f[x]  OBVIOUS
<1> HIDE DEF h, k
<1>7. \A s \in SUBSET S : 0 <= g[s]
  BY <1>4, <1>5
<1>8. \A s \in SUBSET S : \A x \in s : f[x] <= g[s]
  <2> TAKE s \in SUBSET S
  <2> TAKE x \in s
  <2>1. k[s] <= h[x] /\ k[s] = 0 - g[s] /\ h[x] = 0 - f[x] /\ g[s] \in Int /\ f[x] \in Int
    BY <1>4, <1>5, <1>6
  <2> QED BY <2>1
<1> QED BY <1>7, <1>8

\* Whatever is defined as a sum is one.
Sums(g, f, S) ==
  g = [s \in SUBSET S |-> IF s = {} THEN 0 ELSE f[First(s)] + g[s \ {First(s)}]]

LEMMA FoldIsSum ==
  ASSUME NEW S, IsFiniteSet(S), NEW f \in [S -> Int], NEW g, Sums(g, f, S)
  PROVE  HasSums(g, f, S)
<1> DEFINE T == {s \in SUBSET S : g[s] \notin Int}
<1>1. \A s \in SUBSET S : g[s] = IF s = {} THEN 0 ELSE f[First(s)] + g[s \ {First(s)}]
  BY DEF Sums
<1>2. T = {}
  <2> SUFFICES ASSUME T # {} PROVE FALSE
    OBVIOUS
  <2>1. PICK s \in T : \A t \in SUBSET s : t # s => t \notin T
    <3>1. T \in SUBSET SUBSET S  OBVIOUS
    <3> HIDE DEF T
    <3> QED BY <3>1, LeastSubsetExists
  <2>2. s # {} /\ g[s] = f[First(s)] + g[s \ {First(s)}]
    <3>1. s \in SUBSET S /\ g[s] \notin Int  OBVIOUS
    <3> HIDE DEF T
    <3>2. g[s] = IF s = {} THEN 0 ELSE f[First(s)] + g[s \ {First(s)}]  BY <1>1, <3>1
    <3> QED BY <3>1, <3>2
  <2>3. First(s) \in s /\ First(s) \in S  BY <2>2 DEF First
  <2>4. s \ {First(s)} \in SUBSET S /\ s \ {First(s)} \subseteq s /\ s \ {First(s)} # s  BY <2>3
  <2>5. g[s \ {First(s)}] \in Int  BY <2>1, <2>4
  <2>6. f[First(s)] \in Int  BY <2>3
  <2>7. g[s] \in Int  BY <2>2, <2>5, <2>6
  <2> QED BY <2>7
<1>3. g \in [SUBSET S -> Int]
  <2>1. \A s \in SUBSET S : g[s] \in Int  BY <1>2
  <2>2. DOMAIN g = SUBSET S /\ g = [s \in DOMAIN g |-> g[s]]  BY DEF Sums
  <2> HIDE DEF T
  <2> QED BY <2>1, <2>2
<1> QED BY <1>1, <1>3 DEF HasSums

LEMMA SumsAre ==
  ASSUME NEW S, IsFiniteSet(S), NEW f \in [S -> Int]
  PROVE  HasSums(CHOOSE g : Sums(g, f, S), f, S)
<1>1. PICK g : HasSums(g, f, S)  BY SumExists
<1>2. Sums(g, f, S)
  BY <1>1 DEF HasSums, Sums
<1>3. Sums(CHOOSE h : Sums(h, f, S), f, S)  BY <1>2
<1> QED BY <1>3, FoldIsSum

\* The cost of a set of edges, and the left-hand side of a row, are sums.
LEMMA CostIsSum ==
  ASSUME NEW S, IsFiniteSet(S), \A e \in S : travelTime(e) \in Int
  PROVE  \E g : HasSums(g, [e \in S |-> travelTime(e)], S) /\ Cost(S) = g[S]
<1> DEFINE f == [e \in S |-> travelTime(e)]
           Times(g) == g = [s \in SUBSET S |-> IF s = {} THEN 0 ELSE travelTime(First(s)) + g[s \ {First(s)}]]
<1>1. f \in [S -> Int]  OBVIOUS
<1>2. Cost(S) = (CHOOSE g : Times(g))[S]
  BY DEF Cost, MapThenSumSet, MapThenFoldSet, First
<1>3. \A s \in SUBSET S : s # {} => First(s) \in S /\ f[First(s)] = travelTime(First(s))
  BY DEF First
<1>4. \A g : Times(g) <=> Sums(g, f, S)
  <2> TAKE g
  <2>1. [s \in SUBSET S |-> IF s = {} THEN 0 ELSE f[First(s)] + g[s \ {First(s)}]]
          = [s \in SUBSET S |-> IF s = {} THEN 0 ELSE travelTime(First(s)) + g[s \ {First(s)}]]
    <3> HIDE DEF f
    <3> QED BY <1>3
  <2> HIDE DEF f
  <2> QED BY <2>1 DEF Sums
<1> HIDE DEF f, Times
<1>5. (CHOOSE g : Times(g)) = (CHOOSE g : Sums(g, f, S))
  BY <1>4
<1>6. HasSums(CHOOSE g : Sums(g, f, S), f, S)
  BY <1>1, SumsAre
<1> QED BY <1>2, <1>5, <1>6 DEF f

LEMMA ActivityIsSum ==
  ASSUME NEW S, IsFiniteSet(S), NEW row, \A e \in S : rows[row][e] \in Int
  PROVE  \E g : HasSums(g, [e \in S |-> rows[row][e]], S) /\ Activity(row, S) = g[S]
<1> DEFINE f == [e \in S |-> rows[row][e]]
           Values(g) == g = [s \in SUBSET S |-> IF s = {} THEN 0 ELSE rows[row][First(s)] + g[s \ {First(s)}]]
<1>1. f \in [S -> Int]  OBVIOUS
<1>2. Activity(row, S) = (CHOOSE g : Values(g))[S]
  BY DEF Activity, MapThenSumSet, MapThenFoldSet, First
<1>3. \A s \in SUBSET S : s # {} => First(s) \in S /\ f[First(s)] = rows[row][First(s)]
  BY DEF First
<1>4. \A g : Values(g) <=> Sums(g, f, S)
  <2> TAKE g
  <2>1. [s \in SUBSET S |-> IF s = {} THEN 0 ELSE f[First(s)] + g[s \ {First(s)}]]
          = [s \in SUBSET S |-> IF s = {} THEN 0 ELSE rows[row][First(s)] + g[s \ {First(s)}]]
    <3> HIDE DEF f
    <3> QED BY <1>3
  <2> HIDE DEF f
  <2> QED BY <2>1 DEF Sums
<1> HIDE DEF f, Values
<1>5. (CHOOSE g : Values(g)) = (CHOOSE g : Sums(g, f, S))
  BY <1>4
<1>6. HasSums(CHOOSE g : Sums(g, f, S), f, S)
  BY <1>1, SumsAre
<1> QED BY <1>2, <1>5, <1>6 DEF f

\* A covering set has one variable out of every vertex, and no others.
Enlarged(sets, v) == {s \cup {e} : s \in sets, e \in {e \in variables : e.source.vertex = v}}

LEMMA CoveringIsExact ==
  ASSUME NEW set \in Covering
  PROVE  /\ set \subseteq variables
         /\ \A e \in set : e.source.vertex \in Vertices
         /\ \A v \in Vertices : \E e \in set : e.source.vertex = v
         /\ \A e, f \in set : e.source.vertex = f.source.vertex => e = f
<1> DEFINE V == SUBSET SUBSET variables
           F == [v \in Vertices |-> [sets \in V |-> Enlarged(sets, v)]]
           Extends(g) == g = [t \in SUBSET Vertices |->
                                IF t = {} THEN {{}} ELSE Enlarged(g[t \ {First(t)}], First(t))]
<1>1. IsFiniteSet(Vertices)  BY ExpandedAssumption
<1>2. Covering = (CHOOSE g : Extends(g))[Vertices]
  BY DEF Covering, FoldSet, MapThenFoldSet, First, Enlarged
<1>3. F \in [Vertices -> [V -> V]] /\ {{}} \in V
  <2>1. ASSUME NEW v \in Vertices, NEW sets \in V
        PROVE  Enlarged(sets, v) \in V
    <3>1. \A s \in sets, e \in {e \in variables : e.source.vertex = v} : s \cup {e} \subseteq variables
      BY <2>1
    <3> QED BY <3>1 DEF Enlarged
  <2> QED BY <2>1
<1>4. PICK g : IsFold(g, F, {{}}, Vertices, V)
  <2> HIDE DEF F, V
  <2> QED BY <1>1, <1>3, FoldExists
<1>5. Extends(g)
  <2>1. g \in [SUBSET Vertices -> V]  BY <1>4 DEF IsFold
  <2>2. \A t \in SUBSET Vertices : t # {} => First(t) \in Vertices /\ g[t \ {First(t)}] \in V
    BY <2>1 DEF First
  <2>3. \A t \in SUBSET Vertices : t # {} =>
          F[First(t)][g[t \ {First(t)}]] = Enlarged(g[t \ {First(t)}], First(t))
    BY <2>2
  <2>4. \A t \in SUBSET Vertices : g[t] = IF t = {} THEN {{}} ELSE F[First(t)][g[t \ {First(t)}]]
    <3> HIDE DEF F, V
    <3> QED BY <1>4 DEF IsFold
  <2> HIDE DEF F, V
  <2>5. DOMAIN g = SUBSET Vertices /\ g = [t \in DOMAIN g |-> g[t]]  BY <2>1
  <2>6. \A t \in SUBSET Vertices :
          g[t] = IF t = {} THEN {{}} ELSE Enlarged(g[t \ {First(t)}], First(t))
    BY <2>3, <2>4
  <2> QED BY <2>5, <2>6
<1>6. PICK h : Extends(h) /\ Covering = h[Vertices]
  <2>1. Extends(CHOOSE k : Extends(k))
    <3> HIDE DEF Extends
    <3> QED BY <1>5
  <2> HIDE DEF Extends
  <2> QED BY <1>2, <2>1
<1> DEFINE Exact(t) == \A s \in h[t] :
             /\ s \subseteq variables
             /\ \A e \in s : e.source.vertex \in t
             /\ \A v \in t : \E e \in s : e.source.vertex = v
             /\ \A e, f \in s : e.source.vertex = f.source.vertex => e = f
           T == {t \in SUBSET Vertices : ~ Exact(t)}
<1>7. T = {}
  <2> SUFFICES ASSUME T # {} PROVE FALSE
    OBVIOUS
  <2>1. PICK t \in T : \A u \in SUBSET t : u # t => u \notin T
    <3>1. T \in SUBSET SUBSET Vertices  OBVIOUS
    <3> HIDE DEF T
    <3> QED BY <1>1, <3>1, LeastSubsetExists
  <2>2. t \in SUBSET Vertices  OBVIOUS
  <2>3. CASE t = {}
    <3>1. h[t] = {{}}  BY <1>6, <2>2, <2>3
    <3>2. Exact(t)  BY <2>3, <3>1
    <3> QED BY <3>2
  <2>4. CASE t # {}
    <3> DEFINE x == First(t)
               u == t \ {x}
    <3>1. x \in t  BY <2>4 DEF First
    <3>2. h[t] = Enlarged(h[u], x)  BY <1>6, <2>2, <2>4
    <3>3. u \in SUBSET t /\ u # t /\ u \in SUBSET Vertices /\ t = u \cup {x} /\ x \notin u  BY <3>1
    <3> HIDE DEF x, u
    <3>4. Exact(u)
      <4> HIDE DEF Exact
      <4> QED BY <2>1, <3>3
    <3>5. Exact(t)
      <4> SUFFICES ASSUME NEW s \in h[t]
                   PROVE  /\ s \subseteq variables
                          /\ \A e \in s : e.source.vertex \in t
                          /\ \A v \in t : \E e \in s : e.source.vertex = v
                          /\ \A e, f \in s : e.source.vertex = f.source.vertex => e = f
        OBVIOUS
      <4>1. PICK r \in h[u] : \E d \in variables : d.source.vertex = x /\ s = r \cup {d}
        BY <3>2 DEF Enlarged
      <4>2. PICK d \in variables : d.source.vertex = x /\ s = r \cup {d}  BY <4>1
      <4>3. /\ r \subseteq variables
            /\ \A e \in r : e.source.vertex \in u
            /\ \A v \in u : \E e \in r : e.source.vertex = v
            /\ \A e, f \in r : e.source.vertex = f.source.vertex => e = f
        BY <3>4
      <4>4. d \in variables /\ d.source.vertex = x  BY <4>2
      <4> HIDE DEF Exact, T
      <4>5. s \subseteq variables /\ \A e \in s : e.source.vertex \in t
        BY <3>3, <4>2, <4>3, <4>4
      <4>6. \A v \in t : \E e \in s : e.source.vertex = v
        BY <3>3, <4>2, <4>3, <4>4
      <4>7. \A e, f \in s : e.source.vertex = f.source.vertex => e = f
        BY <3>3, <4>2, <4>3, <4>4
      <4> QED BY <4>5, <4>6, <4>7
    <3> HIDE DEF Exact
    <3> QED BY <3>5
  <2> QED BY <2>3, <2>4
<1>8. Exact(Vertices)
  <2> HIDE DEF Exact
  <2> QED BY <1>7
<1> QED BY <1>6, <1>8

-----------------------------------------------------------------------------
(* Walks.                                                                  *)

\* Edges that leave the start one after the other.
Chain(p) ==
  /\ p \in Seq(TimedEdges)
  /\ p # <<>> => p[1].source = Start
  /\ \A i \in 1 .. Len(p) - 1 : p[i].target = p[i + 1].source

Longer(paths) == UNION {{Append(p, e) : e \in {e \in TimedEdges : e.source = EndOf(p)}} : p \in paths}

Chains(n) == {p \in Seq(TimedEdges) : Len(p) = n /\ Chain(p)}

LEMMA EndOfChain ==
  ASSUME NEW p \in Seq(TimedEdges)
  PROVE  EndOf(p) = IF p = <<>> THEN Start ELSE p[Len(p)].target
BY DEF EndOf, Last

\* A chain and an edge that leaves its end make a longer one, and all are made so.
LEMMA LongerChains ==
  ASSUME NEW n \in Nat
  PROVE  Longer(Chains(n)) = Chains(n + 1)
<1>1. ASSUME NEW q \in Longer(Chains(n))
      PROVE  q \in Chains(n + 1)
  <2>1. PICK p \in Chains(n) : \E e \in TimedEdges : e.source = EndOf(p) /\ q = Append(p, e)
    BY <1>1 DEF Longer
  <2>2. PICK e \in TimedEdges : e.source = EndOf(p) /\ q = Append(p, e)
    BY <2>1
  <2>3. p \in Seq(TimedEdges) /\ Len(p) = n /\ Chain(p)  BY DEF Chains
  <2>4. /\ q \in Seq(TimedEdges) /\ Len(q) = n + 1 /\ q # <<>>
        /\ q[n + 1] = e /\ \A i \in 1 .. n : q[i] = p[i]
    BY <2>2, <2>3
  <2>5. q[1].source = Start
    <3>1. CASE n = 0
      <4>1. p = <<>> /\ q[1] = e  BY <2>3, <2>4, <3>1
      <4>2. e.source = Start  BY <2>2, <4>1 DEF EndOf
      <4> QED BY <4>1, <4>2
    <3>2. CASE n # 0
      <4>1. p # <<>> /\ 1 \in 1 .. n  BY <2>3, <3>2
      <4> QED BY <2>3, <2>4, <4>1 DEF Chain
    <3> QED BY <3>1, <3>2
  <2>6. \A i \in 1 .. Len(q) - 1 : q[i].target = q[i + 1].source
    <3> TAKE i \in 1 .. Len(q) - 1
    <3>1. i \in 1 .. n  BY <2>4
    <3>2. CASE i = n
      <4>1. p # <<>> /\ EndOf(p) = p[n].target  BY <2>3, <3>1, <3>2, EndOfChain
      <4> QED BY <2>2, <2>4, <3>1, <3>2, <4>1
    <3>3. CASE i # n
      <4>1. i \in 1 .. Len(p) - 1 /\ i + 1 \in 1 .. n  BY <2>3, <3>1, <3>3
      <4> QED BY <2>3, <2>4, <3>1, <4>1 DEF Chain
    <3> QED BY <3>2, <3>3
  <2> QED BY <2>4, <2>5, <2>6 DEF Chain, Chains
<1>2. ASSUME NEW q \in Chains(n + 1)
      PROVE  q \in Longer(Chains(n))
  <2> DEFINE p == SubSeq(q, 1, n)
             e == q[n + 1]
  <2>1. /\ q \in Seq(TimedEdges) /\ Len(q) = n + 1 /\ Chain(q) /\ q # <<>>
        /\ \A i \in 1 .. n : q[i].target = q[i + 1].source
    <3>1. q \in Seq(TimedEdges) /\ Len(q) = n + 1 /\ Chain(q)  BY <1>2 DEF Chains
    <3>2. Len(q) - 1 = n /\ q # <<>>  BY <3>1
    <3> QED BY <3>1, <3>2 DEF Chain
  <2>2. p \in Seq(TimedEdges) /\ Len(p) = n /\ \A i \in 1 .. n : p[i] = q[i]
    BY <2>1, SubSeqProperties
  <2>3. e \in TimedEdges /\ q = Append(p, e)
    <3>1. n + 1 \in 1 .. Len(q)  BY <2>1
    <3>2. e \in TimedEdges  BY <2>1, <3>1
    <3> HIDE DEF p
    <3>3. Append(p, e) \in Seq(TimedEdges) /\ Len(Append(p, e)) = n + 1
      BY <2>2, <3>2
    <3>4. \A i \in 1 .. n + 1 : Append(p, e)[i] = q[i]
      BY <2>1, <2>2, <3>2
    <3> QED BY <2>1, <3>2, <3>3, <3>4, SeqEqual
  <2> HIDE DEF p, e
  <2>4. Chain(p)
    <3>1. p # <<>> => p[1] = q[1]  BY <2>2
    <3>2. \A i \in 1 .. Len(p) - 1 : p[i].target = p[i + 1].source
      <4> TAKE i \in 1 .. Len(p) - 1
      <4>1. i \in 1 .. n /\ i + 1 \in 1 .. n  BY <2>2
      <4> QED BY <2>1, <2>2, <4>1
    <3> QED BY <2>1, <2>2, <3>1, <3>2 DEF Chain
  <2>5. e.source = EndOf(p)
    <3>1. CASE n = 0
      <4>1. p = <<>>  BY <2>2, <3>1
      <4>2. e.source = Start  BY <2>1, <3>1 DEF Chain, e
      <4> QED BY <4>1, <4>2 DEF EndOf
    <3>2. CASE n # 0
      <4>1. p # <<>> /\ n \in 1 .. n  BY <2>2, <3>2
      <4>2. EndOf(p) = q[n].target  BY <2>2, <4>1, EndOfChain
      <4> QED BY <2>1, <4>1, <4>2 DEF e
    <3> QED BY <3>1, <3>2
  <2> QED BY <2>2, <2>3, <2>4, <2>5 DEF Longer, Chains
<1> QED BY <1>1, <1>2

LEMMA PathsAreChains ==
  ASSUME NEW n \in 0 .. Horizon
  PROVE  PathsFromStart[n] = Chains(n)
<1> DEFINE V == SUBSET Seq(TimedEdges)
           F == [paths \in V |-> Longer(paths)]
           Extends(h) == h = [k \in 0 .. Horizon |-> IF k = 0 THEN {<<>>} ELSE Longer(h[k - 1])]
<1>1. Horizon \in Nat  BY ExpandedAssumption
<1>2. F \in [V -> V] /\ {<<>>} \in V
  <2>1. ASSUME NEW paths \in V PROVE Longer(paths) \in V
    <3>1. \A p \in paths : \A e \in TimedEdges : Append(p, e) \in Seq(TimedEdges)  BY <2>1
    <3> QED BY <3>1 DEF Longer
  <2> QED BY <2>1
<1>3. PICK g : IsIteration(g, F, {<<>>}, Horizon, V)
  <2> HIDE DEF F, V
  <2> QED BY <1>1, <1>2, IterationExists
<1>4. Extends(g)
  <2>1. \A k \in 0 .. Horizon : k # 0 => k - 1 \in 0 .. Horizon  BY <1>1
  <2>2. \A k \in 0 .. Horizon : k # 0 => F[g[k - 1]] = Longer(g[k - 1])  BY <1>3, <2>1 DEF IsIteration
  <2> HIDE DEF F, V
  <2> QED BY <1>3, <2>2 DEF IsIteration
<1>5. PathsFromStart = (CHOOSE h : Extends(h))
  BY DEF PathsFromStart, Longer
<1>6. Extends(PathsFromStart)
  <2> HIDE DEF Extends
  <2> QED BY <1>4, <1>5
<1> DEFINE S == {k \in Nat : k <= Horizon => PathsFromStart[k] = Chains(k)}
<1>7. 0 \in S
  <2>1. PathsFromStart[0] = {<<>>}  BY <1>1, <1>6
  <2>2. Chains(0) = {<<>>}
    <3>1. \A p \in Seq(TimedEdges) : Len(p) = 0 => p = <<>>  OBVIOUS
    <3>2. <<>> \in Seq(TimedEdges) /\ Len(<<>>) = 0  OBVIOUS
    <3>3. Chain(<<>>)  BY <3>2 DEF Chain
    <3>4. \A p \in Chains(0) : p = <<>>  BY <3>1 DEF Chains
    <3>5. <<>> \in Chains(0)  BY <3>2, <3>3 DEF Chains
    <3> QED BY <3>4, <3>5
  <2> QED BY <2>1, <2>2
<1>8. \A k \in S : k + 1 \in S
  <2> SUFFICES ASSUME NEW k \in S, k + 1 <= Horizon
               PROVE  PathsFromStart[k + 1] = Chains(k + 1)
    OBVIOUS
  <2>1. k \in Nat /\ k + 1 \in 0 .. Horizon /\ k + 1 # 0 /\ (k + 1) - 1 = k /\ k <= Horizon  BY <1>1
  <2>2. PathsFromStart[k + 1] = Longer(PathsFromStart[(k + 1) - 1])
    <3> HIDE DEF S
    <3> QED BY <1>6, <2>1
  <2>3. PathsFromStart[k] = Chains(k)  BY <2>1
  <2> HIDE DEF S, Extends
  <2> QED BY <2>1, <2>2, <2>3, LongerChains
<1>9. S = Nat
  <2>1. S \in SUBSET Nat  OBVIOUS
  <2> HIDE DEF S
  <2> QED BY <1>7, <1>8, <2>1, Induction
<1>10. n \in Nat /\ n <= Horizon  BY <1>1
<1>11. n \in S  BY <1>9, <1>10
<1> HIDE DEF Extends
<1> QED BY <1>10, <1>11

\* Walks are the chains that end at the source.
LEMMA WalksAreChains ==
  ASSUME NEW p
  PROVE  p \in Walks <=> /\ Chain(p) /\ p # <<>> /\ Len(p) <= Horizon
                         /\ IsEnd(p[Len(p)].target)
<1>1. Horizon \in Nat  BY ExpandedAssumption
<1>2. p \in Walks <=> (\E n \in 1 .. Horizon : p \in PathsFromStart[n]) /\ IsEnd(EndOf(p))
  BY DEF Walks
<1>3. \A n \in 1 .. Horizon : PathsFromStart[n] = Chains(n)
  BY <1>1, PathsAreChains
<1>4. p \in Walks <=> (\E n \in 1 .. Horizon : p \in Seq(TimedEdges) /\ Len(p) = n /\ Chain(p)) /\ IsEnd(EndOf(p))
  BY <1>2, <1>3 DEF Chains
<1>5. Chain(p) => p \in Seq(TimedEdges) /\ Len(p) \in Nat /\ (p # <<>> <=> Len(p) # 0)
  BY DEF Chain
<1>6. Chain(p) /\ p # <<>> => EndOf(p) = p[Len(p)].target
  BY <1>5, EndOfChain
<1> QED BY <1>1, <1>4, <1>5, <1>6

\* The edges of a chain.
LEMMA EdgesOfChain ==
  ASSUME NEW p, Chain(p)
  PROVE  /\ p \in Seq(TimedEdges) /\ Len(p) \in Nat
         /\ \A i \in 1 .. Len(p) :
              /\ p[i] \in TimedEdges
              /\ p[i].source \in TimedVertices /\ p[i].target \in TimedVertices
              /\ p[i].source.time \in Nat /\ p[i].target.time \in Nat
              /\ p[i].source.time < p[i].target.time
              /\ p[i].source.vertex # p[i].target.vertex
              /\ ~ IsEnd(p[i].source)
         /\ \A i \in 1 .. Len(p) - 1 : p[i].target = p[i + 1].source
<1>1. p \in Seq(TimedEdges)  BY DEF Chain
<1>2. \A i \in 1 .. Len(p) : p[i] \in TimedEdges  BY <1>1
<1>3. \A e \in TimedEdges :
        /\ e.source \in TimedVertices /\ e.target \in TimedVertices
        /\ e.source.time \in Nat /\ e.target.time \in Nat
        /\ e.source.time < e.target.time
        /\ e.source.vertex # e.target.vertex
        /\ ~ IsEnd(e.source)
  BY NetworkAssumption DEF IsNetwork
<1> QED BY <1>1, <1>2, <1>3 DEF Chain

\* Along a chain time passes.
LEMMA TimePasses ==
  ASSUME NEW p, Chain(p)
  PROVE  /\ \A i \in 1 .. Len(p) : i <= p[i].target.time
         /\ \A i, j \in 1 .. Len(p) : i < j => p[i].target.time <= p[j].source.time
<1>1. /\ Len(p) \in Nat
      /\ \A i \in 1 .. Len(p) : /\ p[i].source.time \in Nat /\ p[i].target.time \in Nat
                                /\ p[i].source.time < p[i].target.time
      /\ \A i \in 1 .. Len(p) - 1 : p[i].target = p[i + 1].source
  BY EdgesOfChain
<1> DEFINE S == {n \in Nat : n + 1 <= Len(p) =>
                   /\ n + 1 <= p[n + 1].target.time
                   /\ \A i \in 1 .. n : p[i].target.time <= p[n + 1].source.time}
<1>2. 0 \in S
  <2> SUFFICES ASSUME 1 <= Len(p) PROVE 1 <= p[1].target.time
    OBVIOUS
  <2>1. 1 \in 1 .. Len(p)  BY <1>1
  <2> QED BY <1>1, <2>1
<1>3. \A n \in S : n + 1 \in S
  <2> SUFFICES ASSUME NEW n \in S, (n + 1) + 1 <= Len(p)
               PROVE  /\ (n + 1) + 1 <= p[(n + 1) + 1].target.time
                      /\ \A i \in 1 .. n + 1 : p[i].target.time <= p[(n + 1) + 1].source.time
    OBVIOUS
  <2> DEFINE m == n + 1
  <2>1. n \in Nat /\ m \in 1 .. Len(p) - 1 /\ m \in 1 .. Len(p) /\ m + 1 \in 1 .. Len(p)  BY <1>1
  <2>2. m <= p[m].target.time /\ \A i \in 1 .. n : p[i].target.time <= p[m].source.time  BY <1>1, <2>1
  <2>3. p[m].target.time = p[m + 1].source.time /\ p[m].source.time < p[m].target.time
        /\ p[m + 1].source.time < p[m + 1].target.time
    BY <1>1, <2>1
  <2>4. m + 1 <= p[m + 1].target.time
    <3>1. p[m].target.time \in Nat /\ p[m + 1].target.time \in Nat  BY <1>1, <2>1
    <3> QED BY <2>1, <2>2, <2>3, <3>1
  <2>5. \A i \in 1 .. m : p[i].target.time <= p[m + 1].source.time
    <3> TAKE i \in 1 .. m
    <3>1. i \in 1 .. Len(p) /\ (i = m \/ i \in 1 .. n)  BY <2>1
    <3>2. p[i].target.time \in Nat /\ p[m].source.time \in Nat /\ p[m].target.time \in Nat  BY <1>1, <2>1, <3>1
    <3>3. i \in 1 .. n => p[i].target.time <= p[m].source.time  BY <2>2
    <3> QED BY <2>3, <3>1, <3>2, <3>3
  <2> QED BY <2>4, <2>5
<1>4. S = Nat
  <2>1. S \in SUBSET Nat  OBVIOUS
  <2> HIDE DEF S
  <2> QED BY <1>2, <1>3, <2>1, Induction
<1>5. \A i \in 1 .. Len(p) : i <= p[i].target.time
  <2> TAKE i \in 1 .. Len(p)
  <2>1. i - 1 \in Nat /\ (i - 1) + 1 = i /\ i <= Len(p)  BY <1>1
  <2>2. i - 1 \in S
    <3> HIDE DEF S
    <3> QED BY <1>4, <2>1
  <2> QED BY <2>1, <2>2
<1>6. \A i, j \in 1 .. Len(p) : i < j => p[i].target.time <= p[j].source.time
  <2> TAKE i, j \in 1 .. Len(p)
  <2> HAVE i < j
  <2>1. j - 1 \in Nat /\ (j - 1) + 1 = j /\ j <= Len(p) /\ i \in 1 .. j - 1  BY <1>1
  <2>2. j - 1 \in S
    <3> HIDE DEF S
    <3> QED BY <1>4, <2>1
  <2> QED BY <2>1, <2>2
<1> QED BY <1>5, <1>6

-----------------------------------------------------------------------------
(* Rows and prices.                                                        *)

\* The edges of a cycle follow the incoming one and each other, back to where it led;
\* no vertex is there twice, nor is the source, nor where the incoming edge came from.
IsCycle(incoming, cycle) ==
  /\ incoming \in TimedEdges /\ incoming.target.vertex # Root
  /\ Len(cycle) \in Nat \ {0} /\ \A k \in 1 .. Len(cycle) : cycle[k] \in TimedEdges
  /\ cycle[1].source = incoming.target
  /\ \A k \in 1 .. Len(cycle) - 1 : cycle[k].target = cycle[k + 1].source
  /\ cycle[Len(cycle)].target.vertex = incoming.target.vertex
  /\ \A k \in 1 .. Len(cycle) : cycle[k].source.vertex \notin {Root, incoming.source.vertex}
  /\ \A k, l \in 1 .. Len(cycle) : cycle[k].source.vertex = cycle[l].source.vertex => k = l

LEMMA CyclesAreSimple ==
  ASSUME NEW p \in Walks, Again(p) # {}
  PROVE  /\ CycleOf(p).kind = "cycle" /\ CycleOf(p).incoming \in ToSet(p)
         /\ IsCycle(CycleOf(p).incoming, CycleOf(p).cycle)
<1> DEFINE j == Min(Again(p))
           Firsts == {i \in 1 .. j - 1 : p[i].target.vertex = p[j].target.vertex}
           i == CHOOSE i \in 1 .. j - 1 : p[i].target.vertex = p[j].target.vertex
           c == SubSeq(p, i + 1, j)
<1>1. /\ p \in Seq(TimedEdges) /\ Len(p) \in Nat
      /\ \A m \in 1 .. Len(p) - 1 : p[m].target = p[m + 1].source
  BY WalksAreChains, EdgesOfChain
<1>2. j \in Again(p) /\ \A m \in Again(p) : j <= m
  <2>1. Again(p) \in SUBSET Nat  BY <1>1 DEF Again
  <2> QED BY <2>1, LeastExists
<1>3. j \in 1 .. Len(p) /\ \E m \in 1 .. j - 1 : p[m].target.vertex = p[j].target.vertex
  BY <1>2 DEF Again
<1>4. i \in 1 .. j - 1 /\ p[i].target.vertex = p[j].target.vertex
  <2> HIDE DEF j
  <2> QED BY <1>3
<1>5. CycleOf(p) = [kind |-> "cycle", incoming |-> p[i], cycle |-> c]  BY DEF CycleOf
<1> HIDE DEF i, j
<1>6. i \in 1 .. Len(p) /\ i \in Nat /\ j \in Nat /\ i < j  BY <1>1, <1>3, <1>4
<1>7. Len(c) = j - i /\ \A k \in 1 .. j - i : c[k] = p[i + k]
  <2>1. i + 1 \in 1 .. Len(p) + 1 /\ j \in i .. Len(p)  BY <1>1, <1>3, <1>6
  <2> DEFINE a == i + 1
  <2>2. a \in 1 .. Len(p) + 1 /\ j \in a - 1 .. Len(p)  BY <1>6, <2>1
  <2> HIDE DEF a
  <2>3. Len(SubSeq(p, a, j)) = (IF a <= j THEN j - a + 1 ELSE 0)
        /\ \A k \in 1 .. j - a + 1 : SubSeq(p, a, j)[k] = p[a + k - 1]
    BY <1>1, <2>2, SubSeqProperties
  <2>4. a <= j /\ j - a + 1 = j - i /\ \A k \in 1 .. j - i : a + k - 1 = i + k
    BY <1>6 DEF a
  <2> QED BY <2>3, <2>4 DEF a
<1>8. \A k \in 1 .. j - i : c[k].source = p[i + k - 1].target
  <2> TAKE k \in 1 .. j - i
  <2>1. i + k - 1 \in 1 .. Len(p) - 1 /\ (i + k - 1) + 1 = i + k  BY <1>1, <1>3, <1>6
  <2> QED BY <1>1, <1>7, <2>1
<1> HIDE DEF c
<1>9. ASSUME NEW m \in 1 .. j - 1, NEW k \in 1 .. m - 1, p[k].target.vertex = p[m].target.vertex PROVE FALSE
  <2>1. m \in 1 .. Len(p) /\ m < j  BY <1>1, <1>3, <1>6
  <2>2. m \in Again(p)  BY <1>9, <2>1 DEF Again
  <2> QED BY <1>2, <1>6, <2>1, <2>2
<1>10. \A k, l \in 1 .. j - i : c[k].source.vertex = c[l].source.vertex => k = l
  <2>1. ASSUME NEW k \in 1 .. j - i, NEW l \in 1 .. j - i, c[k].source.vertex = c[l].source.vertex, k < l
        PROVE  FALSE
    <3>1. p[i + k - 1].target.vertex = p[i + l - 1].target.vertex  BY <1>8, <2>1
    <3>2. i + l - 1 \in 1 .. j - 1 /\ i + k - 1 \in 1 .. (i + l - 1) - 1  BY <1>6, <2>1
    <3> QED BY <1>9, <3>1, <3>2
  <2> TAKE k, l \in 1 .. j - i
  <2>2. k < l \/ l < k \/ k = l  BY <1>6
  <2> QED BY <2>1, <2>2
<1>11. \A m \in 1 .. j - 1 : p[m].target.vertex # Root
  <2> TAKE m \in 1 .. j - 1
  <2>1. m \in 1 .. Len(p) - 1 /\ m \in 1 .. Len(p) /\ m + 1 \in 1 .. Len(p)  BY <1>1, <1>3, <1>6
  <2>2. p[m].target = p[m + 1].source /\ ~ IsEnd(p[m + 1].source)
        /\ p[m].source.time \in Nat /\ p[m].target.time \in Nat /\ p[m].source.time < p[m].target.time
    BY <2>1, WalksAreChains, EdgesOfChain
  <2> QED BY <2>2 DEF IsEnd
<1>12. \A k \in 1 .. j - i : c[k].source.vertex \notin {Root, p[i].source.vertex}
  <2> TAKE k \in 1 .. j - i
  <2> DEFINE m == i + k - 1
  <2>1. m \in 1 .. j - 1 /\ i <= m /\ c[k].source.vertex = p[m].target.vertex  BY <1>6, <1>8
  <2> HIDE DEF m
  <2>2. p[m].target.vertex # Root  BY <1>11, <2>1
  <2>3. CASE i = 1
    <3>1. p[i].source.vertex = Root  BY <2>3, WalksAreChains DEF Chain, Start
    <3> QED BY <2>1, <2>2, <3>1
  <2>4. CASE i # 1
    <3>1. i - 1 \in 1 .. Len(p) - 1 /\ (i - 1) + 1 = i /\ i - 1 \in 1 .. m - 1  BY <1>1, <1>3, <1>6, <2>1, <2>4
    <3>2. p[i - 1].target = p[i].source  BY <1>1, <3>1
    <3> QED BY <1>9, <2>1, <2>2, <3>1, <3>2
  <2> QED BY <2>3, <2>4
<1>13. p[i] \in ToSet(p)  BY <1>1, <1>6 DEF ToSet
<1>14. IsCycle(p[i], c)
  <2>1. p[i] \in TimedEdges /\ p[i].target.vertex # Root  BY <1>1, <1>4, <1>6, <1>11
  <2>2. Len(c) = j - i /\ j - i \in Nat \ {0}  BY <1>6, <1>7
  <2>3. \A k \in 1 .. j - i : i + k \in 1 .. Len(p) /\ c[k] = p[i + k] /\ c[k] \in TimedEdges
    BY <1>1, <1>3, <1>6, <1>7
  <2>4. c[1].source = p[i].target
    <3>1. 1 \in 1 .. j - i /\ i + 1 - 1 = i  BY <1>6
    <3> QED BY <1>8, <3>1
  <2>5. ASSUME NEW k \in 1 .. (j - i) - 1 PROVE c[k].target = c[k + 1].source
    <3>1. k \in 1 .. j - i /\ k + 1 \in 1 .. j - i /\ i + (k + 1) - 1 = i + k  BY <1>6
    <3> QED BY <1>7, <1>8, <3>1
  <2>6. c[j - i].target.vertex = p[i].target.vertex
    <3>1. j - i \in 1 .. j - i /\ i + (j - i) = j  BY <1>6
    <3> QED BY <1>4, <1>7, <3>1
  <2> QED BY <1>10, <1>12, <2>1, <2>2, <2>3, <2>4, <2>5, <2>6 DEF IsCycle
<1> QED BY <1>5, <1>13, <1>14

\* The rows there are.  What a cut counts against an edge, and not for it, concerns
\* variables that were there when it was found.
IsRow(row) ==
  \/ \E v : v.vertex # Root /\ row = FlowRow(v)
  \/ \E a : row = LinkingRow(a)
  \/ row.kind \in {"subtour", "lifted", "dk", "oddCAT"}
  \/ /\ row.kind = "cycle" /\ row.incoming \in variables
     /\ Len(row.cycle) \in Nat
     /\ \A k, l \in 1 .. Len(row.cycle) : row.cycle[k].source = row.cycle[l].source => k = l
  \/ row.kind = "unitaryAFC" /\ row.incoming \in variables
  \/ row.kind = "pathFree" /\ row.edges \subseteq variables

RowsAreKnown == \A row \in DOMAIN rows : IsRow(row)

\* An edge without a variable enters a row with what it is charged for.
LEMMA PricesAreRight ==
  ASSUME NEW row, IsRow(row), NEW e, e \notin variables
  PROVE  priced(row, e) = dual(row, e)
<1>1. CASE \E v : v.vertex # Root /\ row = FlowRow(v)
  BY <1>1 DEF FlowRow, priced, dual
<1>2. CASE \E a : row = LinkingRow(a)
  BY <1>2 DEF LinkingRow, priced, dual
<1>3. CASE row.kind \in {"subtour", "lifted", "dk", "oddCAT"}
  BY <1>3 DEF priced, dual, addedEdge, addDualCosts, subtourAdded, subtourDual, liftedAdded, liftedDual,
              dkAdded, dkDual, oddCATAdded, oddCATDual
<1>4. CASE /\ row.kind = "cycle" /\ row.incoming \in variables
           /\ Len(row.cycle) \in Nat
           /\ \A k, l \in 1 .. Len(row.cycle) : row.cycle[k].source = row.cycle[l].source => k = l
  <2> DEFINE turns == {i \in 1 .. Len(row.cycle) : TurnsOff(row, i, e)}
  <2>1. priced(row, e) = cycleAdded(row, e) /\ dual(row, e) = cycleDual(row, e)
    BY <1>4 DEF priced, dual, addedEdge, addDualCosts
  <2>2. cycleDual(row, e) = Cardinality(turns) - 0
    BY <1>4 DEF cycleDual, One
  <2>3. cycleAdded(row, e) = IF turns # {} THEN 1 ELSE 0
    BY DEF cycleAdded, One
  <2>4. \A k, l \in turns : k = l
    BY <1>4 DEF TurnsOff
  <2>5. turns # {} => \E k : turns = {k}
    BY <2>4
  <2>6. Cardinality(turns) = IF turns # {} THEN 1 ELSE 0
    BY <2>5, FS_EmptySet, FS_Singleton
  <2> HIDE DEF turns
  <2> QED BY <2>1, <2>2, <2>3, <2>6
<1>5. CASE row.kind = "unitaryAFC" /\ row.incoming \in variables
  <2>1. One(e = row.incoming) = 0  BY <1>5 DEF One
  <2>2. One(validEdge(row, e)) \in Int  BY DEF One
  <2>3. priced(row, e) = unitaryAFCAdded(row, e) /\ dual(row, e) = unitaryAFCDual(row, e)
    BY <1>5 DEF priced, dual, addedEdge, addDualCosts
  <2> QED BY <2>1, <2>2, <2>3 DEF unitaryAFCAdded, unitaryAFCDual
<1>6. CASE row.kind = "pathFree" /\ row.edges \subseteq variables
  <2>1. priced(row, e) = pathFreeAdded(row, e) /\ dual(row, e) = pathFreeDual(row, e)
    BY <1>6 DEF priced, dual, addedEdge, addDualCosts
  <2> QED BY <1>6, <2>1 DEF pathFreeAdded, pathFreeDual, One
<1> QED BY <1>1, <1>2, <1>3, <1>4, <1>5, <1>6 DEF IsRow

\* A cut is found with what it will charge, and concerns the variables there are.
LEMMA CutsAreRows ==
  ASSUME setting \in Settings, NEW c \in Families
  PROVE  IsRow(c) /\ \A e : createCut(c, e) = dual(c, e)
<1> DEFINE Kinds == {"subtour", "lifted", "cycle", "dk", "oddCAT", "unitaryAFC", "pathFree"}
           Of(kind) == CASE kind = "subtour"    -> Subtours
                         [] kind = "lifted"     -> LiftedSubtours
                         [] kind = "cycle"      -> Cycles({p \in Walks : ToSet(p) \subseteq variables})
                         [] kind = "dk"         -> DKs
                         [] kind = "oddCAT"     -> AllOddCATs
                         [] kind = "unitaryAFC" -> {d \in UnitaryAFCs : d.incoming \in variables}
                         [] kind = "pathFree"   -> OddPathFrees(variables)
<1>1. PICK kind \in Kinds : c \in Of(kind)
  <2>1. \E kind \in setting.separators : c \in Of(kind)
    <3>1. Families = UNION {Of(kind) : kind \in setting.separators}  BY DEF Families
    <3> HIDE DEF Of
    <3> QED BY <3>1
  <2>2. setting.separators \subseteq Kinds  BY ExpandedAssumption
  <2> HIDE DEF Kinds, Of
  <2> QED BY <2>1, <2>2
<1>2. c.kind = kind /\ IsRow(c)
  <2>1. CASE kind = "subtour"
    <3>1. c \in Subtours  BY <1>1, <2>1
    <3> QED BY <2>1, <3>1 DEF Subtours, IsRow
  <2>2. CASE kind = "lifted"
    <3>1. c \in LiftedSubtours  BY <1>1, <2>2
    <3> DEFINE lifted(s) == [kind |-> "lifted", set |-> s, maxTime |-> Horizon - arborescenceBound(s)]
    <3>2. \E s : c = lifted(s)  BY <3>1 DEF LiftedSubtours
    <3>3. c.kind = "lifted"  BY <3>2
    <3> QED BY <2>2, <3>3 DEF IsRow
  <2>3. CASE kind = "cycle"
    <3>1. c \in Cycles({p \in Walks : ToSet(p) \subseteq variables})  BY <1>1, <2>3
    <3>2. PICK p \in Walks : ToSet(p) \subseteq variables /\ Again(p) # {} /\ c = CycleOf(p)
      BY <3>1 DEF Cycles
    <3>3. /\ c.kind = "cycle" /\ c.incoming \in ToSet(p) /\ Len(c.cycle) \in Nat
          /\ \A k, l \in 1 .. Len(c.cycle) : c.cycle[k].source = c.cycle[l].source => k = l
      BY <3>2, CyclesAreSimple DEF IsCycle
    <3> QED BY <2>3, <3>2, <3>3 DEF IsRow
  <2>4. CASE kind = "dk"
    <3>1. c \in DKs  BY <1>1, <2>4
    <3> QED BY <2>4, <3>1 DEF DKs, IsRow
  <2>5. CASE kind = "oddCAT"
    <3>1. c \in OddCATs(Arcs)  BY <1>1, <2>5 DEF AllOddCATs
    <3> QED BY <2>5, <3>1 DEF OddCATs, IsRow
  <2>6. CASE kind = "unitaryAFC"
    <3>1. c \in UnitaryAFCs /\ c.incoming \in variables  BY <1>1, <2>6
    <3>2. c.kind = "unitaryAFC"  BY <3>1 DEF UnitaryAFCs
    <3> QED BY <2>6, <3>1, <3>2 DEF IsRow
  <2>7. CASE kind = "pathFree"
    <3>1. c \in OddPathFrees(variables)  BY <1>1, <2>7
    <3> DEFINE Among(t) == {e \in variables : e.source.vertex \in t /\ e.target.vertex \in t}
               Sets(t) == {s \in (SUBSET Among(t)) \ {{}} : pathFree(s)}
    <3>2. \E t : \E s \in Sets(t) : c = [kind |-> "pathFree", edges |-> s]
      BY <3>1 DEF OddPathFrees
    <3> QED BY <2>7, <3>2 DEF IsRow
  <2> QED BY <2>1, <2>2, <2>3, <2>4, <2>5, <2>6, <2>7
<1>3. ASSUME NEW e PROVE createCut(c, e) = dual(c, e)
  BY <1>2 DEF dual, createCut, addDualCosts, subtourCreated, subtourDual, liftedCreated, liftedDual,
              cycleCreated, cycleDual, dkCreated, dkDual, oddCATCreated, oddCATDual,
              unitaryAFCCreated, unitaryAFCDual, pathFreeCreated, pathFreeDual
<1> QED BY <1>2, <1>3

\* Every variable has its flow rows.
Conserved == \A e \in variables : addVertex(e.source) \cup addVertex(e.target) \subseteq DOMAIN rows

Priced == \A row \in DOMAIN rows : rows[row] = [e \in variables |-> dual(row, e)]

RInv == setting \in Settings /\ RowsAreKnown /\ Priced /\ Conserved

LEMMA RowsInit == Init => RInv
<1> SUFFICES ASSUME Init PROVE RInv
  OBVIOUS
<1>1. /\ setting \in Settings /\ variables = {}
      /\ rows = [row \in {LinkingRow(a) : a \in Arcs} |-> <<>>]
  BY DEF Init
<1>2. \A row \in DOMAIN rows : rows[row] = <<>> /\ \E a : row = LinkingRow(a)
  BY <1>1
<1>3. \A row : [e \in {} |-> dual(row, e)] = <<>>  OBVIOUS
<1> QED BY <1>1, <1>2, <1>3 DEF RInv, RowsAreKnown, IsRow, Priced, Conserved

LEMMA RowIsKept ==
  ASSUME NEW row, IsRow(row), variables \subseteq variables'
  PROVE  IsRow(row)'
BY DEF IsRow

\* Columns.  A row that is opened for a new variable has none of the old ones: they
\* have theirs.
LEMMA AddEdgesKeepsRows ==
  ASSUME RInv, NEW edges, AddEdges(edges), UNCHANGED setting
  PROVE  RInv'
<1> DEFINE new    == edges \ variables
           opened == UNION {addVertex(e.source) \cup addVertex(e.target) : e \in new}
<1>1. /\ variables' = variables \cup edges
      /\ DOMAIN rows' = DOMAIN rows \cup opened
      /\ \A row \in DOMAIN rows' :
           rows'[row] = [e \in variables \cup edges |->
                           IF e \in new THEN priced(row, e)
                           ELSE IF row \in DOMAIN rows THEN rows[row][e] ELSE 0]
  BY DEF AddEdges
<1>2. \A row \in opened : \E v : v.vertex # Root /\ row = FlowRow(v)
  BY DEF addVertex
<1>3. \A row \in DOMAIN rows' : IsRow(row)
  BY <1>1, <1>2 DEF RInv, RowsAreKnown, IsRow
<1>4. RowsAreKnown'
  <2>1. \A row : IsRow(row) => IsRow(row)'  BY <1>1, RowIsKept
  <2> QED BY <1>3, <2>1 DEF RowsAreKnown
<1>5. Priced'
  <2> SUFFICES ASSUME NEW row \in DOMAIN rows'
               PROVE  rows'[row] = [e \in variables' |-> dual(row, e)]
    BY DEF Priced, dual, FlowRow, LinkingRow, addDualCosts
  <2>1. ASSUME NEW e \in variables', e \in new
        PROVE  priced(row, e) = dual(row, e)
    BY <1>3, <2>1, PricesAreRight
  <2>2. ASSUME NEW e \in variables', e \notin new, row \in DOMAIN rows
        PROVE  rows[row][e] = dual(row, e)
    <3>1. e \in variables  BY <1>1, <2>2
    <3> QED BY <2>2, <3>1 DEF RInv, Priced
  <2>3. ASSUME NEW e \in variables', e \notin new, row \notin DOMAIN rows
        PROVE  dual(row, e) = 0
    <3>1. e \in variables /\ row \in opened  BY <1>1, <2>3
    <3>2. PICK v : v.vertex # Root /\ row = FlowRow(v)  BY <1>2, <3>1
    <3>3. v # e.source /\ v # e.target
      BY <2>3, <3>1, <3>2 DEF RInv, Conserved, addVertex
    <3> QED BY <3>2, <3>3 DEF dual, FlowRow, One
  <2> HIDE DEF new, opened
  <2> QED BY <1>1, <2>1, <2>2, <2>3
<1>6. Conserved'
  <2> SUFFICES ASSUME NEW e \in variables'
               PROVE  addVertex(e.source) \cup addVertex(e.target) \subseteq DOMAIN rows'
    BY DEF Conserved, addVertex, FlowRow
  <2>1. CASE e \in new  BY <1>1, <2>1
  <2>2. CASE e \notin new
    <3>1. e \in variables  BY <1>1, <2>2
    <3> QED BY <1>1, <3>1 DEF RInv, Conserved
  <2> QED BY <2>1, <2>2
<1>7. setting' \in Settings  BY DEF RInv
<1> QED BY <1>4, <1>5, <1>6, <1>7 DEF RInv

LEMMA SeparateKeepsRows ==
  ASSUME RInv, Separate, UNCHANGED setting
  PROVE  RInv'
<1>1. PICK n \in 0 .. maxCutsPerRound : \E new \in [1 .. n -> Families \ DOMAIN rows] :
        rows' = [row \in DOMAIN rows \cup ToSet(new) |->
                   IF row \in ToSet(new) THEN [e \in variables |-> createCut(row, e)] ELSE rows[row]]
  BY DEF Separate
<1>2. PICK new \in [1 .. n -> Families \ DOMAIN rows] :
        rows' = [row \in DOMAIN rows \cup ToSet(new) |->
                   IF row \in ToSet(new) THEN [e \in variables |-> createCut(row, e)] ELSE rows[row]]
  BY <1>1
<1> DEFINE cuts == ToSet(new)
<1>3. cuts \subseteq Families  BY DEF ToSet
<1>4. variables' = variables /\ setting \in Settings  BY DEF Separate, RInv
<1>5. /\ DOMAIN rows' = DOMAIN rows \cup cuts
      /\ \A row \in DOMAIN rows' :
           rows'[row] = IF row \in cuts THEN [e \in variables |-> createCut(row, e)] ELSE rows[row]
  BY <1>2
<1> HIDE DEF cuts
<1>6. \A row \in cuts : IsRow(row) /\ \A e : createCut(row, e) = dual(row, e)
  BY <1>3, <1>4, CutsAreRows
<1>7. \A row \in DOMAIN rows' : IsRow(row)  BY <1>5, <1>6 DEF RInv, RowsAreKnown
<1>8. RowsAreKnown'
  <2>1. \A row : IsRow(row) => IsRow(row)'  BY <1>4, RowIsKept
  <2> QED BY <1>7, <2>1 DEF RowsAreKnown
<1>9. Priced'
  <2> SUFFICES ASSUME NEW row \in DOMAIN rows'
               PROVE  rows'[row] = [e \in variables |-> dual(row, e)]
    BY <1>4 DEF Priced
  <2>1. CASE row \in cuts
    <3>1. [e \in variables |-> createCut(row, e)] = [e \in variables |-> dual(row, e)]
      BY <1>6, <2>1
    <3> QED BY <1>5, <2>1, <3>1
  <2>2. CASE row \notin cuts
    BY <1>5, <2>2 DEF RInv, Priced
  <2> QED BY <2>1, <2>2
<1>10. Conserved'
  BY <1>4, <1>5 DEF RInv, Conserved, addVertex, FlowRow
<1> QED BY <1>4, <1>8, <1>9, <1>10 DEF RInv

LEMMA RowsNext == RInv /\ [Next]_vars => RInv'
<1> SUFFICES ASSUME RInv, [Next]_vars PROVE RInv'
  OBVIOUS
<1>1. ASSUME UNCHANGED <<setting, variables, rows>> PROVE RInv'
  BY <1>1 DEF RInv, RowsAreKnown, IsRow, Priced, Conserved, addVertex, dual
<1>2. ASSUME Next PROVE UNCHANGED setting  BY <1>2 DEF Next
<1>4. CASE Next /\ PricePaths
  BY <1>2, <1>4, AddEdgesKeepsRows DEF PricePaths
<1>5. CASE Next /\ PriceEdges
  BY <1>2, <1>5, AddEdgesKeepsRows DEF PriceEdges
<1>6. CASE Next /\ Heuristic
  BY <1>2, <1>6, AddEdgesKeepsRows DEF Heuristic
<1>7. CASE Next /\ Separate  BY <1>2, <1>7, SeparateKeepsRows
<1>8. CASE Next /\ Propagate  BY <1>1, <1>2, <1>8 DEF Propagate
<1>9. CASE Next /\ Solution  BY <1>1, <1>2, <1>9 DEF Solution
<1>10. CASE Next /\ RaiseLower  BY <1>1, <1>2, <1>10 DEF RaiseLower
<1>11. CASE Next /\ NextNode  BY <1>1, <1>2, <1>11 DEF NextNode
<1>12. CASE UNCHANGED vars  BY <1>1, <1>12 DEF vars
<1>13. CASE Next /\ scip_farkas  BY <1>2, <1>13, AddEdgesKeepsRows DEF scip_farkas
<1> QED BY <1>4, <1>5, <1>6, <1>7, <1>8, <1>9, <1>10, <1>11, <1>12, <1>13 DEF Next

\* The coefficients of a variable are the ones it was charged for, in every row there
\* is, and it has the flow rows of the vertices it joins.
THEOREM RowsAlwaysMatchDuals == Spec => []RowsMatchDuals
<1>1. RInv => RowsMatchDuals  BY DEF RInv, Priced, Conserved, RowsMatchDuals
<1> QED BY <1>1, RowsInit, RowsNext, PTL DEF Spec

-----------------------------------------------------------------------------
(* Tours.                                                                  *)

LEMMA ToursAreChains ==
  ASSUME NEW p \in Tours
  PROVE  /\ p \in Walks /\ Chain(p) /\ p # <<>> /\ Len(p) \in Nat \ {0}
         /\ Len(p) = Cardinality(Vertices)
         /\ {p[i].source.vertex : i \in 1 .. Len(p)} = Vertices
         /\ p[1].source = Start
         /\ IsEnd(p[Len(p)].target)
         /\ Arrival(p) = p[Len(p)].target.time
         /\ ToSet(p) = {p[i] : i \in 1 .. Len(p)}
         /\ ToSet(p) \subseteq TimedEdges
<1>1. p \in Walks /\ isTour(p)  BY DEF Tours
<1>2. Chain(p) /\ p # <<>> /\ IsEnd(p[Len(p)].target)  BY <1>1, WalksAreChains
<1>3. p \in Seq(TimedEdges) /\ Len(p) \in Nat /\ p[1].source = Start  BY <1>2 DEF Chain
<1>4. ToSet(p) = {p[i] : i \in 1 .. Len(p)} /\ ToSet(p) \subseteq TimedEdges  BY <1>3 DEF ToSet
<1>5. Arrival(p) = p[Len(p)].target.time  BY DEF Arrival, Last
<1>6. Len(p) # 0  BY <1>2, <1>3
<1> QED BY <1>1, <1>2, <1>3, <1>4, <1>5, <1>6 DEF isTour

\* No edge is there twice, and no other one leaves the same vertex at the same time.
LEMMA EdgesDiffer ==
  ASSUME NEW p, Chain(p), NEW i \in 1 .. Len(p), NEW j \in 1 .. Len(p), p[i].source = p[j].source
  PROVE  i = j
<1>1. /\ Len(p) \in Nat
      /\ \A k \in 1 .. Len(p) : /\ p[k].source.time \in Nat /\ p[k].target.time \in Nat
                                /\ p[k].source.time < p[k].target.time
  BY EdgesOfChain
<1>2. \A k, l \in 1 .. Len(p) : k < l => p[k].source.time < p[l].source.time
  <2> TAKE k, l \in 1 .. Len(p)
  <2> HAVE k < l
  <2>1. p[k].target.time <= p[l].source.time  BY TimePasses
  <2> QED BY <1>1, <2>1
<1>3. ~ (i < j) /\ ~ (j < i)  BY <1>1, <1>2
<1> QED BY <1>1, <1>3

\* The travel times of a chain add up to its arrival.
LEMMA CostIsArrival ==
  ASSUME NEW p, Chain(p), p # <<>>
  PROVE  Cost({p[i] : i \in 1 .. Len(p)}) = p[Len(p)].target.time
<1> DEFINE S == {p[i] : i \in 1 .. Len(p)}
           Upto(n) == {p[i] : i \in 1 .. n}
           f == [e \in S |-> travelTime(e)]
<1>1. /\ p \in Seq(TimedEdges) /\ Len(p) \in Nat
      /\ \A i \in 1 .. Len(p) : p[i].source.time \in Nat /\ p[i].target.time \in Nat
      /\ \A i \in 1 .. Len(p) - 1 : p[i].target = p[i + 1].source
  BY EdgesOfChain
<1>2. p[1].source = Start /\ Start.time = 0 /\ Len(p) # 0  BY <1>1 DEF Chain, Start
<1>3. IsFiniteSet(S)
  <2>1. S \subseteq TimedEdges  BY <1>1
  <2>2. IsFiniteSet(TimedEdges)  BY ExpandedAssumption
  <2> HIDE DEF S
  <2> QED BY <2>1, <2>2, FS_Subset
<1>4. \A i \in 1 .. Len(p) : p[i] \in S /\ f[p[i]] = p[i].target.time - p[i].source.time
  BY DEF travelTime
<1>5. f \in [S -> Int] /\ \A e \in S : travelTime(e) \in Int
  <2>1. \A e \in S : travelTime(e) \in Int
    <3> SUFFICES ASSUME NEW i \in 1 .. Len(p) PROVE travelTime(p[i]) \in Int
      OBVIOUS
    <3>1. p[i].source.time \in Nat /\ p[i].target.time \in Nat  BY <1>1
    <3> QED BY <3>1 DEF travelTime
  <2> HIDE DEF S
  <2> QED BY <2>1
<1>6. PICK g : HasSums(g, f, S) /\ Cost(S) = g[S]
  <2> HIDE DEF S
  <2> QED BY <1>3, <1>5, CostIsSum
<1>7. g \in [SUBSET S -> Int] /\ g[{}] = 0  BY <1>6 DEF HasSums
<1>8. InAnyOrder(g, f, S)
  <2> HIDE DEF S, f
  <2> QED BY <1>3, <1>5, <1>6, SumInAnyOrder
<1> DEFINE T == {n \in Nat : n + 1 <= Len(p) => g[Upto(n + 1)] = p[n + 1].target.time}
<1>9. ASSUME NEW n \in Nat, n + 1 <= Len(p)
      PROVE  g[Upto(n + 1)] = f[p[n + 1]] + g[Upto(n)]
  <2>1. n + 1 \in 1 .. Len(p)  BY <1>1, <1>9
  <2>2. \A i \in 1 .. n : p[i] # p[n + 1]
    <3> SUFFICES ASSUME NEW i \in 1 .. n, p[i] = p[n + 1] PROVE FALSE
      OBVIOUS
    <3>1. i \in 1 .. Len(p) /\ i # n + 1  BY <1>1, <1>9
    <3> QED BY <2>1, <3>1, EdgesDiffer
  <2>3. Upto(n + 1) = Upto(n) \cup {p[n + 1]}
    <3>1. \A i : i \in 1 .. n + 1 <=> i \in 1 .. n \/ i = n + 1  OBVIOUS
    <3> QED BY <3>1
  <2>4. p[n + 1] \in Upto(n + 1) /\ Upto(n + 1) \ {p[n + 1]} = Upto(n)  BY <2>2, <2>3
  <2>5. Upto(n + 1) \in SUBSET S
    <3>1. \A i \in 1 .. n + 1 : i \in 1 .. Len(p)  BY <1>1, <1>9
    <3> QED BY <3>1
  <2> HIDE DEF Upto, S, f
  <2> QED BY <1>8, <2>4, <2>5 DEF InAnyOrder
<1>10. 0 \in T
  <2> SUFFICES ASSUME 1 <= Len(p) PROVE g[Upto(1)] = p[1].target.time
    OBVIOUS
  <2>1. Upto(0) = {}  OBVIOUS
  <2>2. g[Upto(0 + 1)] = f[p[0 + 1]] + g[Upto(0)]
    <3> HIDE DEF Upto, f, S
    <3> QED BY <1>9
  <2>3. 1 \in 1 .. Len(p) /\ 0 + 1 = 1  BY <1>1
  <2> HIDE DEF Upto, f, S, T
  <2>4. f[p[1]] = p[1].target.time - p[1].source.time  BY <1>4, <2>3
  <2>5. p[1].source.time = 0 /\ p[1].target.time \in Nat  BY <1>1, <1>2, <2>3
  <2>6. g[Upto(1)] = f[p[1]] + 0  BY <1>7, <2>1, <2>2, <2>3
  <2> QED BY <2>4, <2>5, <2>6
<1>11. \A n \in T : n + 1 \in T
  <2> HIDE DEF Upto, f, S
  <2> SUFFICES ASSUME NEW n \in T, (n + 1) + 1 <= Len(p)
               PROVE  g[Upto((n + 1) + 1)] = p[(n + 1) + 1].target.time
    OBVIOUS
  <2>1. n \in Nat /\ n + 1 \in Nat /\ n + 1 <= Len(p) /\ n + 1 \in 1 .. Len(p) - 1
        /\ n + 1 \in 1 .. Len(p) /\ (n + 1) + 1 \in 1 .. Len(p)
    BY <1>1
  <2>2. g[Upto(n + 1)] = p[n + 1].target.time  BY <2>1
  <2> HIDE DEF T
  <2>3. g[Upto((n + 1) + 1)] = f[p[(n + 1) + 1]] + g[Upto(n + 1)]  BY <1>9, <2>1
  <2>4. f[p[(n + 1) + 1]] = p[(n + 1) + 1].target.time - p[(n + 1) + 1].source.time  BY <1>4, <2>1
  <2>5. p[n + 1].target.time = p[(n + 1) + 1].source.time  BY <1>1, <2>1
  <2> QED BY <1>1, <2>1, <2>2, <2>3, <2>4, <2>5
<1>12. T = Nat
  <2>1. T \in SUBSET Nat  OBVIOUS
  <2> HIDE DEF T
  <2> QED BY <1>10, <1>11, <2>1, Induction
<1>13. Len(p) - 1 \in Nat /\ (Len(p) - 1) + 1 = Len(p)  BY <1>1, <1>2
<1>14. g[Upto(Len(p))] = p[Len(p)].target.time
  <2>1. \A n \in Nat : n + 1 <= Len(p) => g[Upto(n + 1)] = p[n + 1].target.time  BY <1>12
  <2> HIDE DEF Upto, T
  <2> QED BY <1>13, <2>1
<1> QED BY <1>6, <1>14

LEMMA CostOfTour ==
  ASSUME NEW p \in Tours
  PROVE  Cost(ToSet(p)) = Arrival(p) /\ Arrival(p) \in Nat /\ ToSet(p) # {}
<1>1. Chain(p) /\ p # <<>> /\ Len(p) \in Nat \ {0} /\ Arrival(p) = p[Len(p)].target.time
      /\ ToSet(p) = {p[i] : i \in 1 .. Len(p)}
  BY ToursAreChains
<1>2. Len(p) \in 1 .. Len(p) /\ p[Len(p)] \in ToSet(p)  BY <1>1
<1>3. Arrival(p) \in Nat  BY <1>1, <1>2, EdgesOfChain
<1> QED BY <1>1, <1>2, <1>3, CostIsArrival

LEMMA RootEdgesLeaveStart ==
  ASSUME NEW e \in TimedEdges, e.source.vertex = Root
  PROVE  e.source = Start
<1>1. /\ e.source = [vertex |-> e.source.vertex, time |-> e.source.time]
      /\ e.source.time \in Nat /\ ~ IsEnd(e.source)
  BY NetworkAssumption DEF IsNetwork
<1>2. e.source.time = 0  BY <1>1 DEF IsEnd
<1> QED BY <1>1, <1>2 DEF Start

\* In a set that the flow rows admit, who enters a vertex also leaves it, and who
\* leaves it has entered it: at the same time.
LEMMA FlowIsConserved ==
  ASSUME RInv, variables \subseteq TimedEdges,
         NEW set \in SUBSET variables, Feasible(set), NEW e \in set, NEW v, v.vertex # Root
  PROVE  /\ v = e.target => \E d \in set : d.source = v
         /\ v = e.source => \E d \in set : d.target = v
<1> SUFFICES ASSUME v = e.target \/ v = e.source
             PROVE  (\E d \in set : d.source = v) /\ (\E d \in set : d.target = v)
  OBVIOUS
<1> DEFINE row == FlowRow(v)
           Into == {d \in set : d.target = v}
           f == [d \in set |-> rows[row][d]]
<1>1. row \in DOMAIN rows
  BY DEF RInv, Conserved, addVertex
<1>2. Activity(row, set) = 0
  BY <1>1 DEF Feasible, FlowRow
<1>3. \A d \in set : rows[row][d] = One(v = d.source) - One(v = d.target)
  BY <1>1 DEF RInv, Priced, dual, FlowRow
<1>4. \A d \in set : d.source # d.target
  <2>1. \A d \in TimedEdges : d.source.vertex # d.target.vertex  BY NetworkAssumption DEF IsNetwork
  <2> QED BY <2>1
<1>5. \A d \in set : rows[row][d] = IF v = d.source THEN 1 ELSE IF v = d.target THEN 0 - 1 ELSE 0
  BY <1>3, <1>4 DEF One
<1>6. IsFiniteSet(set)
  <2>1. set \subseteq TimedEdges /\ IsFiniteSet(TimedEdges)  BY ExpandedAssumption
  <2> QED BY <2>1, FS_Subset
<1>7. \A d \in set : rows[row][d] \in Int  BY <1>5
<1>8. PICK g : HasSums(g, f, set) /\ Activity(row, set) = g[set]
  <2> HIDE DEF row
  <2> QED BY <1>6, <1>7, ActivityIsSum
<1>9. f \in [set -> Int] /\ \A d \in set : f[d] = rows[row][d]  BY <1>7
<1> HIDE DEF f, row
<1>10. \E d \in set : d.source = v
  <2> SUFFICES ASSUME \A d \in set : d.source # v PROVE FALSE
    OBVIOUS
  <2>1. \A d \in set : f[d] <= 0  BY <1>5, <1>9
  <2>2. \A d \in set : g[set] <= f[d]  BY <1>6, <1>8, <1>9, <2>1, SumIsAtMost
  <2>3. f[e] = 0 - 1  BY <1>5, <1>9
  <2>4. g[set] = 0 /\ g[set] <= f[e]  BY <1>2, <1>8, <2>2
  <2> QED BY <2>3, <2>4
<1>11. \E d \in set : d.target = v
  <2> SUFFICES ASSUME \A d \in set : d.target # v PROVE FALSE
    OBVIOUS
  <2>1. \A d \in set : 0 <= f[d]  BY <1>5, <1>9
  <2>2. \A d \in set : f[d] <= g[set]  BY <1>6, <1>8, <1>9, <2>1, SumIsAtLeast
  <2>3. f[e] = 1  BY <1>5, <1>9
  <2>4. g[set] = 0 /\ f[e] <= g[set]  BY <1>2, <1>8, <2>2
  <2> QED BY <2>3, <2>4
<1> QED BY <1>10, <1>11

\* A set with one edge out of every vertex that conserves the flow is a tour: from
\* the start one comes back to the source, as time passes, and none is left over:
\* where would the earliest of them come from?
LEMMA AdmittedSetsAreTours ==
  ASSUME RInv, variables \subseteq TimedEdges, NEW set \in Covering, Feasible(set)
  PROVE  \E p \in Tours : ToSet(p) = set
<1>1. /\ set \in SUBSET variables /\ set \subseteq TimedEdges
      /\ \A e \in set : e.source.vertex \in Vertices
      /\ \A v \in Vertices : \E e \in set : e.source.vertex = v
      /\ \A e, f \in set : e.source.vertex = f.source.vertex => e = f
  BY CoveringIsExact
<1>2. Root \in Vertices /\ IsFiniteSet(Vertices) /\ Horizon \in Nat  BY ExpandedAssumption
<1>3. /\ \A e \in TimedEdges :
           /\ e.source \in TimedVertices /\ e.target \in TimedVertices
           /\ e.source.time \in Nat /\ e.target.time \in Nat
           /\ e.source.time < e.target.time
           /\ ~ IsEnd(e.source)
      /\ \A v \in TimedVertices : v.time <= Horizon /\ v.vertex \in Vertices
  BY NetworkAssumption, ExpandedAssumption DEF IsNetwork
<1> DEFINE Inside(p) == Chain(p) /\ \A i \in 1 .. Len(p) : p[i] \in set
           Lengths == {n \in Nat : \E p : Inside(p) /\ Len(p) = n}
<1>4. \A p : Chain(p) => p \in Seq(TimedEdges) /\ Len(p) \in Nat  BY DEF Chain
<1>5. \A p : Inside(p) => Len(p) <= Horizon
  <2> SUFFICES ASSUME NEW p, Chain(p) PROVE Len(p) <= Horizon
    OBVIOUS
  <2>1. CASE Len(p) = 0  BY <1>2, <2>1
  <2>2. CASE Len(p) # 0
    <3> DEFINE n == Len(p)
    <3>1. n \in 1 .. n /\ n \in Nat  BY <1>4, <2>2
    <3>2. p[n] \in TimedEdges  BY <3>1, EdgesOfChain
    <3>3. n <= p[n].target.time /\ p[n].target.time <= Horizon /\ p[n].target.time \in Nat
      BY <1>3, <3>1, <3>2, TimePasses
    <3> QED BY <1>2, <3>1, <3>3
  <2> QED BY <2>1, <2>2
<1>6. 1 \in Lengths
  <2>1. PICK e \in set : e.source.vertex = Root  BY <1>1, <1>2
  <2>2. e.source = Start  BY <1>1, <2>1, RootEdgesLeaveStart
  <2>3. e \in TimedEdges  BY <1>1
  <2>4. <<e>> \in Seq(TimedEdges) /\ Len(<<e>>) = 1 /\ <<e>>[1] = e /\ <<e>> # <<>>  BY <2>3
  <2>5. Chain(<<e>>)  BY <2>2, <2>4 DEF Chain
  <2> QED BY <2>4, <2>5
<1>7. PICK n \in Lengths : \A m \in Lengths : m <= n
  <2>1. Lengths \in SUBSET Nat /\ Lengths # {}  BY <1>6
  <2>2. \A m \in Lengths : m <= Horizon  BY <1>5
  <2> HIDE DEF Lengths
  <2> QED BY <1>2, <2>1, <2>2, GreatestExists
<1>8. PICK p : Inside(p) /\ Len(p) = n  OBVIOUS
<1>9. Chain(p) /\ p \in Seq(TimedEdges) /\ (\A i \in 1 .. n : p[i] \in set) /\ n \in Nat /\ 1 <= n
  BY <1>4, <1>6, <1>7, <1>8
<1>10. /\ \A i \in 1 .. n : p[i] \in TimedEdges
       /\ \A i \in 1 .. n - 1 : p[i].target = p[i + 1].source
       /\ p[1].source = Start /\ n \in 1 .. n /\ p # <<>>
  BY <1>8, <1>9, EdgesOfChain DEF Chain
<1>11. n <= Horizon  BY <1>5, <1>8
<1>12. IsEnd(p[n].target)
  <2> SUFFICES ASSUME ~ IsEnd(p[n].target) PROVE FALSE
    OBVIOUS
  <2>1. n <= p[n].target.time /\ p[n].target.time \in Nat  BY <1>3, <1>8, <1>9, <1>10, TimePasses
  <2>2. p[n].target.vertex # Root  BY <1>9, <2>1 DEF IsEnd
  <2>3. p[n] \in set  BY <1>9, <1>10
  <2>4. PICK e \in set : e.source = p[n].target  BY <1>1, <2>2, <2>3, FlowIsConserved
  <2> DEFINE q == Append(p, e)
  <2>5. e \in TimedEdges  BY <1>1
  <2>6. /\ q \in Seq(TimedEdges) /\ Len(q) = n + 1
        /\ q[n + 1] = e /\ \A i \in 1 .. n : q[i] = p[i]
    BY <1>8, <1>9, <2>5
  <2> HIDE DEF q
  <2>7. \A i \in 1 .. n + 1 : q[i] \in set
    <3>1. \A i \in 1 .. n + 1 : i \in 1 .. n \/ i = n + 1  BY <1>9
    <3> QED BY <1>9, <2>6, <3>1
  <2>8. q[1].source = Start  BY <1>9, <1>10, <2>6
  <2>9. \A i \in 1 .. Len(q) - 1 : q[i].target = q[i + 1].source
    <3> TAKE i \in 1 .. Len(q) - 1
    <3>1. i \in 1 .. n  BY <1>9, <2>6
    <3>2. CASE i = n  BY <1>10, <2>4, <2>6, <3>2
    <3>3. CASE i # n
      <4>1. i \in 1 .. n - 1 /\ i + 1 \in 1 .. n  BY <1>9, <3>1, <3>3
      <4> QED BY <1>10, <2>6, <3>1, <4>1
    <3> QED BY <3>2, <3>3
  <2>10. Inside(q)  BY <2>6, <2>7, <2>8, <2>9 DEF Chain
  <2>11. n + 1 \in Lengths
    <3>1. n + 1 \in Nat  BY <1>9
    <3> HIDE DEF Inside
    <3> QED BY <2>6, <2>10, <3>1
  <2>12. n + 1 <= n  BY <1>7, <2>11
  <2> QED BY <1>9, <2>12
<1> HIDE DEF Inside, Lengths
<1> DEFINE There == {p[i] : i \in 1 .. n}
           Left == set \ There
           Times == {e.source.time : e \in Left}
<1>13. Left = {}
  <2> SUFFICES ASSUME Left # {} PROVE FALSE
    OBVIOUS
  <2>1. PICK e \in Left : \A d \in Left : e.source.time <= d.source.time
    <3>1. Times \in SUBSET Nat /\ Times # {}  BY <1>1, <1>3
    <3>2. PICK t \in Times : \A m \in Times : t <= m
      <4> HIDE DEF Times
      <4> QED BY <3>1, LeastExists
    <3> QED BY <3>2
  <2>2. e \in set /\ e \in TimedEdges  BY <1>1
  <2>3. \A i \in 1 .. n : e # p[i]  BY <2>1
  <2>4. e.source.vertex # Root
    <3>1. 1 \in 1 .. n /\ p[1] \in set  BY <1>9
    <3>2. p[1].source.vertex = Root  BY <1>10 DEF Start
    <3> QED BY <1>1, <2>2, <2>3, <3>1, <3>2
  <2>5. PICK d \in set : d.target = e.source  BY <1>1, <2>2, <2>4, FlowIsConserved
  <2>6. d.source.time < e.source.time /\ d.source.time \in Nat /\ e.source.time \in Nat
    BY <1>1, <1>3, <2>2, <2>5
  <2>7. d \notin Left  BY <2>1, <2>6
  <2>8. PICK i \in 1 .. n : d = p[i]  BY <2>5, <2>7
  <2>9. i # n  BY <1>12, <2>4, <2>5, <2>8 DEF IsEnd
  <2>10. i \in 1 .. n - 1 /\ i + 1 \in 1 .. n  BY <1>9, <2>8, <2>9
  <2>11. p[i + 1].source = e.source /\ p[i + 1] \in set  BY <1>9, <1>10, <2>5, <2>8, <2>10
  <2> QED BY <1>1, <2>2, <2>3, <2>10, <2>11
<1>14. set = There  BY <1>9, <1>13
<1>15. ToSet(p) = There
  <2>1. DOMAIN p = 1 .. n  BY <1>8, <1>9
  <2> QED BY <2>1 DEF ToSet
<1>16. p \in Walks  BY <1>8, <1>9, <1>10, <1>11, <1>12, WalksAreChains
<1>17. {p[i].source.vertex : i \in 1 .. n} = Vertices
  <2>1. \A i \in 1 .. n : p[i].source.vertex \in Vertices  BY <1>1, <1>9
  <2>2. \A v \in Vertices : \E i \in 1 .. n : p[i].source.vertex = v  BY <1>1, <1>14
  <2> QED BY <2>1, <2>2
<1>18. Cardinality(Vertices) = n
  <2> DEFINE b == [i \in 1 .. n |-> p[i].source.vertex]
  <2>1. b \in [1 .. n -> Vertices]  BY <1>17
  <2>2. \A v \in Vertices : \E i \in 1 .. n : b[i] = v  BY <1>17
  <2>3. \A i, j \in 1 .. n : b[i] = b[j] => i = j
    <3> SUFFICES ASSUME NEW i \in 1 .. n, NEW j \in 1 .. n, p[i].source.vertex = p[j].source.vertex
                 PROVE  i = j
      OBVIOUS
    <3>1. p[i] = p[j]  BY <1>1, <1>9
    <3> QED BY <1>8, <1>9, <3>1, EdgesDiffer
  <2> HIDE DEF b
  <2>4. b \in Bijection(1 .. n, Vertices)
    BY <2>1, <2>2, <2>3 DEF Bijection, Injection, Surjection, IsInjective
  <2>5. ExistsBijection(1 .. n, Vertices)  BY <2>4 DEF ExistsBijection
  <2> QED BY <1>9, <2>5, FS_CountingElements
<1>19. p \in Tours  BY <1>8, <1>16, <1>17, <1>18 DEF Tours, isTour
<1> QED BY <1>14, <1>15, <1>19

BestIsTour == best # {} => \E p \in Tours : ToSet(p) = best

TInv == RInv /\ variables \subseteq TimedEdges /\ BestIsTour

LEMMA InitialTourIsTour == AsPath(InitialTour) \in Tours
BY ExpandedAssumption DEF AsPath

LEMMA WalksUseEdges ==
  ASSUME NEW p \in Walks
  PROVE  ToSet(p) \subseteq TimedEdges
BY WalksAreChains DEF Chain, ToSet

\* What is added is as good as before, or a tour.
LEMMA AddedTours ==
  ASSUME BestIsTour, NEW sets, AddSolution(sets), \A s \in sets : \E p \in Tours : ToSet(p) = s
  PROVE  BestIsTour'
BY DEF BestIsTour, AddSolution

LEMMA PricedPathsAreWalks ==
  ASSUME NEW n, NEW result \in [1 .. n -> PathsInWindow]
  PROVE  /\ UNION {ToSet(p) : p \in ToSet(result)} \subseteq TimedEdges
         /\ \A s \in {ToSet(p) : p \in {p \in ToSet(result) : isTour(p)}} : \E p \in Tours : ToSet(p) = s
<1>1. \A p \in ToSet(result) : p \in Walks  BY DEF ToSet, PathsInWindow
<1>2. \A p \in ToSet(result) : ToSet(p) \subseteq TimedEdges  BY <1>1, WalksUseEdges
<1> QED BY <1>1, <1>2 DEF Tours

LEMMA ToursInit == Init => TInv
BY RowsInit DEF Init, TInv, BestIsTour

LEMMA ToursNext == TInv /\ [Next]_vars => TInv'
<1> SUFFICES ASSUME TInv, [Next]_vars PROVE TInv'
  OBVIOUS
<1>1. RInv'  BY RowsNext DEF TInv
<1>2. RInv /\ variables \subseteq TimedEdges /\ BestIsTour  BY DEF TInv
<1>3. ASSUME UNCHANGED best PROVE BestIsTour'  BY <1>2, <1>3 DEF BestIsTour
<1>4. ASSUME UNCHANGED <<variables, best>> PROVE TInv'  BY <1>1, <1>2, <1>3, <1>4 DEF TInv
<1>5. ASSUME NEW edges, edges \subseteq TimedEdges, AddEdges(edges) PROVE variables' \subseteq TimedEdges
  BY <1>2, <1>5 DEF AddEdges
<1>6. CASE scip_farkas
  <2>1. AsPath(InitialTour) \in Tours /\ ToSet(AsPath(InitialTour)) \subseteq TimedEdges
    BY InitialTourIsTour, ToursAreChains
  <2>2. variables' \subseteq TimedEdges  BY <1>5, <1>6, <2>1 DEF scip_farkas
  <2>3. BestIsTour'  BY <1>2, <1>6, <2>1, AddedTours DEF scip_farkas
  <2> QED BY <1>1, <2>2, <2>3 DEF TInv
<1>7. CASE PricePaths
  <2>1. PICK n \in 1 .. numPaths : \E result \in [1 .. n -> PathsInWindow] :
          /\ AddEdges(UNION {ToSet(p) : p \in ToSet(result)})
          /\ AddSolution({ToSet(p) : p \in {p \in ToSet(result) : isTour(p)}})
    BY <1>7 DEF PricePaths
  <2>2. PICK result \in [1 .. n -> PathsInWindow] :
          /\ AddEdges(UNION {ToSet(p) : p \in ToSet(result)})
          /\ AddSolution({ToSet(p) : p \in {p \in ToSet(result) : isTour(p)}})
    BY <2>1
  <2>3. variables' \subseteq TimedEdges  BY <1>5, <2>2, PricedPathsAreWalks
  <2>4. BestIsTour'  BY <1>2, <2>2, PricedPathsAreWalks, AddedTours
  <2> QED BY <1>1, <2>3, <2>4 DEF TInv
<1>8. CASE PriceEdges
  <2> DEFINE Candidates == {e \in TimedEdges :
           /\ arc(e) \notin forbidden
           /\ e.target.time <= upper
           /\ e.target.vertex = Root => e.target.time >= lower}
  <2>1. PICK n \in 1 .. numPaths : \E result \in [1 .. n -> Candidates] : AddEdges(ToSet(result))
    BY <1>8 DEF PriceEdges
  <2>2. PICK result \in [1 .. n -> Candidates] : AddEdges(ToSet(result))  BY <2>1
  <2>3. ToSet(result) \subseteq TimedEdges  BY DEF ToSet
  <2>4. variables' \subseteq TimedEdges /\ best' = best
    <3> HIDE DEF Candidates
    <3> QED BY <1>5, <1>8, <2>2, <2>3 DEF PriceEdges
  <2> QED BY <1>1, <1>3, <2>4 DEF TInv
<1>9. CASE Heuristic
  <2>1. PICK p \in Tours : AddEdges(ToSet(p)) /\ AddSolution({ToSet(p)})  BY <1>9 DEF Heuristic
  <2>2. variables' \subseteq TimedEdges  BY <1>5, <2>1, ToursAreChains
  <2>3. BestIsTour'  BY <1>2, <2>1, AddedTours
  <2> QED BY <1>1, <2>2, <2>3 DEF TInv
<1>10. CASE Solution
  <2>1. PICK set \in Covering : Feasible(set) /\ AddSolution({set})  BY <1>10 DEF Solution
  <2>2. \E p \in Tours : ToSet(p) = set  BY <1>2, <2>1, AdmittedSetsAreTours
  <2>3. BestIsTour'  BY <1>2, <2>1, <2>2, AddedTours
  <2>4. variables' = variables  BY <1>10 DEF Solution
  <2> QED BY <1>1, <1>2, <2>3, <2>4 DEF TInv
<1>11. CASE Separate  BY <1>4, <1>11 DEF Separate
<1>12. CASE Propagate  BY <1>4, <1>12 DEF Propagate
<1>13. CASE RaiseLower  BY <1>4, <1>13 DEF RaiseLower
<1>14. CASE NextNode  BY <1>4, <1>14 DEF NextNode
<1>15. CASE UNCHANGED vars  BY <1>4, <1>15 DEF vars
<1> QED BY <1>6, <1>7, <1>8, <1>9, <1>10, <1>11, <1>12, <1>13, <1>14, <1>15 DEF Next

-----------------------------------------------------------------------------
(* What is read off the best solution.                                     *)

LEMMA FollowsTour ==
  ASSUME NEW p \in Tours, ToSet(p) = best
  PROVE  \A n \in 0 .. Len(p) : Reached[n] = IF n = 0 THEN Start ELSE p[n].target
<1>1. /\ Chain(p) /\ Len(p) \in Nat /\ Len(p) = Cardinality(Vertices)
      /\ best = {p[i] : i \in 1 .. Len(p)} /\ p[1].source = Start
      /\ \A i \in 1 .. Len(p) - 1 : p[i].target = p[i + 1].source
  BY ToursAreChains, EdgesOfChain
<1> DEFINE N == Len(p)
           At(n) == IF n = 0 THEN Start ELSE p[n].target
           g == [n \in 0 .. N |-> At(n)]
           Extends(h) == h = [n \in 0 .. N |-> IF n = 0 THEN Start ELSE Follow(h[n - 1])]
<1>2. \A n \in 1 .. N : Follow(At(n - 1)) = At(n)
  <2> TAKE n \in 1 .. N
  <2>1. p[n].source = At(n - 1)
    <3>1. CASE n = 1  BY <1>1, <3>1
    <3>2. CASE n # 1
      <4>1. n - 1 \in 1 .. N - 1 /\ (n - 1) + 1 = n /\ n - 1 # 0  BY <1>1, <3>2
      <4> QED BY <1>1, <4>1
    <3> QED BY <3>1, <3>2
  <2> DEFINE out == {e \in best : e.source = At(n - 1)}
  <2>2. out = {p[n]}
    <3>1. p[n] \in out  BY <1>1, <2>1
    <3>2. \A e \in out : e = p[n]
      <4> TAKE e \in out
      <4>1. PICK i \in 1 .. N : e = p[i]  BY <1>1
      <4>2. p[i].source = p[n].source  BY <2>1, <4>1
      <4>3. i = n  BY <1>1, <4>2, EdgesDiffer
      <4> QED BY <4>1, <4>3
    <3> QED BY <3>1, <3>2
  <2>3. Follow(At(n - 1)) = p[n].target
    <3>1. (CHOOSE e \in out : TRUE) = p[n] /\ out # {}  BY <2>2
    <3> HIDE DEF At
    <3> QED BY <3>1 DEF Follow
  <2> QED BY <1>1, <2>3
<1>3. Extends(g)
  <2>1. \A n \in 0 .. N : n # 0 => n \in 1 .. N /\ n - 1 \in 0 .. N  BY <1>1
  <2>2. \A n \in 0 .. N : At(n) = IF n = 0 THEN Start ELSE Follow(g[n - 1])
    <3> TAKE n \in 0 .. N
    <3>1. CASE n = 0  BY <3>1
    <3>2. CASE n # 0
      <4>1. n \in 1 .. N /\ g[n - 1] = At(n - 1)  BY <2>1, <3>2
      <4>2. Follow(At(n - 1)) = At(n)  BY <1>2, <4>1
      <4> HIDE DEF At, g
      <4> QED BY <3>2, <4>1, <4>2
    <3> QED BY <3>1, <3>2
  <2> HIDE DEF At
  <2> QED BY <2>2
<1>4. Extends(Reached)
  <2>1. Reached = (CHOOSE h : Extends(h))  BY <1>1 DEF Reached
  <2> HIDE DEF Extends, g
  <2> QED BY <1>3, <2>1
<1>5. \A n \in 0 .. N : Reached[n] = IF n = 0 THEN Start ELSE Follow(Reached[n - 1])  BY <1>4
<1> DEFINE S == {n \in Nat : n <= N => Reached[n] = At(n)}
<1>6. 0 \in S
  <2>1. Reached[0] = Start  BY <1>1, <1>5
  <2> QED BY <2>1
<1>7. \A n \in S : n + 1 \in S
  <2> HIDE DEF At
  <2> SUFFICES ASSUME NEW n \in S, n + 1 <= N PROVE Reached[n + 1] = At(n + 1)
    OBVIOUS
  <2>1. n \in Nat /\ n <= N /\ n + 1 \in 0 .. N /\ n + 1 # 0 /\ (n + 1) - 1 = n /\ n + 1 \in 1 .. N  BY <1>1
  <2>2. Reached[n] = At(n)  BY <2>1
  <2>3. Reached[n + 1] = Follow(Reached[(n + 1) - 1])  BY <1>5, <2>1
  <2>4. Follow(At((n + 1) - 1)) = At(n + 1)  BY <1>2, <2>1
  <2> QED BY <2>1, <2>2, <2>3, <2>4
<1>8. S = Nat
  <2>1. S \in SUBSET Nat  OBVIOUS
  <2> HIDE DEF S
  <2> QED BY <1>6, <1>7, <2>1, Induction
<1>9. \A n \in 0 .. N : Reached[n] = At(n)
  <2> HIDE DEF At
  <2>1. \A n \in 0 .. N : n \in Nat /\ n <= N  BY <1>1
  <2>2. \A n \in Nat : n <= N => Reached[n] = At(n)  BY <1>8
  <2> QED BY <2>1, <2>2
<1> QED BY <1>9

\* The vertices along the edges of a tour are its own, and no other journey in the
\* network has them in this order.
LEMMA TourIsReadOff ==
  ASSUME NEW p \in Tours, ToSet(p) = best
  PROVE  /\ createTour[1] = Root /\ Last(createTour) = Root
         /\ ToSet(createTour) = Vertices
         /\ Arrival(AsPath(createTour)) = Arrival(p)
<1> DEFINE N == Cardinality(Vertices)
<1>1. /\ Chain(p) /\ Len(p) = N /\ N \in Nat \ {0}
      /\ {p[i].source.vertex : i \in 1 .. N} = Vertices
      /\ p[1].source = Start /\ IsEnd(p[N].target) /\ Arrival(p) = p[N].target.time
      /\ \A i \in 1 .. N : p[i] \in TimedEdges
      /\ \A i \in 1 .. N - 1 : p[i].target = p[i + 1].source
  BY ToursAreChains, EdgesOfChain
<1>2. \A n \in 0 .. N : Reached[n] = IF n = 0 THEN Start ELSE p[n].target
  BY <1>1, FollowsTour
<1>3. DOMAIN createTour = 1 .. N + 1 /\ \A n \in 1 .. N + 1 : createTour[n] = Reached[n - 1].vertex
  BY DEF createTour
<1>4. \A n \in 1 .. N : createTour[n] = p[n].source.vertex
  <2> TAKE n \in 1 .. N
  <2>1. n \in 1 .. N + 1 /\ n - 1 \in 0 .. N  BY <1>1
  <2>2. CASE n = 1  BY <1>1, <1>2, <1>3, <2>1, <2>2
  <2>3. CASE n # 1
    <3>1. n - 1 \in 1 .. N - 1 /\ n - 1 # 0 /\ (n - 1) + 1 = n  BY <1>1, <2>3
    <3> QED BY <1>1, <1>2, <1>3, <2>1, <3>1
  <2> QED BY <2>2, <2>3
<1>5. createTour[N + 1] = Root
  <2>1. N + 1 \in 1 .. N + 1 /\ (N + 1) - 1 = N /\ N \in 0 .. N /\ N # 0  BY <1>1
  <2>2. createTour[N + 1] = p[N].target.vertex  BY <1>2, <1>3, <2>1
  <2> QED BY <1>1, <2>2 DEF IsEnd
<1>6. createTour[1] = Root
  <2>1. 1 \in 1 .. N  BY <1>1
  <2> QED BY <1>1, <1>4, <2>1 DEF Start
<1>7. Last(createTour) = Root
  <2>1. createTour = [n \in 1 .. N + 1 |-> Reached[n - 1].vertex] /\ N + 1 \in Nat  BY <1>1 DEF createTour
  <2>2. Len(createTour) = N + 1  BY <2>1
  <2> QED BY <1>5, <2>2 DEF Last
<1>8. ToSet(createTour) = Vertices
  <2>1. ToSet(createTour) = {createTour[n] : n \in 1 .. N + 1}  BY <1>3 DEF ToSet
  <2>2. \A n \in 1 .. N + 1 : n \in 1 .. N \/ n = N + 1  BY <1>1
  <2>3. \A n \in 1 .. N : n \in 1 .. N + 1  BY <1>1
  <2>4. \A n \in 1 .. N + 1 : createTour[n] \in Vertices
    <3>1. Root \in Vertices  BY ExpandedAssumption
    <3> QED BY <1>1, <1>4, <1>5, <2>2, <3>1
  <2>5. \A v \in Vertices : \E n \in 1 .. N + 1 : createTour[n] = v
    BY <1>1, <1>4, <2>3
  <2> QED BY <2>1, <2>4, <2>5
<1> DEFINE q == AsPath(createTour)
<1>9. q \in Tours /\ \A i \in 1 .. Len(q) : q[i].source.vertex = createTour[i]
  <2>1. IsAlong(p, createTour)  BY <1>1, <1>4 DEF IsAlong
  <2> QED BY <2>1 DEF AsPath, IsAlong
<1> HIDE DEF q
<1>10. /\ Chain(q) /\ Len(q) = N /\ q[1].source = Start /\ IsEnd(q[N].target)
       /\ Arrival(q) = q[N].target.time
       /\ \A i \in 1 .. N : q[i] \in TimedEdges
       /\ \A i \in 1 .. N - 1 : q[i].target = q[i + 1].source
  BY <1>9, ToursAreChains, EdgesOfChain
<1>11. \A i \in 1 .. N : q[i].source.vertex = p[i].source.vertex  BY <1>4, <1>9, <1>10
<1>12. \A i \in 1 .. N : q[i].target.vertex = p[i].target.vertex
  <2> TAKE i \in 1 .. N
  <2>1. CASE i = N  BY <1>1, <1>10, <2>1 DEF IsEnd
  <2>2. CASE i # N
    <3>1. i \in 1 .. N - 1 /\ i + 1 \in 1 .. N  BY <1>1, <2>2
    <3> QED BY <1>1, <1>10, <1>11, <3>1
  <2> QED BY <2>1, <2>2
<1>13. \A e, f \in TimedEdges : e.source = f.source /\ e.target.vertex = f.target.vertex => e = f
  BY ExpandedAssumption
<1> DEFINE S == {n \in Nat : n + 1 <= N => q[n + 1] = p[n + 1]}
<1>14. 0 \in S
  <2>1. 1 \in 1 .. N /\ 0 + 1 = 1  BY <1>1
  <2>2. q[1] = p[1]  BY <1>1, <1>10, <1>12, <1>13, <2>1
  <2> QED BY <2>1, <2>2
<1>15. \A n \in S : n + 1 \in S
  <2> SUFFICES ASSUME NEW n \in S, (n + 1) + 1 <= N PROVE q[(n + 1) + 1] = p[(n + 1) + 1]
    OBVIOUS
  <2>1. n + 1 \in 1 .. N - 1 /\ (n + 1) + 1 \in 1 .. N /\ n + 1 <= N  BY <1>1
  <2>2. q[n + 1] = p[n + 1]  BY <2>1
  <2>3. q[(n + 1) + 1].source = p[(n + 1) + 1].source  BY <1>1, <1>10, <2>1, <2>2
  <2> HIDE DEF S
  <2> QED BY <1>1, <1>10, <1>12, <1>13, <2>1, <2>3
<1>16. S = Nat
  <2>1. S \in SUBSET Nat  OBVIOUS
  <2> HIDE DEF S
  <2> QED BY <1>14, <1>15, <2>1, Induction
<1>17. q[N] = p[N]
  <2>1. N - 1 \in Nat /\ (N - 1) + 1 = N /\ N <= N  BY <1>1
  <2>2. \A n \in Nat : n + 1 <= N => q[n + 1] = p[n + 1]  BY <1>16
  <2> HIDE DEF S, N
  <2>3. q[(N - 1) + 1] = p[(N - 1) + 1]  BY <2>1, <2>2
  <2> QED BY <2>1, <2>3
<1> QED BY <1>1, <1>6, <1>7, <1>8, <1>10, <1>17 DEF q

\* Whatever the rows admit is one tour from the start, and so is what a heuristic
\* offers; createTour reads it off, and it arrives when the solution says.
THEOREM SolutionsAreTours == Spec => []SolutionIsTour
<1>1. TInv => SolutionIsTour
  <2> SUFFICES ASSUME TInv, best # {}
               PROVE  /\ \E p \in Tours : ToSet(p) = best
                      /\ createTour[1] = Root /\ Last(createTour) = Root
                      /\ ToSet(createTour) = Vertices
                      /\ Arrival(AsPath(createTour)) = upper
    BY DEF SolutionIsTour
  <2>1. PICK p \in Tours : ToSet(p) = best  BY DEF TInv, BestIsTour
  <2>2. upper = Arrival(p)  BY <2>1, CostOfTour DEF upper
  <2> QED BY <2>1, <2>2, TourIsReadOff
<1> QED BY <1>1, ToursInit, ToursNext, PTL DEF Spec

-----------------------------------------------------------------------------
(* Fixings.                                                                *)

\* A fixed edge comes back too early for any tour, or arrives when the best one
\* known is back.
FInv ==
  /\ TInv /\ fixed \subseteq TimedEdges
  /\ lower \in Nat /\ \A p \in Tours : lower <= Arrival(p)
  /\ \A e \in fixed : (IsEnd(e.target) /\ e.target.time < lower) \/ upper <= e.target.time

LEMMA UpperIsNumber ==
  ASSUME BestIsTour
  PROVE  upper \in Nat
<1>1. Inf \in Nat  BY ExpandedAssumption
<1>2. ASSUME best # {} PROVE Cost(best) \in Nat
  <2>1. PICK p \in Tours : ToSet(p) = best  BY <1>2 DEF BestIsTour
  <2> QED BY <2>1, CostOfTour
<1> QED BY <1>1, <1>2 DEF upper

\* Only what is cheaper than the best solution replaces it.
LEMMA UpperFalls ==
  ASSUME BestIsTour, NEW sets, AddSolution(sets), \A s \in sets : \E p \in Tours : ToSet(p) = s
  PROVE  upper' <= upper
<1>1. upper \in Nat  BY UpperIsNumber
<1>2. CASE UNCHANGED best
  BY <1>1, <1>2 DEF upper
<1>3. CASE \E s \in sets : Cost(s) < upper /\ best' = s
  <2>1. PICK s \in sets : Cost(s) < upper /\ best' = s  BY <1>3
  <2>2. PICK p \in Tours : ToSet(p) = s  OBVIOUS
  <2>3. s # {} /\ Cost(s) \in Nat  BY <2>2, CostOfTour
  <2>4. upper' = Cost(s)  BY <2>1, <2>3 DEF upper
  <2> QED BY <1>1, <2>1, <2>3, <2>4
<1> QED BY <1>2, <1>3 DEF AddSolution

LEMMA FixingsInit == Init => FInv
<1> SUFFICES ASSUME Init PROVE FInv
  OBVIOUS
<1>1. TInv  BY ToursInit
<1>2. fixed = {} /\ lower = 0  BY DEF Init
<1>3. \A p \in Tours : Arrival(p) \in Nat  BY CostOfTour
<1>4. \A p \in Tours : lower <= Arrival(p)  BY <1>2, <1>3
<1> QED BY <1>1, <1>2, <1>4 DEF FInv

\* What is fixed stays right when the bounds close in.
LEMMA FixingsStay ==
  ASSUME FInv, TInv', fixed' \subseteq fixed, upper' <= upper,
         lower' \in Nat, lower <= lower', \A p \in Tours : lower' <= Arrival(p)
  PROVE  FInv'
<1>1. upper \in Nat /\ upper' \in Nat
  <2>1. BestIsTour /\ BestIsTour'  BY DEF FInv, TInv
  <2>2. upper \in Nat  BY <2>1, UpperIsNumber
  <2>3. (BestIsTour => upper \in Nat)'  BY UpperIsNumber, PTL
  <2> QED BY <2>1, <2>2, <2>3
<1>2. \A e \in TimedEdges : e.target.time \in Nat  BY NetworkAssumption DEF IsNetwork
<1>3. ASSUME NEW e \in fixed'
      PROVE  (IsEnd(e.target) /\ e.target.time < lower') \/ upper' <= e.target.time
  <2>1. e \in fixed /\ e \in TimedEdges  BY DEF FInv
  <2>2. (IsEnd(e.target) /\ e.target.time < lower) \/ upper <= e.target.time  BY <2>1 DEF FInv
  <2>3. e.target.time \in Nat /\ lower \in Nat  BY <1>2, <2>1 DEF FInv
  <2> QED BY <1>1, <2>2, <2>3
<1>4. fixed' \subseteq TimedEdges  BY DEF FInv
<1> QED BY <1>3, <1>4 DEF FInv

LEMMA FixingsNext == FInv /\ [Next]_vars => FInv'
<1> SUFFICES ASSUME FInv, [Next]_vars PROVE FInv'
  OBVIOUS
<1>1. TInv'  BY ToursNext DEF FInv
<1>2. TInv /\ BestIsTour /\ RInv /\ variables \subseteq TimedEdges /\ lower \in Nat
      /\ \A p \in Tours : lower <= Arrival(p)
  BY DEF FInv, TInv
<1>3. upper \in Nat  BY <1>2, UpperIsNumber
<1>4. ASSUME UNCHANGED <<lower, fixed>>, upper' <= upper PROVE FInv'
  BY <1>1, <1>2, <1>4, FixingsStay
<1>5. ASSUME UNCHANGED best PROVE upper' = upper  BY <1>5 DEF upper
<1>6. ASSUME UNCHANGED <<best, lower, fixed>> PROVE FInv'  BY <1>3, <1>4, <1>5, <1>6
<1>7. CASE scip_farkas
  <2>1. upper' <= upper  BY <1>2, <1>7, InitialTourIsTour, UpperFalls DEF scip_farkas
  <2> QED BY <1>4, <1>7, <2>1 DEF scip_farkas
<1>8. CASE PricePaths
  <2>1. PICK n \in 1 .. numPaths : \E result \in [1 .. n -> PathsInWindow] :
          AddSolution({ToSet(p) : p \in {p \in ToSet(result) : isTour(p)}})
    BY <1>8 DEF PricePaths
  <2>2. PICK result \in [1 .. n -> PathsInWindow] :
          AddSolution({ToSet(p) : p \in {p \in ToSet(result) : isTour(p)}})
    BY <2>1
  <2>3. upper' <= upper  BY <1>2, <2>2, PricedPathsAreWalks, UpperFalls
  <2> QED BY <1>4, <1>8, <2>3 DEF PricePaths
<1>9. CASE Heuristic
  <2>1. PICK p \in Tours : AddSolution({ToSet(p)})  BY <1>9 DEF Heuristic
  <2>2. upper' <= upper  BY <1>2, <2>1, UpperFalls
  <2> QED BY <1>4, <1>9, <2>2 DEF Heuristic
<1>10. CASE Solution
  <2>1. PICK set \in Covering : Feasible(set) /\ AddSolution({set})  BY <1>10 DEF Solution
  <2>2. \E p \in Tours : ToSet(p) = set  BY <1>2, <2>1, AdmittedSetsAreTours
  <2>3. upper' <= upper  BY <1>2, <2>1, <2>2, UpperFalls
  <2> QED BY <1>4, <1>10, <2>3 DEF Solution
<1>11. CASE Propagate
  <2>1. UNCHANGED <<best, lower>> /\ upper' = upper  BY <1>5, <1>11 DEF Propagate
  <2>2. ASSUME NEW e \in fixed'
        PROVE  e \in TimedEdges /\ ((IsEnd(e.target) /\ e.target.time < lower) \/ upper <= e.target.time)
    <3>1. CASE e \in fixed  BY <3>1 DEF FInv
    <3>2. CASE e \in propagateDualBound  BY <1>2, <3>2 DEF propagateDualBound
    <3>3. CASE e \in propagatePrimalBound
      <4>1. e \in variables /\ e.target.time >= upper  BY <3>3 DEF propagatePrimalBound
      <4>2. e \in TimedEdges /\ e.target.time \in Nat  BY <1>2, <4>1, NetworkAssumption DEF IsNetwork
      <4> QED BY <1>3, <4>1, <4>2
    <3> QED BY <1>11, <3>1, <3>2, <3>3 DEF Propagate
  <2> QED BY <1>1, <1>2, <2>1, <2>2 DEF FInv
<1>12. CASE RaiseLower
  <2>1. PICK x \in LowerBounds : lower < x /\ lower' = x /\ \A p \in Tours : x <= Arrival(p)
    BY <1>12 DEF RaiseLower
  <2>2. x \in Nat  BY ExpandedAssumption
  <2>3. UNCHANGED <<best, fixed>> /\ upper' <= upper  BY <1>3, <1>5, <1>12 DEF RaiseLower
  <2> QED BY <1>1, <1>2, <2>1, <2>2, <2>3, FixingsStay
<1>13. CASE NextNode
  <2>1. fixed' \subseteq fixed /\ UNCHANGED <<best, lower>>  BY <1>13 DEF NextNode
  <2>2. upper' <= upper /\ lower' \in Nat /\ lower <= lower' /\ \A p \in Tours : lower' <= Arrival(p)
    BY <1>2, <1>3, <1>5, <2>1
  <2> QED BY <1>1, <2>1, <2>2, FixingsStay
<1>14. CASE PriceEdges  BY <1>6, <1>14 DEF PriceEdges
<1>15. CASE Separate  BY <1>6, <1>15 DEF Separate
<1>16. CASE UNCHANGED vars  BY <1>6, <1>16 DEF vars
<1> QED BY <1>7, <1>8, <1>9, <1>10, <1>11, <1>12, <1>13, <1>14, <1>15, <1>16 DEF Next

\* A tour that is better than the best one known has no edge that is fixed: it comes
\* back only with its last edge, at its arrival.
THEOREM FixingsAlwaysKeepBetterTours == Spec => []FixingsKeepBetterTours
<1>1. ASSUME FInv, NEW p \in Tours, Arrival(p) < upper, NEW e \in ToSet(p), e \in fixed
      PROVE  FALSE
  <2>1. /\ Chain(p) /\ Len(p) \in Nat \ {0} /\ Arrival(p) = p[Len(p)].target.time
        /\ ToSet(p) = {p[i] : i \in 1 .. Len(p)}
    BY ToursAreChains
  <2>2. /\ \A i \in 1 .. Len(p) : /\ p[i].source.time \in Nat /\ p[i].target.time \in Nat
                                  /\ p[i].source.time < p[i].target.time
                                  /\ ~ IsEnd(p[i].source)
        /\ \A i \in 1 .. Len(p) - 1 : p[i].target = p[i + 1].source
    BY <2>1, EdgesOfChain
  <2>3. PICK i \in 1 .. Len(p) : e = p[i]  BY <2>1
  <2>4. lower <= Arrival(p) /\ lower \in Nat /\ upper \in Nat
    BY <1>1, UpperIsNumber DEF FInv, TInv
  <2>5. CASE IsEnd(e.target) /\ e.target.time < lower
    <3>1. CASE i = Len(p)  BY <2>1, <2>2, <2>3, <2>4, <2>5, <3>1
    <3>2. CASE i # Len(p)
      <4>1. i \in 1 .. Len(p) - 1 /\ i + 1 \in 1 .. Len(p)  BY <2>1, <3>2
      <4> QED BY <2>2, <2>3, <2>5, <4>1
    <3> QED BY <3>1, <3>2
  <2>6. CASE upper <= e.target.time
    <3>1. Len(p) \in 1 .. Len(p)  BY <2>1
    <3>2. i # Len(p) => p[i].target.time <= p[Len(p)].source.time  BY <2>1, <3>1, TimePasses
    <3>3. e.target.time <= Arrival(p)  BY <2>1, <2>2, <2>3, <3>1, <3>2
    <3>4. e.target.time \in Nat /\ Arrival(p) \in Nat  BY <2>1, <2>2, <2>3, <3>1
    <3> QED BY <1>1, <2>4, <2>6, <3>3, <3>4
  <2> QED BY <1>1, <2>5, <2>6 DEF FInv
<1>2. FInv => FixingsKeepBetterTours  BY <1>1 DEF FixingsKeepBetterTours
<1> QED BY <1>2, FixingsInit, FixingsNext, PTL DEF Spec

-----------------------------------------------------------------------------
(* Tours, once more.                                                       *)

\* One leaves every vertex once, and enters every vertex once: the source at last.
LEMMA TourShape ==
  ASSUME NEW p \in Tours
  PROVE  /\ Chain(p) /\ Len(p) \in Nat \ {0} /\ ToSet(p) = {p[i] : i \in 1 .. Len(p)}
         /\ p[1].source = Start /\ p[Len(p)].target.vertex = Root
         /\ \A i \in 1 .. Len(p) : p[i].source.vertex \in Vertices /\ p[i].target.vertex \in Vertices
         /\ \A v \in Vertices : \E i \in 1 .. Len(p) : p[i].source.vertex = v
         /\ \A i, j \in 1 .. Len(p) : p[i].source.vertex = p[j].source.vertex => i = j
         /\ \A i, j \in 1 .. Len(p) : p[i].target.vertex = p[j].target.vertex => i = j
         /\ \A i \in 1 .. Len(p) : p[i].target.vertex = Root => i = Len(p)
         /\ \A i \in 1 .. Len(p) - 1 : p[i].target = p[i + 1].source
<1> DEFINE N == Len(p)
<1>1. /\ Chain(p) /\ N \in Nat \ {0} /\ N = Cardinality(Vertices)
      /\ {p[i].source.vertex : i \in 1 .. N} = Vertices
      /\ p[1].source = Start /\ IsEnd(p[N].target)
      /\ ToSet(p) = {p[i] : i \in 1 .. N}
  BY ToursAreChains
<1>2. p[N].target.vertex = Root /\ p[1].source.vertex = Root  BY <1>1 DEF IsEnd, Start
<1>3. /\ \A i \in 1 .. N : p[i].source \in TimedVertices /\ p[i].target \in TimedVertices
      /\ \A i \in 1 .. N - 1 : p[i].target = p[i + 1].source
  BY <1>1, EdgesOfChain
<1>4. \A i \in 1 .. N : p[i].source.vertex \in Vertices /\ p[i].target.vertex \in Vertices
  BY <1>3, ExpandedAssumption
<1>5. \A v \in Vertices : \E i \in 1 .. N : p[i].source.vertex = v  BY <1>1
<1>6. \A i, j \in 1 .. N : p[i].source.vertex = p[j].source.vertex => i = j
  <2> DEFINE f == [i \in 1 .. N |-> p[i].source.vertex]
  <2>1. f \in Surjection(1 .. N, Vertices)  BY <1>4, <1>5 DEF Surjection
  <2>2. IsFiniteSet(1 .. N) /\ Cardinality(1 .. N) = Cardinality(Vertices)  BY <1>1, FS_Interval
  <2>3. f \in Injection(1 .. N, Vertices)
    <3> HIDE DEF f
    <3> QED BY <2>1, <2>2, FS_SurjSameCardinalityImpliesInj
  <2>4. \A i, j \in 1 .. N : f[i] = f[j] => i = j
    <3> HIDE DEF f
    <3> QED BY <2>3 DEF Injection, IsInjective
  <2> QED BY <2>4
<1>7. \A i \in 1 .. N : p[i].target.vertex = Root => i = N
  <2> SUFFICES ASSUME NEW i \in 1 .. N, p[i].target.vertex = Root, i # N PROVE FALSE
    OBVIOUS
  <2>1. i \in 1 .. N - 1 /\ i + 1 \in 1 .. N /\ 1 \in 1 .. N /\ i + 1 # 1  BY <1>1
  <2>2. p[i + 1].source.vertex = p[1].source.vertex  BY <1>2, <1>3, <2>1
  <2> QED BY <1>6, <2>1, <2>2
<1>8. \A i, j \in 1 .. N : p[i].target.vertex = p[j].target.vertex => i = j
  <2> SUFFICES ASSUME NEW i \in 1 .. N, NEW j \in 1 .. N, p[i].target.vertex = p[j].target.vertex
               PROVE  i = j
    OBVIOUS
  <2>1. CASE p[i].target.vertex = Root  BY <1>7, <2>1
  <2>2. CASE p[i].target.vertex # Root
    <3>1. i # N /\ j # N  BY <1>2, <2>2
    <3>2. i \in 1 .. N - 1 /\ j \in 1 .. N - 1 /\ i + 1 \in 1 .. N /\ j + 1 \in 1 .. N  BY <1>1, <3>1
    <3>3. p[i + 1].source.vertex = p[j + 1].source.vertex  BY <1>3, <3>2
    <3>4. i + 1 = j + 1  BY <1>6, <3>2, <3>3
    <3> QED BY <3>2, <3>4
  <2> QED BY <2>1, <2>2
<1> QED BY <1>1, <1>2, <1>3, <1>4, <1>5, <1>6, <1>7, <1>8

\* Whoever starts in a set and ends elsewhere leaves it, a first time.
LEMMA FirstExit ==
  ASSUME NEW p, Chain(p), NEW s, NEW a \in 1 .. Len(p), NEW b \in a .. Len(p),
         p[a].source \in s, p[b].target \notin s
  PROVE  \E i \in a .. b : /\ p[i].source \in s /\ p[i].target \notin s
                           /\ \A j \in a .. i : p[j].source \in s
<1>1. Len(p) \in Nat /\ \A i \in 1 .. Len(p) - 1 : p[i].target = p[i + 1].source  BY EdgesOfChain
<1> DEFINE Out == {i \in a .. b : p[i].target \notin s}
<1>2. Out \in SUBSET Nat /\ Out # {}  BY <1>1
<1>3. PICK i \in Out : \A j \in Out : i <= j
  <2> HIDE DEF Out
  <2> QED BY <1>2, LeastExists
<1>4. \A j \in a .. i : p[j].source \in s
  <2> SUFFICES ASSUME NEW j \in a .. i, j # a PROVE p[j].source \in s
    OBVIOUS
  <2>1. j - 1 \in a .. b /\ ~ (i <= j - 1) /\ j - 1 \in 1 .. Len(p) - 1 /\ (j - 1) + 1 = j  BY <1>1
  <2>2. p[j - 1].target \in s  BY <1>3, <2>1
  <2> QED BY <1>1, <2>1, <2>2
<1>5. i \in a .. i  BY <1>1
<1> QED BY <1>4, <1>5

\* The part of the time-expanded graph over a set of vertices.
Over(vertices) == {v \in TimedVertices : v.vertex \in vertices}

\* There are no subtours.
LEMMA EverySetIsLeft ==
  ASSUME NEW p \in Tours, NEW s \in SUBSET Vertices, s # {}, s # Vertices
  PROVE  \E i \in 1 .. Len(p) : p[i].source.vertex \in s /\ p[i].target.vertex \notin s
<1>1. /\ Chain(p) /\ Len(p) \in Nat \ {0} /\ p[1].source.vertex = Root /\ p[Len(p)].target.vertex = Root
      /\ \A i \in 1 .. Len(p) - 1 : p[i].target = p[i + 1].source
      /\ \A v \in Vertices : \E i \in 1 .. Len(p) : p[i].source.vertex = v
      /\ \A i \in 1 .. Len(p) : p[i].source \in TimedVertices /\ p[i].target \in TimedVertices
  BY TourShape, EdgesOfChain DEF Start
<1>2. ASSUME NEW a \in 1 .. Len(p), NEW b \in a .. Len(p), p[a].source.vertex \in s, p[b].target.vertex \notin s
      PROVE  \E i \in 1 .. Len(p) : p[i].source.vertex \in s /\ p[i].target.vertex \notin s
  <2>1. p[a].source \in Over(s) /\ p[b].target \notin Over(s)  BY <1>1, <1>2 DEF Over
  <2>2. PICK i \in a .. b : p[i].source \in Over(s) /\ p[i].target \notin Over(s)
    BY <1>1, <2>1, FirstExit
  <2>3. i \in 1 .. Len(p)  BY <1>1
  <2> QED BY <1>1, <2>2, <2>3 DEF Over
<1>3. 1 \in 1 .. Len(p) /\ Len(p) \in 1 .. Len(p)  BY <1>1
<1>4. CASE Root \in s
  <2>1. PICK v \in Vertices : v \notin s  OBVIOUS
  <2>2. PICK i \in 1 .. Len(p) : p[i].source.vertex = v  BY <1>1
  <2>3. i - 1 \in 1 .. Len(p) /\ p[i - 1].target = p[i].source
    <3>1. i # 1  BY <1>1, <1>4, <2>1, <2>2
    <3>2. i - 1 \in 1 .. Len(p) - 1 /\ (i - 1) + 1 = i  BY <1>1, <3>1
    <3>3. p[i - 1].target = p[(i - 1) + 1].source  BY <1>1, <3>2
    <3>4. i - 1 \in 1 .. Len(p)  BY <1>1, <3>2
    <3> QED BY <3>2, <3>3, <3>4
  <2> QED BY <1>1, <1>2, <1>3, <1>4, <2>1, <2>2, <2>3
<1>5. CASE Root \notin s
  <2>1. PICK v \in s : v \in Vertices  OBVIOUS
  <2>2. PICK i \in 1 .. Len(p) : p[i].source.vertex = v  BY <1>1, <2>1
  <2>3. Len(p) \in i .. Len(p)  BY <1>1
  <2> QED BY <1>1, <1>2, <1>5, <2>2, <2>3
<1> QED BY <1>4, <1>5

-----------------------------------------------------------------------------
(* What a set of edges adds up to in a cut.                                *)

Value(cut, S) == MapThenSumSet(LAMBDA e : dual(cut, e), S)

LEMMA ValueIsSum ==
  ASSUME NEW S, IsFiniteSet(S), NEW cut, \A e \in S : dual(cut, e) \in Int
  PROVE  \E g : HasSums(g, [e \in S |-> dual(cut, e)], S) /\ Value(cut, S) = g[S]
<1> DEFINE f == [e \in S |-> dual(cut, e)]
           Values(g) == g = [s \in SUBSET S |-> IF s = {} THEN 0 ELSE dual(cut, First(s)) + g[s \ {First(s)}]]
<1>1. f \in [S -> Int]  OBVIOUS
<1>2. Value(cut, S) = (CHOOSE g : Values(g))[S]
  BY DEF Value, MapThenSumSet, MapThenFoldSet, First
<1>3. \A s \in SUBSET S : s # {} => First(s) \in S /\ f[First(s)] = dual(cut, First(s))
  BY DEF First
<1>4. \A g : Values(g) <=> Sums(g, f, S)
  <2> TAKE g
  <2>1. [s \in SUBSET S |-> IF s = {} THEN 0 ELSE f[First(s)] + g[s \ {First(s)}]]
          = [s \in SUBSET S |-> IF s = {} THEN 0 ELSE dual(cut, First(s)) + g[s \ {First(s)}]]
    <3> HIDE DEF f
    <3> QED BY <1>3
  <2> HIDE DEF f
  <2> QED BY <2>1 DEF Sums
<1> HIDE DEF f, Values
<1>5. (CHOOSE g : Values(g)) = (CHOOSE g : Sums(g, f, S))
  BY <1>4
<1>6. HasSums(CHOOSE g : Sums(g, f, S), f, S)
  BY <1>1, SumsAre
<1> QED BY <1>2, <1>5, <1>6 DEF f

\* The sums over what is left without some element.
LEMMA SumWithout ==
  ASSUME NEW S, IsFiniteSet(S), NEW f \in [S -> Int], NEW g, HasSums(g, f, S), NEW x \in S
  PROVE  HasSums([s \in SUBSET (S \ {x}) |-> g[s]], [y \in S \ {x} |-> f[y]], S \ {x})
<1>1. \A s \in SUBSET (S \ {x}) : s \in SUBSET S /\ (s # {} => First(s) \in S \ {x} /\ s \ {First(s)} \in SUBSET (S \ {x}))
  BY DEF First
<1>2. g \in [SUBSET S -> Int] /\ \A s \in SUBSET S : g[s] = IF s = {} THEN 0 ELSE f[First(s)] + g[s \ {First(s)}]
  BY DEF HasSums
<1>3. [s \in SUBSET (S \ {x}) |-> g[s]] \in [SUBSET (S \ {x}) -> Int]  BY <1>1, <1>2
<1> QED BY <1>1, <1>2, <1>3 DEF HasSums

\* If only one element can be negative then the sum is no less than it and any other.
LEMMA SumOfTwo ==
  ASSUME NEW S, IsFiniteSet(S), NEW f \in [S -> Int], NEW g, HasSums(g, f, S),
         NEW x \in S, \A z \in S \ {x} : 0 <= f[z], NEW y \in S \ {x}
  PROVE  f[x] + f[y] <= g[S]
<1> DEFINE R == S \ {x}
           h == [z \in R |-> f[z]]
           k == [s \in SUBSET R |-> g[s]]
<1>1. HasSums(k, h, R)  BY SumWithout
<1>2. IsFiniteSet(R) /\ h \in [R -> Int] /\ \A z \in R : 0 <= h[z]  BY FS_RemoveElement
<1>3. h[y] <= k[R]
  <2>1. y \in R /\ R \in SUBSET R  OBVIOUS
  <2> HIDE DEF h, k, R
  <2> QED BY <1>1, <1>2, <2>1, SumIsAtLeast
<1>4. h[y] = f[y] /\ k[R] = g[S \ {x}]  OBVIOUS
<1>5. g[S] = f[x] + g[S \ {x}]
  <2>1. InAnyOrder(g, f, S)  BY SumInAnyOrder
  <2> QED BY <2>1 DEF InAnyOrder
<1>6. f[x] \in Int /\ f[y] \in Int /\ g[S \ {x}] \in Int
  BY DEF HasSums
<1> HIDE DEF h, k, R
<1> QED BY <1>3, <1>4, <1>5, <1>6

\* A sum of zeros, ones and twos.
LEMMA SumIsCount ==
  ASSUME NEW S, IsFiniteSet(S), NEW f \in [S -> 0 .. 2], NEW g, HasSums(g, f, S)
  PROVE  g[S] = Cardinality({x \in S : f[x] # 0}) + Cardinality({x \in S : f[x] = 2})
<1> DEFINE Some(s) == {x \in s : f[x] # 0}
           Twos(s) == {x \in s : f[x] = 2}
           T == {s \in SUBSET S : g[s] # Cardinality(Some(s)) + Cardinality(Twos(s))}
<1>1. g \in [SUBSET S -> Int] /\ g[{}] = 0  BY DEF HasSums
<1>2. InAnyOrder(g, f, S)
  <2>1. f \in [S -> Int]  OBVIOUS
  <2> QED BY <2>1, SumInAnyOrder
<1> SUFFICES ASSUME T # {} PROVE FALSE
  OBVIOUS
<1>3. PICK s \in T : \A t \in SUBSET s : t # s => t \notin T
  <2>1. T \in SUBSET SUBSET S  OBVIOUS
  <2> HIDE DEF T, Some, Twos
  <2> QED BY <2>1, LeastSubsetExists, SMTT(30)
<1>4. s \in SUBSET S /\ g[s] # Cardinality(Some(s)) + Cardinality(Twos(s))  OBVIOUS
<1>5. s # {}
  <2>1. Some({}) = {} /\ Twos({}) = {}  OBVIOUS
  <2>2. Cardinality(Some({})) + Cardinality(Twos({})) = 0  BY <2>1, FS_EmptySet
  <2> HIDE DEF Some, Twos, T
  <2> QED BY <1>1, <1>4, <2>2
<1>6. PICK y \in s : TRUE  BY <1>5
<1> DEFINE r == s \ {y}
<1>7. g[r] = Cardinality(Some(r)) + Cardinality(Twos(r))
  <2>1. r \in SUBSET s /\ r # s /\ r \in SUBSET S  BY <1>4, <1>6
  <2> HIDE DEF r
  <2> QED BY <1>3, <2>1
<1>8. g[s] = f[y] + g[r] /\ f[y] \in 0 .. 2  BY <1>2, <1>4, <1>6 DEF InAnyOrder
<1>9. /\ IsFiniteSet(Some(r)) /\ IsFiniteSet(Twos(r)) /\ y \notin Some(r) /\ y \notin Twos(r)
      /\ Cardinality(Some(r)) \in Nat /\ Cardinality(Twos(r)) \in Nat
  <2>1. Some(r) \in SUBSET S /\ Twos(r) \in SUBSET S  BY <1>4
  <2>2. y \notin Some(r) /\ y \notin Twos(r)  OBVIOUS
  <2> HIDE DEF Some, Twos, r
  <2> QED BY <2>1, <2>2, FS_Subset, FS_CardinalityType
<1>10. /\ Some(s) = IF f[y] = 0 THEN Some(r) ELSE Some(r) \cup {y}
       /\ Twos(s) = IF f[y] = 2 THEN Twos(r) \cup {y} ELSE Twos(r)
  BY <1>6
<1> HIDE DEF Some, Twos, T, r
<1>11. /\ Cardinality(Some(r) \cup {y}) = Cardinality(Some(r)) + 1
       /\ Cardinality(Twos(r) \cup {y}) = Cardinality(Twos(r)) + 1
  BY <1>9, FS_AddElement
<1>12. CASE f[y] = 0  BY <1>4, <1>7, <1>8, <1>9, <1>10, <1>12
<1>13. CASE f[y] = 1  BY <1>4, <1>7, <1>8, <1>9, <1>10, <1>11, <1>13
<1>14. CASE f[y] = 2  BY <1>4, <1>7, <1>8, <1>9, <1>10, <1>11, <1>14
<1> QED BY <1>8, <1>12, <1>13, <1>14

\* A set without two, or three, different elements.
LEMMA AtMostOne ==
  ASSUME NEW S, IsFiniteSet(S), \A x, y \in S : x = y
  PROVE  Cardinality(S) <= 1
<1>1. S = {} \/ \E x : S = {x}  OBVIOUS
<1> QED BY <1>1, FS_EmptySet, FS_Singleton

LEMMA AtMostTwo ==
  ASSUME NEW S, IsFiniteSet(S), \A x, y, z \in S : x = y \/ x = z \/ y = z
  PROVE  Cardinality(S) <= 2
<1>1. CASE S = {}  BY <1>1, FS_EmptySet
<1>2. CASE S # {}
  <2>1. PICK x \in S : TRUE  BY <1>2
  <2>2. IsFiniteSet(S \ {x}) /\ Cardinality(S \ {x}) = Cardinality(S) - 1  BY <2>1, FS_RemoveElement
  <2>3. \A y, z \in S \ {x} : y = z  BY <2>1
  <2>4. Cardinality(S \ {x}) <= 1  BY <2>2, <2>3, AtMostOne
  <2>5. Cardinality(S) \in Nat  BY FS_CardinalityType
  <2> QED BY <2>2, <2>4, <2>5
<1> QED BY <1>1, <1>2

LEMMA EdgesOfTour ==
  ASSUME NEW p \in Tours
  PROVE  IsFiniteSet(ToSet(p)) /\ ToSet(p) \subseteq TimedEdges
<1>1. ToSet(p) \subseteq TimedEdges /\ IsFiniteSet(TimedEdges)  BY ToursAreChains, ExpandedAssumption
<1> QED BY <1>1, FS_Subset

-----------------------------------------------------------------------------
(* The families.                                                           *)

LEMMA KeepsToursIf ==
  ASSUME NEW c, \A p \in Tours : Admits(c, Value(c, ToSet(p)))
  PROVE  KeepsTours(c)
BY DEF KeepsTours, Value

\* At least one edge counts, none against the others.
LEMMA SomeEdgeCounts ==
  ASSUME NEW S, IsFiniteSet(S), NEW c, \A e \in S : dual(c, e) \in {0, 1},
         NEW e \in S, dual(c, e) = 1
  PROVE  Value(c, S) >= 1
<1> DEFINE f == [d \in S |-> dual(c, d)]
<1>1. PICK g : HasSums(g, f, S) /\ Value(c, S) = g[S]
  <2>1. \A d \in S : dual(c, d) \in Int  OBVIOUS
  <2> QED BY <2>1, ValueIsSum
<1>2. f \in [S -> Int] /\ (\A d \in S : 0 <= f[d]) /\ f[e] = 1  OBVIOUS
<1> HIDE DEF f
<1>3. f[e] <= g[S]  BY <1>1, <1>2, SumIsAtLeast
<1>4. g[S] \in Int  BY <1>1 DEF HasSums
<1> QED BY <1>1, <1>2, <1>3, <1>4

\* Who takes the incoming edge takes another one that counts.
LEMMA AnotherEdgeCounts ==
  ASSUME NEW S, IsFiniteSet(S), NEW c, NEW in, \A e \in S \ {in} : dual(c, e) \in Nat,
         in \in S => /\ dual(c, in) \in Int /\ 0 - 1 <= dual(c, in)
                     /\ \E e \in S \ {in} : 1 <= dual(c, e)
  PROVE  Value(c, S) >= 0
<1> DEFINE f == [d \in S |-> dual(c, d)]
<1>1. f \in [S -> Int] /\ \A d \in S : dual(c, d) \in Int  OBVIOUS
<1>2. PICK g : HasSums(g, f, S) /\ Value(c, S) = g[S]
  BY <1>1, ValueIsSum
<1>3. g[S] \in Int  BY <1>2 DEF HasSums
<1>4. \A d \in S \ {in} : f[d] \in Nat /\ f[d] = dual(c, d)  OBVIOUS
<1>5. CASE in \in S
  <2>1. PICK e \in S \ {in} : 1 <= dual(c, e)  BY <1>5
  <2>2. f[in] \in Int /\ 0 - 1 <= f[in] /\ f[e] \in Nat /\ 1 <= f[e]  BY <1>5, <2>1
  <2> HIDE DEF f
  <2>3. f[in] + f[e] <= g[S]  BY <1>1, <1>2, <1>4, <1>5, SumOfTwo
  <2> QED BY <1>2, <1>3, <2>2, <2>3
<1>6. CASE in \notin S
  <2>1. \A d \in S : 0 <= f[d]  BY <1>4, <1>6
  <2> HIDE DEF f
  <2>2. 0 <= g[S]  BY <1>1, <1>2, <2>1, SumIsAtLeast
  <2> QED BY <1>2, <1>3, <2>2
<1> QED BY <1>5, <1>6

\* As many edges count as there are.
LEMMA CountOfEdges ==
  ASSUME NEW S, IsFiniteSet(S), NEW c, \A e \in S : dual(c, e) \in {0, 1}
  PROVE  LET Counted == {e \in S : dual(c, e) = 1}
         IN  IsFiniteSet(Counted) /\ Value(c, S) = Cardinality(Counted)
<1> DEFINE f == [d \in S |-> dual(c, d)]
           Counted == {e \in S : dual(c, e) = 1}
<1>1. f \in [S -> 0 .. 2]  OBVIOUS
<1>2. PICK g : HasSums(g, f, S) /\ Value(c, S) = g[S]
  <2>1. \A d \in S : dual(c, d) \in Int  OBVIOUS
  <2> QED BY <2>1, ValueIsSum
<1>3. {e \in S : f[e] # 0} = Counted /\ {e \in S : f[e] = 2} = {}  OBVIOUS
<1>4. IsFiniteSet(Counted)  BY FS_Subset
<1> HIDE DEF f, Counted
<1>5. g[S] = Cardinality({x \in S : f[x] # 0}) + Cardinality({x \in S : f[x] = 2})
  BY <1>1, <1>2, SumIsCount
<1>6. g[S] = Cardinality(Counted) + 0  BY <1>3, <1>5, FS_EmptySet
<1>7. Cardinality(Counted) \in Nat  BY <1>4, FS_CardinalityType
<1> QED BY <1>2, <1>4, <1>6, <1>7 DEF Counted

LEMMA SubtoursKeepTours ==
  ASSUME NEW c \in Subtours
  PROVE  KeepsTours(c)
<1>1. PICK s \in (SUBSET Vertices) \ {{}, Vertices} : c = [kind |-> "subtour", set |-> s]
  BY DEF Subtours
<1>2. \A e : dual(c, e) = One(leaves(arc(e), s))
  BY <1>1 DEF dual, addDualCosts, subtourDual
<1>3. ASSUME NEW p \in Tours PROVE Admits(c, Value(c, ToSet(p)))
  <2>1. PICK i \in 1 .. Len(p) : p[i].source.vertex \in s /\ p[i].target.vertex \notin s
    BY <1>1, EverySetIsLeft
  <2>2. p[i] \in ToSet(p) /\ dual(c, p[i]) = 1
    BY <1>2, <2>1, ToursAreChains DEF One, leaves, arc
  <2>3. \A e \in ToSet(p) : dual(c, e) \in {0, 1}  BY <1>2 DEF One
  <2>4. Value(c, ToSet(p)) >= 1  BY <2>2, <2>3, EdgesOfTour, SomeEdgeCounts
  <2> QED BY <1>1, <2>4 DEF Admits
<1> QED BY <1>3, KeepsToursIf

\* Two edges of a tour among three vertices, none of them the source, follow each other.
LEMMA OddPathFreesKeepTours ==
  ASSUME NEW c \in OddPathFrees(TimedEdges)
  PROVE  KeepsTours(c)
<1> DEFINE Among(t) == {e \in TimedEdges : e.source.vertex \in t /\ e.target.vertex \in t}
           Sets(t) == {s \in (SUBSET Among(t)) \ {{}} : pathFree(s)}
<1>0. PICK t \in kSubset(3, Vertices \ {Root}) : \E s \in Sets(t) : c = [kind |-> "pathFree", edges |-> s]
  BY DEF OddPathFrees
<1>1. PICK s \in Sets(t) : c = [kind |-> "pathFree", edges |-> s]  BY <1>0
<1>2. /\ t \in SUBSET (Vertices \ {Root}) /\ Cardinality(t) = 3 /\ pathFree(s)
      /\ \A e \in s : e.source.vertex \in t /\ e.target.vertex \in t
  BY <1>0, <1>1 DEF kSubset
<1>3. IsFiniteSet(t)
  <2>1. IsFiniteSet(Vertices) /\ t \in SUBSET Vertices  BY <1>2, ExpandedAssumption
  <2> QED BY <2>1, FS_Subset
<1>4. ASSUME NEW a \in t, NEW b \in t, a # b, NEW v \in t \ {a, b}, NEW w \in t \ {a, b} PROVE v = w
  <2> DEFINE r == t \ {a}
  <2>1. IsFiniteSet(r) /\ Cardinality(r) = 2  BY <1>2, <1>3, <1>4, FS_RemoveElement
  <2>2. b \in r  BY <1>4
  <2>3. v \in r \ {b} /\ w \in r \ {b}  OBVIOUS
  <2> HIDE DEF r
  <2>4. IsFiniteSet(r \ {b}) /\ Cardinality(r \ {b}) = 1  BY <2>1, <2>2, FS_RemoveElement
  <2>5. PICK x : r \ {b} = {x}  BY <2>4, FS_Singleton
  <2> QED BY <2>3, <2>5
<1>5. \A e : dual(c, e) = One(e \in s)
  BY <1>1 DEF dual, addDualCosts, pathFreeDual
<1>6. ASSUME NEW p \in Tours PROVE Admits(c, Value(c, ToSet(p)))
  <2>1. /\ Len(p) \in Nat \ {0} /\ ToSet(p) = {p[i] : i \in 1 .. Len(p)}
        /\ p[Len(p)].target.vertex = Root
        /\ \A i, j \in 1 .. Len(p) : p[i].source.vertex = p[j].source.vertex => i = j
        /\ \A i, j \in 1 .. Len(p) : p[i].target.vertex = p[j].target.vertex => i = j
        /\ \A i \in 1 .. Len(p) - 1 : p[i].target = p[i + 1].source
    BY TourShape
  <2>2. ASSUME NEW i \in 1 .. Len(p), NEW j \in 1 .. Len(p), p[i] \in s, p[j] \in s, i < j
        PROVE  FALSE
    <3>1. /\ p[i].source.vertex \in t /\ p[i].target.vertex \in t
          /\ p[j].source.vertex \in t /\ p[j].target.vertex \in t
      BY <1>2, <2>2
    <3>2. i \in 1 .. Len(p) - 1 /\ i + 1 \in 1 .. Len(p)  BY <2>1, <2>2
    <3>3. j # Len(p)  BY <1>2, <2>1, <3>1
    <3>4. j \in 1 .. Len(p) - 1 /\ j + 1 \in 1 .. Len(p) /\ i # j + 1 /\ i # j  BY <2>1, <2>2, <3>3
    <3>5. p[i].target = p[i + 1].source /\ p[j].target = p[j + 1].source  BY <2>1, <3>2, <3>4
    <3>6. p[j].target.vertex # p[i].source.vertex  BY <2>1, <3>4, <3>5
    <3>7. p[i].target.vertex # p[j].source.vertex
      <4> SUFFICES ASSUME p[i].target.vertex = p[j].source.vertex PROVE FALSE
        OBVIOUS
      <4>1. j = i + 1  BY <2>1, <3>2, <3>5
      <4>2. p[i].target = p[j].source  BY <3>5, <4>1
      <4>3. p[i].source.vertex = p[j].target.vertex  BY <1>2, <2>2, <4>2 DEF pathFree
      <4> QED BY <3>6, <4>3
    <3>8. /\ p[i].source.vertex # p[j].source.vertex
          /\ p[i].target.vertex # p[j].target.vertex
      BY <2>1, <3>4
    <3>9. /\ p[i].source.vertex # p[i].target.vertex
          /\ p[j].source.vertex # p[j].target.vertex
      <4>1. p[i] \in TimedEdges /\ p[j] \in TimedEdges  BY <1>1, <2>2
      <4> QED BY <4>1, NetworkAssumption DEF IsNetwork
    <3> QED BY <1>4, <3>1, <3>6, <3>7, <3>8, <3>9
  <2>3. \A e \in ToSet(p) : dual(c, e) \in {0, 1}  BY <1>5 DEF One
  <2> DEFINE Counted == {e \in ToSet(p) : dual(c, e) = 1}
  <2>4. \A e, d \in Counted : e = d
    <3> SUFFICES ASSUME NEW e \in Counted, NEW d \in Counted PROVE e = d
      OBVIOUS
    <3>1. e \in s /\ d \in s /\ e \in ToSet(p) /\ d \in ToSet(p)  BY <1>5 DEF One
    <3>2. PICK i \in 1 .. Len(p), j \in 1 .. Len(p) : e = p[i] /\ d = p[j]  BY <2>1, <3>1
    <3>3. ~ (i < j) /\ ~ (j < i)  BY <2>2, <3>1, <3>2
    <3>4. i = j  BY <2>1, <3>3
    <3> QED BY <3>2, <3>4
  <2>5. IsFiniteSet(Counted) /\ Value(c, ToSet(p)) = Cardinality(Counted)
    BY <2>3, EdgesOfTour, CountOfEdges
  <2>6. Cardinality(Counted) <= 1
    <3> HIDE DEF Counted
    <3> QED BY <2>4, <2>5, AtMostOne
  <2>7. Value(c, ToSet(p)) <= 1  BY <2>5, <2>6
  <2> QED BY <1>1, <2>7 DEF Admits
<1> QED BY <1>6, KeepsToursIf

\* Of two neighbours in a cycle a tour has at most one: if it went back and forth then
\* there would be no other vertices.
LEMMA ToursHaveNoIncompatibleEdges ==
  ASSUME NEW p \in Tours, NEW e \in ToSet(p), NEW d \in ToSet(p), areIncompatible(arc(e), arc(d))
  PROVE  arc(e) = <<arc(d)[2], arc(d)[1]>> /\ Vertices = {arc(e)[1], arc(e)[2]}
<1>1. /\ Len(p) \in Nat \ {0} /\ ToSet(p) = {p[i] : i \in 1 .. Len(p)}
      /\ \A i \in 1 .. Len(p) : p[i].source.vertex \in Vertices /\ p[i].target.vertex \in Vertices
      /\ \A i, j \in 1 .. Len(p) : p[i].source.vertex = p[j].source.vertex => i = j
      /\ \A i, j \in 1 .. Len(p) : p[i].target.vertex = p[j].target.vertex => i = j
  BY TourShape
<1>2. PICK i \in 1 .. Len(p) : e = p[i]  BY <1>1
<1>3. PICK j \in 1 .. Len(p) : d = p[j]  BY <1>1
<1>4. /\ arc(e)[1] = p[i].source.vertex /\ arc(e)[2] = p[i].target.vertex
      /\ arc(d)[1] = p[j].source.vertex /\ arc(d)[2] = p[j].target.vertex
  BY <1>2, <1>3 DEF arc
<1>5. arc(e) # arc(d) /\ (arc(e)[1] = arc(d)[1] \/ arc(e)[2] = arc(d)[2] \/ arc(e) = <<arc(d)[2], arc(d)[1]>>)
  BY DEF areIncompatible
<1>6. i # j  BY <1>2, <1>3, <1>5
<1>7. arc(e) = <<arc(d)[2], arc(d)[1]>>  BY <1>1, <1>4, <1>5, <1>6
<1>8. p[i].source.vertex = p[j].target.vertex /\ p[i].target.vertex = p[j].source.vertex  BY <1>4, <1>7
<1> DEFINE s == {p[i].source.vertex, p[i].target.vertex}
<1>9. s = Vertices
  <2> SUFFICES ASSUME s # Vertices PROVE FALSE
    OBVIOUS
  <2>1. s \in SUBSET Vertices /\ s # {}  BY <1>1
  <2>2. PICK k \in 1 .. Len(p) : p[k].source.vertex \in s /\ p[k].target.vertex \notin s
    <3> HIDE DEF s
    <3> QED BY <2>1, EverySetIsLeft
  <2>3. k = i \/ k = j  BY <1>1, <1>8, <2>2
  <2> QED BY <1>8, <2>2, <2>3
<1> QED BY <1>4, <1>7, <1>9

LEMMA OddCATsKeepTours ==
  ASSUME NEW c \in OddCATs(Arcs)
  PROVE  KeepsTours(c)
<1> DEFINE Odd(k) == {set \in kSubset(k, Arcs) : \E s \in SetToSeqs(set) : validCycle(s)}
<1>1. PICK k \in {3, 5} : \E set \in Odd(k) : c = [kind |-> "oddCAT", arcs |-> set]
  BY DEF OddCATs
<1>2. PICK set \in Odd(k) : c = [kind |-> "oddCAT", arcs |-> set]  BY <1>1
<1>3. set \subseteq Arcs /\ Cardinality(set) = k  BY <1>2 DEF kSubset
<1>4. PICK s \in SetToSeqs(set) : validCycle(s)  BY <1>2
<1>5. IsFiniteSet(set)
  <2>1. IsFiniteSet(Vertices \X Vertices)  BY ExpandedAssumption, FS_Product
  <2>2. set \in SUBSET (Vertices \X Vertices)  BY <1>3, DistanceAssumption
  <2> QED BY <2>1, <2>2, FS_Subset
<1>6. /\ s \in [1 .. k -> set]
      /\ \A i, j \in 1 .. k : i # j => s[i] # s[j]
      /\ \A a \in set : \E i \in 1 .. k : s[i] = a
  <2>1. s \in [1 .. k -> set] /\ \A i, j \in 1 .. k : i # j => s[i] # s[j]
    BY <1>3, <1>4 DEF SetToSeqs
  <2>2. s \in Injection(1 .. k, set)  BY <2>1 DEF Injection, IsInjective
  <2>3. Cardinality(1 .. k) = Cardinality(set)
    <3>1. k \in Int /\ ~ (1 > k) /\ k - 1 + 1 = k /\ 1 \in Int  OBVIOUS
    <3>2. Cardinality(1 .. k) = k  BY <3>1, FS_Interval
    <3> QED BY <1>3, <3>2
  <2>4. s \in Surjection(1 .. k, set)  BY <1>5, <2>2, <2>3, FS_Injection
  <2> QED BY <2>1, <2>4 DEF Surjection
<1>7. Len(s) = k  BY <1>6
<1>8. \A a \in Arcs : a = <<a[1], a[2]>> /\ a[1] # a[2] /\ a[1] \in Vertices /\ a[2] \in Vertices
  BY DistanceAssumption
<1>9. ASSUME NEW u, NEW v, Vertices = {u, v} PROVE FALSE
  <2>1. \A a \in Arcs : a = <<u, v>> \/ a = <<v, u>>  BY <1>8, <1>9
  <2>2. 1 \in 1 .. k /\ 2 \in 1 .. k /\ 3 \in 1 .. k  OBVIOUS
  <2>3. s[1] \in Arcs /\ s[2] \in Arcs /\ s[3] \in Arcs /\ s[1] # s[2] /\ s[1] # s[3] /\ s[2] # s[3]
    BY <1>3, <1>6, <2>2
  <2> QED BY <2>1, <2>3
<1>10. \A e : dual(c, e) = One(arc(e) \in set)
  BY <1>2 DEF dual, addDualCosts, oddCATDual
<1>11. ASSUME NEW p \in Tours PROVE Admits(c, Value(c, ToSet(p)))
  <2> DEFINE Counted == {e \in ToSet(p) : dual(c, e) = 1}
             next(i) == IF i = k THEN 1 ELSE i + 1
  <2>1. \A e \in ToSet(p) : dual(c, e) \in {0, 1}  BY <1>10 DEF One
  <2>2. IsFiniteSet(Counted) /\ Value(c, ToSet(p)) = Cardinality(Counted)
    BY <2>1, EdgesOfTour, CountOfEdges
  <2>3. \A e \in Counted : e \in ToSet(p) /\ \E i \in 1 .. k : s[i] = arc(e)  BY <1>6, <1>10 DEF One
  <2>4. \A e, d \in Counted : arc(e) = arc(d) => e = d
    <3>1. /\ Len(p) \in Nat \ {0} /\ ToSet(p) = {p[i] : i \in 1 .. Len(p)}
          /\ \A i, j \in 1 .. Len(p) : p[i].source.vertex = p[j].source.vertex => i = j
      BY TourShape
    <3> QED BY <3>1 DEF arc
  <2>5. \A i \in 1 .. k : areIncompatible(s[i], s[next(i)])  BY <1>4, <1>7 DEF validCycle
  <2>6. ASSUME NEW e \in Counted, NEW d \in Counted, NEW i \in 1 .. k, s[i] = arc(e), s[next(i)] = arc(d)
        PROVE  FALSE
    <3>1. areIncompatible(arc(e), arc(d))  BY <2>5, <2>6
    <3>2. e \in ToSet(p) /\ d \in ToSet(p)  OBVIOUS
    <3> HIDE DEF Counted
    <3>3. Vertices = {arc(e)[1], arc(e)[2]}  BY <3>1, <3>2, ToursHaveNoIncompatibleEdges
    <3> QED BY <1>9, <3>3
  <2> HIDE DEF Counted
  <2>7. CASE k = 3
    <3>1. \A i, j \in 1 .. 3 : i = j \/ j = next(i) \/ i = next(j)  BY <2>7
    <3>2. \A e, d \in Counted : e = d
      <4> TAKE e, d \in Counted
      <4>1. PICK i \in 1 .. 3 : s[i] = arc(e)  BY <2>3, <2>7
      <4>2. PICK j \in 1 .. 3 : s[j] = arc(d)  BY <2>3, <2>7
      <4>3. i = j  BY <2>6, <2>7, <3>1, <4>1, <4>2
      <4> QED BY <2>4, <4>1, <4>2, <4>3
    <3>3. Cardinality(Counted) <= 1  BY <2>2, <3>2, AtMostOne
    <3>4. Admits(c, Value(c, ToSet(p))) <=> Value(c, ToSet(p)) <= 1
      BY <1>2, <1>3, <2>7 DEF Admits
    <3> QED BY <2>2, <3>3, <3>4
  <2>8. CASE k = 5
    <3>1. \A i, j, l \in 1 .. 5 : \/ i = j \/ i = l \/ j = l
                                  \/ j = next(i) \/ i = next(j) \/ l = next(i) \/ i = next(l)
                                  \/ l = next(j) \/ j = next(l)
      BY <2>8
    <3>2. \A e, d, b \in Counted : e = d \/ e = b \/ d = b
      <4> TAKE e, d, b \in Counted
      <4>1. PICK i \in 1 .. 5 : s[i] = arc(e)  BY <2>3, <2>8
      <4>2. PICK j \in 1 .. 5 : s[j] = arc(d)  BY <2>3, <2>8
      <4>3. PICK l \in 1 .. 5 : s[l] = arc(b)  BY <2>3, <2>8
      <4> HIDE DEF next
      <4>4. j # next(i) /\ i # next(j) /\ l # next(i) /\ i # next(l) /\ l # next(j) /\ j # next(l)
        BY <2>6, <2>8, <4>1, <4>2, <4>3
      <4>5. i = j \/ i = l \/ j = l  BY <3>1, <4>4
      <4> QED BY <2>4, <4>1, <4>2, <4>3, <4>5
    <3>3. Cardinality(Counted) <= 2  BY <2>2, <3>2, AtMostTwo
    <3>4. Admits(c, Value(c, ToSet(p))) <=> Value(c, ToSet(p)) <= 2
      BY <1>2, <1>3, <2>8 DEF Admits
    <3> QED BY <2>2, <3>3, <3>4
  <2> QED BY <2>7, <2>8
<1> QED BY <1>11, KeepsToursIf

\* The set of an action flow cut has no copy of the source.
Grown(incoming, before) ==
  before \cup {e.target : e \in {e \in TimedEdges :
                 /\ e.source \in before
                 /\ e.target.vertex \notin {Root, incoming.source.vertex, incoming.target.vertex}}}

LEMMA FoundVertices ==
  ASSUME NEW incoming \in TimedEdges, incoming.target.vertex # Root
  PROVE  \A v \in findVertices(incoming) : v.vertex # Root
<1> DEFINE V == {s \in SUBSET TimedVertices : \A v \in s : v.vertex # Root}
           F == [before \in V |-> Grown(incoming, before)]
           base == {incoming.target}
           Extends(h) == h = [k \in 0 .. Horizon |-> IF k = 0 THEN base ELSE Grown(incoming, h[k - 1])]
           Stage == CHOOSE h : Extends(h)
<1>1. Horizon \in Nat  BY ExpandedAssumption
<1>2. \A e \in TimedEdges : e.target \in TimedVertices  BY NetworkAssumption DEF IsNetwork
<1>3. ASSUME NEW before \in V PROVE Grown(incoming, before) \in V
  BY <1>2, <1>3 DEF Grown
<1>4. F \in [V -> V] /\ base \in V
  <2>1. base \in V  BY <1>2
  <2> QED BY <1>3, <2>1
<1>5. PICK g : IsIteration(g, F, base, Horizon, V)
  <2> HIDE DEF F, V, base
  <2> QED BY <1>1, <1>4, IterationExists
<1>6. Extends(g)
  <2>1. \A k \in 0 .. Horizon : k # 0 => k - 1 \in 0 .. Horizon  BY <1>1
  <2>2. \A k \in 0 .. Horizon : k # 0 => F[g[k - 1]] = Grown(incoming, g[k - 1])  BY <1>5, <2>1 DEF IsIteration
  <2> HIDE DEF F, V, base
  <2> QED BY <1>5, <2>2 DEF IsIteration
<1>7. findVertices(incoming) = Stage[Horizon]
  BY DEF findVertices, Grown
<1>8. Extends(Stage)
  <2> HIDE DEF Extends
  <2> QED BY <1>6
<1> HIDE DEF Stage
<1> DEFINE S == {k \in Nat : k <= Horizon => Stage[k] \in V}
<1>9. 0 \in S
  <2>1. Stage[0] = base  BY <1>1, <1>8
  <2> QED BY <1>4, <2>1
<1>10. \A k \in S : k + 1 \in S
  <2> SUFFICES ASSUME NEW k \in S, k + 1 <= Horizon PROVE Stage[k + 1] \in V
    OBVIOUS
  <2>1. k \in Nat /\ k + 1 \in 0 .. Horizon /\ k + 1 # 0 /\ (k + 1) - 1 = k /\ k <= Horizon  BY <1>1
  <2>2. Stage[k] \in V  BY <2>1
  <2> HIDE DEF V, S, base
  <2>3. Stage[k + 1] = Grown(incoming, Stage[(k + 1) - 1])  BY <1>8, <2>1
  <2> QED BY <1>3, <2>1, <2>2, <2>3
<1>11. S = Nat
  <2>1. S \in SUBSET Nat  OBVIOUS
  <2> HIDE DEF S
  <2> QED BY <1>9, <1>10, <2>1, Induction
<1>12. Stage[Horizon] \in V
  <2>1. Horizon \in S /\ Horizon <= Horizon  BY <1>1, <1>11
  <2> QED BY <2>1
<1> QED BY <1>7, <1>12

\* Who takes the incoming edge comes out of the set at a vertex he has not been to.
LEMMA UnitaryAFCsKeepTours ==
  ASSUME NEW c \in UnitaryAFCs
  PROVE  KeepsTours(c)
<1> DEFINE Sinks(all) == {v \in all : ~ \E e \in TimedEdges : e.source = v /\ e.target \in all}
           Sets(in, all) == {s \cup {in.target} : s \in {s \in SUBSET (all \ {in.target}) : ~ Sinks(all) \subseteq s}}
           Of(in) == {[kind |-> "unitaryAFC", incoming |-> in, timed |-> s] : s \in Sets(in, findVertices(in))}
           Inner == {e \in TimedEdges : e.source.vertex # Root /\ e.target.vertex # Root}
<1>1. PICK in \in Inner : c \in Of(in)
  BY DEF UnitaryAFCs
<1>2. PICK s \in Sets(in, findVertices(in)) : c = [kind |-> "unitaryAFC", incoming |-> in, timed |-> s]
  BY <1>1
<1>3. in \in TimedEdges /\ in.source.vertex # Root /\ in.target.vertex # Root  BY <1>1
<1>4. in.target \in s /\ \A v \in s : v.vertex # Root
  <2>1. s \subseteq findVertices(in) \cup {in.target} /\ in.target \in s  BY <1>2
  <2>2. \A v \in findVertices(in) : v.vertex # Root  BY <1>3, FoundVertices
  <2> QED BY <1>3, <2>1, <2>2
<1> HIDE DEF Sets, Of, Inner
<1>5. \A e : dual(c, e) = One(validEdge(c, e)) - One(e = in)
  BY <1>2 DEF dual, addDualCosts, unitaryAFCDual
<1>6. ASSUME NEW p \in Tours PROVE Admits(c, Value(c, ToSet(p)))
  <2>1. \A e \in ToSet(p) \ {in} : dual(c, e) \in Nat  BY <1>5 DEF One
  <2>2. dual(c, in) \in Int /\ 0 - 1 <= dual(c, in)  BY <1>5 DEF One
  <2>3. ASSUME in \in ToSet(p) PROVE \E e \in ToSet(p) \ {in} : 1 <= dual(c, e)
    <3>1. /\ Chain(p) /\ Len(p) \in Nat \ {0} /\ ToSet(p) = {p[i] : i \in 1 .. Len(p)}
          /\ p[Len(p)].target.vertex = Root
          /\ \A i, j \in 1 .. Len(p) : p[i].source.vertex = p[j].source.vertex => i = j
          /\ \A i, j \in 1 .. Len(p) : p[i].target.vertex = p[j].target.vertex => i = j
          /\ \A i \in 1 .. Len(p) - 1 : p[i].target = p[i + 1].source
      BY TourShape
    <3>2. PICK i \in 1 .. Len(p) : in = p[i]  BY <2>3, <3>1
    <3>3. i # Len(p)  BY <1>3, <3>1, <3>2
    <3>4. i \in 1 .. Len(p) - 1 /\ i + 1 \in 1 .. Len(p) /\ Len(p) \in i + 1 .. Len(p)  BY <3>1, <3>3
    <3>5. p[i + 1].source = in.target  BY <3>1, <3>2, <3>4
    <3>6. p[i + 1].source \in s /\ p[Len(p)].target \notin s  BY <1>4, <3>1, <3>5
    <3>7. PICK j \in i + 1 .. Len(p) : p[j].source \in s /\ p[j].target \notin s
      BY <3>1, <3>4, <3>6, FirstExit
    <3>8. j \in 1 .. Len(p) /\ i < j /\ i # j  BY <3>1, <3>4
    <3>9. p[j].target.vertex # in.target.vertex  BY <3>1, <3>2, <3>8
    <3>10. p[j].target.vertex # in.source.vertex
      <4>1. CASE j = Len(p)  BY <1>3, <3>1, <4>1
      <4>2. CASE j # Len(p)
        <5>1. j \in 1 .. Len(p) - 1 /\ j + 1 \in 1 .. Len(p) /\ i # j + 1  BY <3>1, <3>8, <4>2
        <5>2. p[j].target = p[j + 1].source  BY <3>1, <5>1
        <5> QED BY <3>1, <3>2, <5>1, <5>2
      <4> QED BY <4>1, <4>2
    <3>11. validEdge(c, p[j])  BY <1>2, <3>7, <3>9, <3>10 DEF validEdge
    <3>12. p[j] # in  BY <3>1, <3>2, <3>8
    <3>13. dual(c, p[j]) = 1  BY <1>5, <3>11, <3>12 DEF One
    <3>14. p[j] \in ToSet(p)  BY <3>1, <3>8
    <3> QED BY <3>12, <3>13, <3>14
  <2>4. Value(c, ToSet(p)) >= 0
    BY <2>1, <2>2, <2>3, EdgesOfTour, AnotherEdgeCounts
  <2> QED BY <1>2, <2>4 DEF Admits
<1> QED BY <1>6, KeepsToursIf

LEMMA IndexInCycle ==
  ASSUME NEW c, IsCycle(c.incoming, c.cycle), NEW v
  PROVE  /\ v = c.incoming.source.vertex => index(c, v) = 0
         /\ \A k \in 1 .. Len(c.cycle) : v = c.cycle[k].source.vertex => index(c, v) = k
         /\ /\ v # c.incoming.source.vertex
            /\ \A k \in 1 .. Len(c.cycle) : v # c.cycle[k].source.vertex
            => index(c, v) = -1
<1>1. v = c.incoming.source.vertex => index(c, v) = 0  BY DEF index
<1>2. ASSUME NEW k \in 1 .. Len(c.cycle), v = c.cycle[k].source.vertex PROVE index(c, v) = k
  <2>1. v # c.incoming.source.vertex  BY <1>2 DEF IsCycle
  <2>2. \A l \in 1 .. Len(c.cycle) : c.cycle[l].source.vertex = v => l = k  BY <1>2 DEF IsCycle
  <2>3. (CHOOSE i \in 1 .. Len(c.cycle) : c.cycle[i].source.vertex = v) = k  BY <1>2, <2>2
  <2> QED BY <1>2, <2>1, <2>3 DEF index
<1>3. ASSUME v # c.incoming.source.vertex, \A k \in 1 .. Len(c.cycle) : v # c.cycle[k].source.vertex
      PROVE  index(c, v) = -1
  BY <1>3 DEF index
<1> QED BY <1>1, <1>2, <1>3

\* A tour that enters a cycle follows it for a while, and turns off where it would be
\* back at the latest: to a vertex it has not been to.  Only the way back to the source
\* from a cycle that is entered from there, with all other vertices, does not count.
LEMMA ToursTurnOff ==
  ASSUME NEW c, c.kind = "cycle", IsCycle(c.incoming, c.cycle), Len(c.cycle) < Cardinality(Vertices), ~ Spanning(c),
         NEW p \in Tours, NEW i \in 1 .. Len(p), p[i] = c.incoming
  PROVE  \E k \in 1 .. Len(c.cycle) : i + k \in 1 .. Len(p) /\ TurnsOff(c, k, p[i + k])
<1> DEFINE N == Len(p)
           L == Len(c.cycle)
           Off == {k \in 1 .. L : ~ (i + k <= N /\ p[i + k] = c.cycle[k])}
<1>1. /\ N \in Nat \ {0} /\ N = Cardinality(Vertices) /\ p[N].target.vertex = Root /\ p[1].source = Start
      /\ \A m, l \in 1 .. N : p[m].source.vertex = p[l].source.vertex => m = l
      /\ \A m, l \in 1 .. N : p[m].target.vertex = p[l].target.vertex => m = l
      /\ \A m \in 1 .. N : p[m].target.vertex = Root => m = N
      /\ \A m \in 1 .. N - 1 : p[m].target = p[m + 1].source
  BY TourShape, ToursAreChains
<1>2. /\ L \in Nat \ {0} /\ c.cycle[1].source = p[i].target
      /\ \A k \in 1 .. L - 1 : c.cycle[k].target = c.cycle[k + 1].source
      /\ c.cycle[L].target.vertex = p[i].target.vertex
      /\ \A k \in 1 .. L : c.cycle[k].source.vertex # Root /\ c.cycle[k].source.vertex # p[i].source.vertex
      /\ \A k, l \in 1 .. L : c.cycle[k].source.vertex = c.cycle[l].source.vertex => k = l
  BY DEF IsCycle
<1>3. Off # {}
  <2> SUFFICES ASSUME Off = {} PROVE FALSE
    OBVIOUS
  <2>1. L \in 1 .. L  BY <1>2
  <2>2. i + L <= N /\ p[i + L] = c.cycle[L]  BY <2>1
  <2>3. i + L \in 1 .. N /\ i + L # i  BY <1>1, <1>2, <2>2
  <2>4. p[i + L].target.vertex = p[i].target.vertex  BY <1>2, <2>2
  <2> QED BY <1>1, <2>3, <2>4
<1>4. PICK k \in Off : \A l \in Off : k <= l
  <2>1. Off \in SUBSET Nat  BY <1>2
  <2> HIDE DEF Off
  <2> QED BY <1>3, <2>1, LeastExists
<1>5. k \in 1 .. L /\ ~ (i + k <= N /\ p[i + k] = c.cycle[k])  OBVIOUS
<1>6. \A l \in 1 .. k - 1 : i + l <= N /\ p[i + l] = c.cycle[l]
  <2> TAKE l \in 1 .. k - 1
  <2>1. l \in 1 .. L /\ ~ (k <= l)  BY <1>2, <1>5
  <2> QED BY <1>4, <2>1
<1> HIDE DEF Off
<1>7. \A l \in 1 .. k : /\ i + l - 1 \in 1 .. N
                        /\ p[i + l - 1].target = c.cycle[l].source
  <2> TAKE l \in 1 .. k
  <2>1. CASE l = 1
    <3>1. i + l - 1 = i  BY <1>1, <2>1
    <3> QED BY <1>2, <2>1, <3>1
  <2>2. CASE l # 1
    <3>1. l - 1 \in 1 .. k - 1 /\ l - 1 \in 1 .. L - 1 /\ (l - 1) + 1 = l /\ i + (l - 1) = i + l - 1
          /\ i + (l - 1) \in Nat /\ 1 <= i + (l - 1)
      BY <1>1, <1>2, <1>5, <2>2
    <3>2. i + (l - 1) <= N /\ p[i + (l - 1)] = c.cycle[l - 1]  BY <1>6, <3>1
    <3>3. c.cycle[l - 1].target = c.cycle[(l - 1) + 1].source  BY <1>2, <3>1
    <3>4. p[i + (l - 1)].target = c.cycle[l].source  BY <3>1, <3>2, <3>3
    <3>5. i + (l - 1) \in 1 .. N  BY <1>1, <3>1, <3>2
    <3> QED BY <3>1, <3>4, <3>5
  <2> QED BY <2>1, <2>2
<1> DEFINE m == i + k
           e == p[m]
<1>8. m \in 1 .. N /\ e.source = c.cycle[k].source /\ e # c.cycle[k]
  <2>1. k \in 1 .. k /\ k \in Nat /\ i \in Nat  BY <1>1, <1>2, <1>5
  <2> DEFINE q == i + k - 1
  <2>2. q \in 1 .. N /\ p[q].target = c.cycle[k].source  BY <1>7, <2>1
  <2>3. q + 1 = i + k  BY <2>1
  <2> HIDE DEF q
  <2>4. p[q].target.vertex # Root  BY <1>2, <1>5, <2>2
  <2>5. q # N  BY <1>1, <2>4
  <2>6. q \in 1 .. N - 1 /\ q + 1 \in 1 .. N  BY <1>1, <2>2, <2>5
  <2>7. p[q].target = p[i + k].source /\ i + k <= N /\ i + k \in 1 .. N  BY <1>1, <2>3, <2>6
  <2> QED BY <1>5, <2>2, <2>7
<1>9. e.target.vertex # p[i].source.vertex
  <2> SUFFICES ASSUME e.target.vertex = p[i].source.vertex PROVE FALSE
    OBVIOUS
  <2>1. i = 1
    <3> SUFFICES ASSUME i # 1 PROVE FALSE
      OBVIOUS
    <3>1. i - 1 \in 1 .. N - 1 /\ i - 1 \in 1 .. N /\ (i - 1) + 1 = i /\ i - 1 # m  BY <1>1, <1>5
    <3>2. p[i - 1].target = p[i].source  BY <1>1, <3>1
    <3>3. p[i - 1].target.vertex = p[m].target.vertex  BY <3>2
    <3> QED BY <1>1, <1>8, <3>1, <3>3
  <2>2. p[m].target.vertex = Root  BY <1>1, <2>1 DEF Start
  <2>3. 1 + k = N  BY <1>1, <1>8, <2>1, <2>2
  <2>4. L + 1 = Cardinality(Vertices)  BY <1>1, <1>2, <1>5, <2>3
  <2>5. Spanning(c)  BY <1>1, <2>1, <2>4 DEF Spanning
  <2> QED BY <2>5
<1>10. index(c, e.source.vertex) = k
  BY <1>5, <1>8, IndexInCycle
<1>11. index(c, e.target.vertex) = -1 \/ index(c, e.target.vertex) > k
  <2>1. CASE \A l \in 1 .. L : e.target.vertex # c.cycle[l].source.vertex
    <3> HIDE DEF e
    <3> QED BY <1>9, <2>1, IndexInCycle
  <2>2. CASE \E l \in 1 .. L : e.target.vertex = c.cycle[l].source.vertex
    <3>1. PICK l \in 1 .. L : e.target.vertex = c.cycle[l].source.vertex  BY <2>2
    <3>2. index(c, e.target.vertex) = l
      <4> HIDE DEF e
      <4> QED BY <3>1, IndexInCycle
    <3>3. l > k
      <4> SUFFICES ASSUME l <= k PROVE FALSE
        BY <1>2, <1>5
      <4>1. l \in 1 .. k  BY <1>2, <1>5
      <4>2. i + l - 1 \in 1 .. N /\ p[i + l - 1].target.vertex = p[m].target.vertex  BY <1>7, <3>1, <4>1
      <4>3. i + l - 1 # m  BY <1>2, <1>5, <4>1
      <4> QED BY <1>1, <1>8, <4>2, <4>3
    <3> QED BY <3>2, <3>3
  <2> QED BY <2>1, <2>2
<1>12. TurnsOff(c, k, p[i + k])  BY <1>8, <1>10, <1>11 DEF TurnsOff
<1> QED BY <1>5, <1>8, <1>12

LEMMA CyclesKeepTours ==
  ASSUME NEW c \in Cycles(Walks), ~ Spanning(c)
  PROVE  KeepsTours(c)
<1>1. c.kind = "cycle" /\ IsCycle(c.incoming, c.cycle) /\ Len(c.cycle) < Cardinality(Vertices)
  <2>1. PICK w \in Walks : Again(w) # {} /\ c = CycleOf(w)  BY DEF Cycles
  <2>2. Len(c.cycle) < Cardinality(Vertices)  BY DEF Cycles
  <2> QED BY <2>1, <2>2, CyclesAreSimple
<1> DEFINE Turns(e) == {k \in 1 .. Len(c.cycle) : TurnsOff(c, k, e)}
<1>2. \A e : dual(c, e) = Cardinality(Turns(e)) - One(e = c.incoming)
  BY <1>1 DEF dual, addDualCosts, cycleDual
<1>3. \A e : IsFiniteSet(Turns(e)) /\ Cardinality(Turns(e)) \in Nat
  <2>1. Len(c.cycle) \in Int /\ 1 \in Int  BY <1>1 DEF IsCycle
  <2>2. IsFiniteSet(1 .. Len(c.cycle))  BY <2>1, FS_Interval
  <2>3. \A e : Turns(e) \in SUBSET (1 .. Len(c.cycle))  OBVIOUS
  <2> HIDE DEF Turns
  <2> QED BY <2>2, <2>3, FS_Subset, FS_CardinalityType
<1>4. ASSUME NEW e, NEW k \in Turns(e) PROVE 1 <= Cardinality(Turns(e))
  <2> HIDE DEF Turns
  <2>1. Cardinality(Turns(e)) # 0  BY <1>3, <1>4, FS_EmptySet
  <2> QED BY <1>3, <2>1
<1> HIDE DEF Turns
<1>5. ASSUME NEW p \in Tours PROVE Admits(c, Value(c, ToSet(p)))
  <2>1. \A e \in ToSet(p) \ {c.incoming} : dual(c, e) = Cardinality(Turns(e)) /\ dual(c, e) \in Nat
    BY <1>2, <1>3 DEF One
  <2>2. dual(c, c.incoming) \in Int /\ 0 - 1 <= dual(c, c.incoming)  BY <1>2, <1>3 DEF One
  <2>3. ASSUME c.incoming \in ToSet(p) PROVE \E e \in ToSet(p) \ {c.incoming} : 1 <= dual(c, e)
    <3>1. Len(p) \in Nat \ {0} /\ Chain(p) /\ ToSet(p) = {p[i] : i \in 1 .. Len(p)}  BY TourShape
    <3>2. PICK i \in 1 .. Len(p) : p[i] = c.incoming  BY <2>3, <3>1
    <3>3. PICK k \in 1 .. Len(c.cycle) : i + k \in 1 .. Len(p) /\ TurnsOff(c, k, p[i + k])
      BY <1>1, <3>2, ToursTurnOff
    <3>4. 1 <= Cardinality(Turns(p[i + k]))
      <4>1. k \in Turns(p[i + k])  BY <3>3 DEF Turns
      <4> QED BY <1>4, <4>1
    <3>5. i + k # i  BY <3>1, <1>1 DEF IsCycle
    <3>6. p[i + k] # c.incoming  BY <3>1, <3>2, <3>3, <3>5, EdgesDiffer
    <3>7. p[i + k] \in ToSet(p)  BY <3>1, <3>3
    <3> QED BY <2>1, <3>4, <3>6, <3>7
  <2>4. Value(c, ToSet(p)) >= 0
    BY <2>1, <2>2, <2>3, EdgesOfTour, AnotherEdgeCounts
  <2> QED BY <1>1, <2>4 DEF Admits
<1> QED BY <1>5, KeepsToursIf

\* D_k cuts.  The factor of the edge from one vertex of a cycle to another.
FactorOf(k, i, j) ==
  IF i = 1 THEN IF j = k THEN 1 ELSE 2
  ELSE One(j + 1 = i \/ (i < j /\ j >= 3 /\ j < k))

Pairs(s, k, a) == {ij \in (1 .. k) \X (1 .. k) : s[ij[1]] = a[1] /\ s[ij[2]] = a[2]}

LEMMA FactorOfPair ==
  ASSUME NEW k \in Nat, NEW s \in [1 .. k -> Vertices], \A i, j \in 1 .. k : s[i] = s[j] => i = j, NEW a
  PROVE  /\ (\A i \in 1 .. k : s[i] # a[1]) \/ (\A j \in 1 .. k : s[j] # a[2]) => factor(s, a) = 0
         /\ \A i, j \in 1 .. k : s[i] = a[1] /\ s[j] = a[2] => factor(s, a) = FactorOf(k, i, j)
<1> DEFINE pair == Pairs(s, k, a)
           f == [ij \in pair |-> FactorOf(k, ij[1], ij[2])]
           Values(g) == g = [t \in SUBSET pair |-> IF t = {} THEN 0
                               ELSE FactorOf(k, First(t)[1], First(t)[2]) + g[t \ {First(t)}]]
<1>1. Len(s) = k  OBVIOUS
<1>2. factor(s, a) = (CHOOSE g : Values(g))[pair]
  BY <1>1 DEF factor, FactorOf, Pairs, MapThenSumSet, MapThenFoldSet, First
<1>3. f \in [pair -> Int]  BY DEF FactorOf, One
<1>4. IsFiniteSet(pair)
  <2>1. IsFiniteSet(1 .. k)  BY FS_Interval
  <2>2. IsFiniteSet((1 .. k) \X (1 .. k))  BY <2>1, FS_Product
  <2>3. pair \in SUBSET ((1 .. k) \X (1 .. k))  BY DEF Pairs
  <2> QED BY <2>2, <2>3, FS_Subset
<1>5. \A t \in SUBSET pair : t # {} => First(t) \in pair /\ f[First(t)] = FactorOf(k, First(t)[1], First(t)[2])
  BY DEF First
<1>6. \A g : Values(g) <=> Sums(g, f, pair)
  <2> TAKE g
  <2>1. [t \in SUBSET pair |-> IF t = {} THEN 0 ELSE f[First(t)] + g[t \ {First(t)}]]
          = [t \in SUBSET pair |-> IF t = {} THEN 0 ELSE FactorOf(k, First(t)[1], First(t)[2]) + g[t \ {First(t)}]]
    <3> HIDE DEF f, pair
    <3> QED BY <1>5
  <2> HIDE DEF f, pair
  <2> QED BY <2>1 DEF Sums
<1>7. \A ij \in pair : f[ij] = FactorOf(k, ij[1], ij[2])  OBVIOUS
<1> HIDE DEF f, Values, pair
<1>8. (CHOOSE g : Values(g)) = (CHOOSE g : Sums(g, f, pair))  BY <1>6
<1>9. PICK g : HasSums(g, f, pair) /\ factor(s, a) = g[pair]
  <2>1. HasSums(CHOOSE g : Sums(g, f, pair), f, pair)  BY <1>3, <1>4, SumsAre
  <2> QED BY <1>2, <1>8, <2>1
<1>10. g[{}] = 0  BY <1>9 DEF HasSums
<1>11. ASSUME (\A i \in 1 .. k : s[i] # a[1]) \/ (\A j \in 1 .. k : s[j] # a[2]) PROVE factor(s, a) = 0
  <2>1. pair = {}  BY <1>11 DEF pair, Pairs
  <2> QED BY <1>9, <1>10, <2>1
<1>12. ASSUME NEW i \in 1 .. k, NEW j \in 1 .. k, s[i] = a[1], s[j] = a[2] PROVE factor(s, a) = FactorOf(k, i, j)
  <2>1. pair = {<<i, j>>}  BY <1>12 DEF pair, Pairs
  <2>2. InAnyOrder(g, f, pair)  BY <1>3, <1>4, <1>9, SumInAnyOrder
  <2>3. g[pair] = f[<<i, j>>] + g[pair \ {<<i, j>>}]  BY <2>1, <2>2 DEF InAnyOrder
  <2>4. pair \ {<<i, j>>} = {} /\ <<i, j>> \in pair  BY <2>1
  <2>5. f[<<i, j>>] = FactorOf(k, i, j)  BY <1>7, <2>4
  <2>6. FactorOf(k, i, j) \in Int  BY DEF FactorOf, One
  <2>7. g[pair] = FactorOf(k, i, j) + 0  BY <1>10, <2>3, <2>4, <2>5
  <2> QED BY <1>9, <2>6, <2>7
<1> QED BY <1>11, <1>12

\* How a tour goes from one vertex of the cycle to another.
GoesTo(p, s, i, j) == \E m \in 1 .. Len(p) : p[m].source.vertex = s[i] /\ p[m].target.vertex = s[j]

\* The vertices of the cycle that are left along an edge with a factor.
Counts(p, s, k, i) == \E j \in 1 .. k : GoesTo(p, s, i, j) /\ FactorOf(k, i, j) # 0

\* It is not the whole cycle, for then there would be a subtour.
LEMMA SomeVertexDoesNotCount ==
  ASSUME NEW p \in Tours, NEW k \in 2 .. Cardinality(Vertices) - 1, NEW s \in [1 .. k -> Vertices],
         \A i, j \in 1 .. k : s[i] = s[j] => i = j, NEW n \in 1 .. k
  PROVE  \E i \in 1 .. n : \A j \in 1 .. k : GoesTo(p, s, i, j) => j > n
<1> DEFINE t == {s[i] : i \in 1 .. n}
<1>1. k \in Nat /\ n \in Nat /\ n <= k /\ Cardinality(Vertices) \in Nat /\ k < Cardinality(Vertices)
  <2>1. Cardinality(Vertices) \in Nat  BY ExpandedAssumption, FS_CardinalityType
  <2> QED BY <2>1
<1>2. t \in SUBSET Vertices /\ t # {}
  <2>1. \A i \in 1 .. n : i \in 1 .. k /\ s[i] \in Vertices  BY <1>1
  <2>2. 1 \in 1 .. n  BY <1>1
  <2> QED BY <2>1, <2>2
<1>3. t # Vertices
  <2> SUFFICES ASSUME t = Vertices PROVE FALSE
    OBVIOUS
  <2>1. \A v \in Vertices : \E i \in 1 .. k : s[i] = v  BY <1>1
  <2>2. s \in Surjection(1 .. k, Vertices)  BY <2>1 DEF Surjection
  <2>3. ExistsSurjection(1 .. k, Vertices)  BY <2>2 DEF ExistsSurjection
  <2>4. Cardinality(Vertices) <= k  BY <1>1, <2>3, FS_SurjCardinalityBound
  <2> QED BY <1>1, <2>4
<1>4. PICK m \in 1 .. Len(p) : p[m].source.vertex \in t /\ p[m].target.vertex \notin t
  <2> HIDE DEF t
  <2> QED BY <1>2, <1>3, EverySetIsLeft
<1>5. PICK i \in 1 .. n : p[m].source.vertex = s[i]  BY <1>4
<1>6. ASSUME NEW j \in 1 .. k, GoesTo(p, s, i, j) PROVE j > n
  <2>1. PICK l \in 1 .. Len(p) : p[l].source.vertex = s[i] /\ p[l].target.vertex = s[j]  BY <1>6 DEF GoesTo
  <2>2. l = m  BY <1>5, <2>1, TourShape
  <2>3. j \notin 1 .. n  BY <1>4, <2>1, <2>2
  <2> QED BY <1>1, <1>6, <2>3
<1> QED BY <1>6

\* If the tour goes from the first vertex to one that is not the last, then two do not count.
LEMMA TwoVerticesDoNotCount ==
  ASSUME NEW p \in Tours, NEW k \in 2 .. Cardinality(Vertices) - 1, NEW s \in [1 .. k -> Vertices],
         \A i, j \in 1 .. k : s[i] = s[j] => i = j,
         NEW h \in 2 .. k - 1, GoesTo(p, s, 1, h)
  PROVE  \E i, j \in 1 .. k : i # j /\ ~ Counts(p, s, k, i) /\ ~ Counts(p, s, k, j)
<1> DEFINE Goes(i, j) == GoesTo(p, s, i, j)
<1>1. k \in Nat /\ Cardinality(Vertices) \in Nat
  <2>1. Cardinality(Vertices) \in Nat  BY ExpandedAssumption, FS_CardinalityType
  <2> QED BY <2>1
<1>2. \A i, j, l \in 1 .. k : Goes(i, j) /\ Goes(i, l) => j = l
  <2> SUFFICES ASSUME NEW i \in 1 .. k, NEW j \in 1 .. k, NEW l \in 1 .. k, Goes(i, j), Goes(i, l) PROVE j = l
    OBVIOUS
  <2>1. PICK m \in 1 .. Len(p) : p[m].source.vertex = s[i] /\ p[m].target.vertex = s[j]  BY DEF GoesTo
  <2>2. PICK n \in 1 .. Len(p) : p[n].source.vertex = s[i] /\ p[n].target.vertex = s[l]  BY DEF GoesTo
  <2>3. m = n  BY <2>1, <2>2, TourShape
  <2> QED BY <2>1, <2>2, <2>3
<1>3. \A i, j, l \in 1 .. k : Goes(i, j) /\ Goes(l, j) => i = l
  <2> SUFFICES ASSUME NEW i \in 1 .. k, NEW j \in 1 .. k, NEW l \in 1 .. k, Goes(i, j), Goes(l, j) PROVE i = l
    OBVIOUS
  <2>1. PICK m \in 1 .. Len(p) : p[m].source.vertex = s[i] /\ p[m].target.vertex = s[j]  BY DEF GoesTo
  <2>2. PICK n \in 1 .. Len(p) : p[n].source.vertex = s[l] /\ p[n].target.vertex = s[j]  BY DEF GoesTo
  <2>3. m = n  BY <2>1, <2>2, TourShape
  <2> QED BY <2>1, <2>2, <2>3
<1>4. Goes(1, h)  OBVIOUS
<1> HIDE DEF Goes
<1> DEFINE T == {i \in 2 .. k : ~ Goes(i, i - 1)}
<1>5. h + 1 \in T
  <2>1. h + 1 \in 2 .. k /\ (h + 1) - 1 = h /\ h \in 1 .. k /\ 1 \in 1 .. k /\ h + 1 \in 1 .. k /\ h + 1 # 1  BY <1>1
  <2>2. ~ Goes(h + 1, h)  BY <1>3, <1>4, <2>1
  <2> QED BY <2>1, <2>2
<1>6. PICK i \in T : \A j \in T : j <= i
  <2>1. T \in SUBSET Nat /\ T # {} /\ \A j \in T : j <= k  BY <1>1, <1>5
  <2> HIDE DEF T
  <2> QED BY <1>1, <2>1, GreatestExists
<1>7. i \in 2 .. k /\ ~ Goes(i, i - 1) /\ i \in 1 .. k /\ h + 1 <= i  BY <1>1, <1>5, <1>6
<1>8. ASSUME NEW j \in i .. k - 1 PROVE Goes(j + 1, j)
  <2>1. j + 1 \in 2 .. k /\ ~ (j + 1 <= i) /\ (j + 1) - 1 = j  BY <1>1, <1>7
  <2>2. j + 1 \notin T  BY <1>6, <2>1
  <2> QED BY <2>1, <2>2
<1> HIDE DEF T
<1>9. ~ Counts(p, s, k, i)
  <2> SUFFICES ASSUME NEW j \in 1 .. k, Goes(i, j), FactorOf(k, i, j) # 0 PROVE FALSE
    BY DEF Counts, Goes
  <2>1. i # 1 /\ (j + 1 = i \/ (i < j /\ j < k))  BY <1>1, <1>7 DEF FactorOf, One
  <2>2. CASE j + 1 = i
    <3>1. j = i - 1  BY <1>1, <2>2
    <3> QED BY <1>7, <3>1
  <2>3. CASE i < j /\ j < k
    <3>1. j \in i .. k - 1 /\ j + 1 \in 1 .. k /\ j + 1 # i  BY <1>1, <1>7, <2>3
    <3>2. Goes(j + 1, j)  BY <1>8, <3>1
    <3> QED BY <1>3, <1>7, <3>1, <3>2
  <2> QED BY <2>1, <2>2, <2>3
<1>10. PICK l \in 1 .. i - 1 : \A j \in 1 .. k : Goes(l, j) => j > i - 1
  <2>1. i - 1 \in 1 .. k  BY <1>1, <1>7
  <2> QED BY <2>1, SomeVertexDoesNotCount DEF Goes
<1>11. l \in 1 .. k /\ l # i /\ l < i  BY <1>1, <1>7
<1>12. ~ Counts(p, s, k, l)
  <2> SUFFICES ASSUME NEW j \in 1 .. k, Goes(l, j), FactorOf(k, l, j) # 0 PROVE FALSE
    BY DEF Counts, Goes
  <2>1. j > i - 1  BY <1>10
  <2>2. CASE l = 1
    <3>1. h \in 1 .. k /\ 1 \in 1 .. k /\ ~ (h > i - 1)  BY <1>1, <1>7
    <3>2. j = h  BY <1>2, <1>4, <2>2, <3>1
    <3> QED BY <2>1, <3>1, <3>2
  <2>3. CASE l # 1
    <3>1. j + 1 = l \/ (l < j /\ j < k)  BY <2>3 DEF FactorOf, One
    <3>2. j # l - 1 /\ j >= i  BY <1>1, <1>7, <1>11, <2>1
    <3>3. j \in i .. k - 1 /\ j + 1 \in 1 .. k /\ j + 1 # l  BY <1>1, <1>7, <1>11, <3>1, <3>2
    <3>4. Goes(j + 1, j)  BY <1>8, <3>3
    <3> QED BY <1>3, <1>11, <3>3, <3>4
  <2> QED BY <2>2, <2>3
<1> QED BY <1>7, <1>9, <1>11, <1>12

LEMMA DKsKeepTours ==
  ASSUME NEW c \in DKs
  PROVE  KeepsTours(c)
<1> DEFINE Cycle(k) == {s \in [1 .. k -> Vertices] : \A i, j \in 1 .. k : s[i] = s[j] => i = j}
<1>1. PICK k \in 2 .. Cardinality(Vertices) - 1 : \E s \in Cycle(k) : c = [kind |-> "dk", cycle |-> s]
  BY DEF DKs
<1>2. PICK s \in Cycle(k) : c = [kind |-> "dk", cycle |-> s]  BY <1>1
<1>3. s \in [1 .. k -> Vertices] /\ \A i, j \in 1 .. k : s[i] = s[j] => i = j  OBVIOUS
<1> HIDE DEF Cycle
<1>4. k \in Nat /\ k \in 1 .. k /\ 1 \in 1 .. k
  <2>1. Cardinality(Vertices) \in Nat  BY ExpandedAssumption, FS_CardinalityType
  <2> QED BY <2>1
<1>5. \A e : dual(c, e) = factor(s, arc(e))
  BY <1>2 DEF dual, addDualCosts, dkDual
<1>6. \A e : /\ \A i, j \in 1 .. k : s[i] = e.source.vertex /\ s[j] = e.target.vertex
                                     => dual(c, e) = FactorOf(k, i, j)
             /\ dual(c, e) # 0 => \E i, j \in 1 .. k : s[i] = e.source.vertex /\ s[j] = e.target.vertex
             /\ dual(c, e) \in 0 .. 2
  <2> TAKE e
  <2>1. arc(e)[1] = e.source.vertex /\ arc(e)[2] = e.target.vertex  BY DEF arc
  <2>2. /\ \A i, j \in 1 .. k : s[i] = e.source.vertex /\ s[j] = e.target.vertex
                                => dual(c, e) = FactorOf(k, i, j)
        /\ dual(c, e) # 0 => \E i, j \in 1 .. k : s[i] = e.source.vertex /\ s[j] = e.target.vertex
    <3> DEFINE a == arc(e)
    <3>1. a[1] = e.source.vertex /\ a[2] = e.target.vertex /\ dual(c, e) = factor(s, a)  BY <1>5, <2>1
    <3> HIDE DEF a
    <3>2. /\ \A i, j \in 1 .. k : s[i] = a[1] /\ s[j] = a[2] => factor(s, a) = FactorOf(k, i, j)
          /\ factor(s, a) # 0 => \E i, j \in 1 .. k : s[i] = a[1] /\ s[j] = a[2]
      BY <1>3, <1>4, FactorOfPair
    <3> QED BY <3>1, <3>2
  <2>3. \A i, j \in 1 .. k : FactorOf(k, i, j) \in 0 .. 2  BY DEF FactorOf, One
  <2> QED BY <2>2, <2>3
<1>7. ASSUME NEW p \in Tours PROVE Admits(c, Value(c, ToSet(p)))
  <2> DEFINE f == [e \in ToSet(p) |-> dual(c, e)]
             Some == {e \in ToSet(p) : f[e] # 0}
             Twos == {e \in ToSet(p) : f[e] = 2}
             At(e) == CHOOSE i \in 1 .. k : s[i] = e.source.vertex
  <2>1. /\ ToSet(p) = {p[m] : m \in 1 .. Len(p)}
        /\ \A m, n \in 1 .. Len(p) : p[m].source.vertex = p[n].source.vertex => m = n
    BY TourShape
  <2>2. \A e, d \in ToSet(p) : e.source.vertex = d.source.vertex => e = d  BY <2>1
  <2>3. f \in [ToSet(p) -> 0 .. 2] /\ \A e \in ToSet(p) : f[e] = dual(c, e)  BY <1>6
  <2>4. PICK g : HasSums(g, f, ToSet(p)) /\ Value(c, ToSet(p)) = g[ToSet(p)]
    <3>1. \A e \in ToSet(p) : dual(c, e) \in Int  BY <1>6
    <3> QED BY <3>1, EdgesOfTour, ValueIsSum
  <2>5. IsFiniteSet(Some) /\ IsFiniteSet(Twos)
    <3>1. Some \in SUBSET ToSet(p) /\ Twos \in SUBSET ToSet(p)  OBVIOUS
    <3> HIDE DEF Some, Twos
    <3> QED BY <3>1, EdgesOfTour, FS_Subset
  <2>6. \A e \in Some : At(e) \in 1 .. k /\ s[At(e)] = e.source.vertex /\ Counts(p, s, k, At(e))
    <3> TAKE e \in Some
    <3>1. PICK i \in 1 .. k, j \in 1 .. k : s[i] = e.source.vertex /\ s[j] = e.target.vertex  BY <1>6, <2>3
    <3>2. At(e) \in 1 .. k /\ s[At(e)] = e.source.vertex  BY <3>1
    <3>3. FactorOf(k, At(e), j) # 0
      <4>1. e \in ToSet(p) /\ f[e] # 0  OBVIOUS
      <4> HIDE DEF At, f, Some
      <4> QED BY <1>6, <2>3, <3>1, <3>2, <4>1
    <3>4. GoesTo(p, s, At(e), j)
      <4>1. PICK m \in 1 .. Len(p) : e = p[m]  BY <2>1
      <4> HIDE DEF At
      <4> QED BY <3>1, <3>2, <4>1 DEF GoesTo
    <3> HIDE DEF At
    <3> QED BY <3>1, <3>2, <3>3, <3>4 DEF Counts
  <2>7. g[ToSet(p)] = Cardinality(Some) + Cardinality(Twos)
    <3> HIDE DEF f
    <3> QED BY <2>3, <2>4, EdgesOfTour, SumIsCount
  <2> HIDE DEF At
  <2>8. ASSUME NEW out, out \subseteq 1 .. k, \A i \in out : ~ Counts(p, s, k, i)
        PROVE  IsFiniteSet((1 .. k) \ out) /\ Cardinality(Some) <= Cardinality((1 .. k) \ out)
    <3> DEFINE at == [e \in Some |-> At(e)]
               rest == (1 .. k) \ out
    <3>1. \A e \in Some : At(e) \in rest  BY <2>6, <2>8
    <3>2. \A e, d \in Some : At(e) = At(d) => e = d  BY <2>2, <2>6
    <3>3. at \in Injection(Some, rest)
      <4> HIDE DEF Some, rest
      <4> QED BY <3>1, <3>2 DEF Injection, IsInjective
    <3>4. IsFiniteSet(1 .. k) /\ rest \in SUBSET (1 .. k)  BY <1>4, FS_Interval
    <3>5. IsFiniteSet(rest)
      <4> HIDE DEF rest
      <4> QED BY <3>4, FS_Subset
    <3> HIDE DEF at, Some
    <3> QED BY <3>3, <3>5, FS_Injection
  <2>9. IsFiniteSet(1 .. k) /\ Cardinality(1 .. k) = k
    <3>1. 1 \in Int /\ k \in Int /\ ~ (1 > k) /\ k - 1 + 1 = k  BY <1>4
    <3> QED BY <3>1, FS_Interval
  <2>10. Cardinality(Some) + Cardinality(Twos) <= k - 1
    <3>1. Cardinality(Some) \in Nat /\ Cardinality(Twos) \in Nat
      <4> HIDE DEF Some, Twos
      <4> QED BY <2>5, FS_CardinalityType
    <3>2. CASE Twos = {}
      <4>1. PICK i \in 1 .. k : \A j \in 1 .. k : GoesTo(p, s, i, j) => j > k
        BY <1>1, <1>3, <1>4, SomeVertexDoesNotCount
      <4>2. ~ Counts(p, s, k, i)  BY <1>4, <4>1 DEF Counts
      <4>3. Cardinality(Some) <= Cardinality((1 .. k) \ {i})
        <5>1. {i} \subseteq 1 .. k /\ \A l \in {i} : ~ Counts(p, s, k, l)  BY <4>2
        <5> HIDE DEF Some
        <5> QED BY <2>8, <5>1
      <4>4. Cardinality((1 .. k) \ {i}) = k - 1  BY <2>9, FS_RemoveElement
      <4>5. Cardinality(Twos) = 0  BY <3>2, FS_EmptySet
      <4> HIDE DEF Some, Twos
      <4> QED BY <1>4, <3>1, <4>3, <4>4, <4>5
    <3>3. CASE Twos # {}
      <4>1. PICK e \in Twos : TRUE  BY <3>3
      <4>2. e \in ToSet(p) /\ dual(c, e) = 2  BY <2>3
      <4>3. PICK i \in 1 .. k, h \in 1 .. k : s[i] = e.source.vertex /\ s[h] = e.target.vertex  BY <1>6, <4>2
      <4>4. FactorOf(k, i, h) = 2  BY <1>6, <4>2, <4>3
      <4>5. i = 1 /\ h # k  BY <4>4 DEF FactorOf, One
      <4>6. PICK m \in 1 .. Len(p) : e = p[m]  BY <2>1, <4>2
      <4>7. h # 1
        <5>1. e \in TimedEdges  BY <4>2, EdgesOfTour
        <5>2. e.source.vertex # e.target.vertex  BY <5>1, NetworkAssumption DEF IsNetwork
        <5> QED BY <4>3, <4>5, <5>2
      <4>8. h \in 2 .. k - 1  BY <1>4, <4>5, <4>7
      <4>9. GoesTo(p, s, 1, h)  BY <4>3, <4>5, <4>6 DEF GoesTo
      <4>10. PICK a \in 1 .. k, b \in 1 .. k : a # b /\ ~ Counts(p, s, k, a) /\ ~ Counts(p, s, k, b)
        BY <1>1, <1>3, <4>8, <4>9, TwoVerticesDoNotCount
      <4>11. Cardinality(Some) <= k - 2
        <5> DEFINE r == (1 .. k) \ {a}
        <5>1. IsFiniteSet(r) /\ Cardinality(r) = k - 1 /\ b \in r  BY <2>9, <4>10, FS_RemoveElement
        <5>2. (1 .. k) \ {a, b} = r \ {b}  OBVIOUS
        <5>3. Cardinality(Some) <= Cardinality((1 .. k) \ {a, b})
          <6>1. {a, b} \subseteq 1 .. k /\ \A l \in {a, b} : ~ Counts(p, s, k, l)  BY <4>10
          <6> HIDE DEF Some
          <6> QED BY <2>8, <6>1
        <5> HIDE DEF r
        <5>4. Cardinality(r \ {b}) = (k - 1) - 1  BY <5>1, FS_RemoveElement
        <5> HIDE DEF Some
        <5> QED BY <1>4, <5>2, <5>3, <5>4
      <4>12. Cardinality(Twos) <= 1
        <5>1. ASSUME NEW d \in Twos PROVE d.source.vertex = s[1]
          <6>1. d \in ToSet(p) /\ dual(c, d) = 2  BY <2>3
          <6>2. PICK l \in 1 .. k, n \in 1 .. k : s[l] = d.source.vertex /\ s[n] = d.target.vertex  BY <1>6, <6>1
          <6>3. FactorOf(k, l, n) = 2  BY <1>6, <6>1, <6>2
          <6>4. l = 1  BY <6>3 DEF FactorOf, One
          <6> QED BY <6>2, <6>4
        <5>2. \A d, b2 \in Twos : d = b2  BY <2>2, <5>1
        <5> HIDE DEF Twos
        <5> QED BY <2>5, <5>2, AtMostOne
      <4> HIDE DEF Some, Twos
      <4> QED BY <1>4, <3>1, <4>11, <4>12
    <3> QED BY <3>2, <3>3
  <2>11. Len(c.cycle) = k  BY <1>2, <1>3, <1>4
  <2>12. Value(c, ToSet(p)) <= k - 1
    <3> HIDE DEF Some, Twos, f
    <3> QED BY <2>4, <2>7, <2>10
  <2> QED BY <1>2, <2>11, <2>12 DEF Admits
<1> QED BY <1>7, KeepsToursIf

-----------------------------------------------------------------------------
(* Lifted subtours: what an arborescence costs at least.                   *)

ArcWeight(s, parent, v) ==
  IF v = Root THEN Distance[<<parent, Root>>]
  ELSE IF parent = Root THEN Entry(s, v)
  ELSE Distance[<<parent, v>>]

Trees(s) ==
  {q \in [(Vertices \ s) \cup {Root} -> (Vertices \ s) \cup {Root}] :
     /\ q[Root] # Root
     /\ \A d \in (SUBSET (Vertices \ s)) \ {{}} : \E v \in d : q[v] \notin d}

TreeWeight(s, q) == MapThenSumSet(LAMBDA v : ArcWeight(s, q[v], v), DOMAIN q)

LEMMA BoundIsLeast ==
  ASSUME NEW s
  PROVE  arborescenceBound(s) = Min({TreeWeight(s, q) : q \in Trees(s)})
BY DEF arborescenceBound, TreeWeight, Trees, ArcWeight

\* One enters the other vertices from the vertex in the set that is nearest.
LEMMA EntryIsLeast ==
  ASSUME NEW s \in SUBSET Vertices, Root \in s, NEW v \in Vertices \ s
  PROVE  Entry(s, v) \in Nat /\ \A u \in s : Entry(s, v) <= Distance[<<u, v>>]
<1> DEFINE T == {Distance[<<u, v>>] : u \in {u \in s : <<u, v>> \in Arcs}}
<1>1. \A u \in s : <<u, v>> \in Arcs /\ Distance[<<u, v>>] \in Nat /\ Distance[<<u, v>>] \in T
  <2> TAKE u \in s
  <2>1. u # v /\ u \in Vertices  OBVIOUS
  <2>2. <<u, v>> \in Arcs  BY <2>1, DistanceAssumption
  <2>3. Distance[<<u, v>>] \in Nat  BY <2>2, DistanceAssumption
  <2> QED BY <2>2, <2>3
<1>2. T \in SUBSET Nat /\ T # {}  BY <1>1
<1>3. Entry(s, v) = Min(T)  BY DEF Entry
<1> HIDE DEF T
<1>4. Min(T) \in T /\ \A n \in T : Min(T) <= n  BY <1>2, LeastExists
<1> QED BY <1>1, <1>2, <1>3, <1>4

LEMMA WeightsAreNumbers ==
  ASSUME NEW s \in SUBSET Vertices, Root \in s, NEW q \in Trees(s), NEW v \in (Vertices \ s) \cup {Root}
  PROVE  ArcWeight(s, q[v], v) \in Nat
<1>1. q[v] \in (Vertices \ s) \cup {Root} /\ q[Root] \in Vertices \ s /\ Root \in Vertices
  BY DEF Trees
<1>2. CASE v = Root
  <2>1. q[v] \in Vertices /\ q[v] # Root  BY <1>1, <1>2
  <2>2. <<q[v], Root>> \in Arcs  BY <1>1, <2>1, DistanceAssumption
  <2>3. Distance[<<q[v], Root>>] \in Nat  BY <2>2, DistanceAssumption
  <2> QED BY <1>2, <2>3 DEF ArcWeight
<1>3. CASE v # Root /\ q[v] = Root
  BY <1>3, EntryIsLeast DEF ArcWeight
<1>4. CASE v # Root /\ q[v] # Root
  <2>1. v \in Vertices \ s  BY <1>4
  <2>2. {v} \in (SUBSET (Vertices \ s)) \ {{}}  BY <2>1
  <2>3. \E w \in {v} : q[w] \notin {v}  BY <2>2 DEF Trees
  <2>4. q[v] # v /\ q[v] \in Vertices /\ v \in Vertices  BY <1>1, <1>4, <2>1, <2>3
  <2>5. <<q[v], v>> \in Arcs  BY <2>4, DistanceAssumption
  <2>6. Distance[<<q[v], v>>] \in Nat  BY <2>5, DistanceAssumption
  <2> QED BY <1>4, <2>6 DEF ArcWeight
<1> QED BY <1>2, <1>3, <1>4

LEMMA TreeWeightIsSum ==
  ASSUME NEW s \in SUBSET Vertices, Root \in s, NEW q \in Trees(s)
  PROVE  LET S == (Vertices \ s) \cup {Root}
         IN  \E g : /\ HasSums(g, [v \in S |-> ArcWeight(s, q[v], v)], S)
                    /\ TreeWeight(s, q) = g[S] /\ g[S] \in Nat
<1> DEFINE S == (Vertices \ s) \cup {Root}
           Weight(v) == ArcWeight(s, q[v], v)
           f == [v \in S |-> Weight(v)]
           Weights(g) == g = [t \in SUBSET S |-> IF t = {} THEN 0 ELSE Weight(First(t)) + g[t \ {First(t)}]]
<1>1. f \in [S -> Int] /\ \A v \in S : 0 <= f[v]
  <2>1. \A v \in S : Weight(v) \in Nat  BY WeightsAreNumbers
  <2> HIDE DEF S, Weight
  <2> QED BY <2>1
<1>2. IsFiniteSet(S)
  <2>1. S \in SUBSET Vertices /\ IsFiniteSet(Vertices)  BY ExpandedAssumption
  <2> HIDE DEF S
  <2> QED BY <2>1, FS_Subset
<1>3. DOMAIN q = S  BY DEF Trees
<1>4. TreeWeight(s, q) = (CHOOSE g : Weights(g))[S]
  <2> HIDE DEF S
  <2> QED BY <1>3 DEF TreeWeight, MapThenSumSet, MapThenFoldSet, First
<1>5. \A t \in SUBSET S : t # {} => First(t) \in S /\ f[First(t)] = Weight(First(t))
  <2> HIDE DEF S
  <2> QED BY DEF First
<1> HIDE DEF S, Weight
<1>6. \A g : Weights(g) <=> Sums(g, f, S)
  <2> TAKE g
  <2>1. [t \in SUBSET S |-> IF t = {} THEN 0 ELSE f[First(t)] + g[t \ {First(t)}]]
          = [t \in SUBSET S |-> IF t = {} THEN 0 ELSE Weight(First(t)) + g[t \ {First(t)}]]
    <3> HIDE DEF f
    <3> QED BY <1>5
  <2> HIDE DEF f
  <2> QED BY <2>1 DEF Sums
<1> HIDE DEF f, Weights
<1>7. (CHOOSE g : Weights(g)) = (CHOOSE g : Sums(g, f, S))
  BY <1>6
<1> DEFINE h == CHOOSE g : Sums(g, f, S)
<1>8. HasSums(h, f, S)
  BY <1>1, <1>2, SumsAre
<1>9. TreeWeight(s, q) = h[S]  BY <1>4, <1>7
<1> HIDE DEF h
<1>10. 0 <= h[S]  BY <1>1, <1>2, <1>8, SumIsAtLeast
<1>11. h[S] \in Int  BY <1>8 DEF HasSums
<1>12. HasSums(h, f, S) /\ TreeWeight(s, q) = h[S] /\ h[S] \in Nat
  BY <1>8, <1>9, <1>10, <1>11
<1> QED BY <1>12 DEF f, S, Weight

\* The bound is a lower bound.
LEMMA NoTreeIsCheaper ==
  ASSUME NEW s \in SUBSET Vertices, Root \in s, NEW q \in Trees(s)
  PROVE  arborescenceBound(s) \in Nat /\ arborescenceBound(s) <= TreeWeight(s, q)
<1> DEFINE T == {TreeWeight(s, r) : r \in Trees(s)}
<1>1. \A r \in Trees(s) : TreeWeight(s, r) \in Nat
  <2> TAKE r \in Trees(s)
  <2> DEFINE S == (Vertices \ s) \cup {Root}
  <2>1. \E g : TreeWeight(s, r) = g[S] /\ g[S] \in Nat  BY TreeWeightIsSum
  <2> QED BY <2>1
<1>2. T \in SUBSET Nat /\ TreeWeight(s, q) \in T  BY <1>1
<1>3. arborescenceBound(s) = Min(T)  BY BoundIsLeast
<1> HIDE DEF T
<1>4. Min(T) \in T /\ \A n \in T : Min(T) <= n  BY <1>2, LeastExists
<1> QED BY <1>2, <1>3, <1>4

\* No way back is faster than the direct one.
LEMMA WayBack ==
  ASSUME NEW p \in Tours, NEW l \in 1 .. Len(p) - 1
  PROVE  Distance[<<p[l].target.vertex, Root>>] <= Arrival(p) - p[l].target.time
<1> DEFINE N == Len(p)
           x == p[l].target.vertex
           At(n) == Distance[<<x, p[n].target.vertex>>] <= p[n].target.time - p[l].target.time
           S == {n \in Nat : l + 1 + n <= N => At(l + 1 + n)}
<1>1. /\ Chain(p) /\ N \in Nat \ {0} /\ p[N].target.vertex = Root /\ Arrival(p) = p[N].target.time
      /\ \A i \in 1 .. N : p[i].source.vertex \in Vertices /\ p[i].target.vertex \in Vertices
      /\ \A i, j \in 1 .. N : p[i].target.vertex = p[j].target.vertex => i = j
      /\ \A i \in 1 .. N - 1 : p[i].target = p[i + 1].source
  BY TourShape, ToursAreChains
<1>2. \A i \in 1 .. N : /\ p[i] \in TimedEdges /\ p[i].source.vertex # p[i].target.vertex
                        /\ p[i].source.time \in Nat /\ p[i].target.time \in Nat
  BY <1>1, EdgesOfChain
<1>3. \A i \in 1 .. N : Distance[<<p[i].source.vertex, p[i].target.vertex>>] <= p[i].target.time - p[i].source.time
  BY <1>2, DistanceAssumption DEF arc
<1>4. \A i \in 1 .. N : i # l => <<x, p[i].target.vertex>> \in Arcs /\ Distance[<<x, p[i].target.vertex>>] \in Nat
  <2> TAKE i \in 1 .. N
  <2> HAVE i # l
  <2>1. l \in 1 .. N  BY <1>1
  <2>2. x # p[i].target.vertex /\ x \in Vertices /\ p[i].target.vertex \in Vertices  BY <1>1, <2>1
  <2> HIDE DEF x
  <2>3. <<x, p[i].target.vertex>> \in Arcs  BY <2>2, DistanceAssumption
  <2>4. Distance[<<x, p[i].target.vertex>>] \in Nat  BY <2>3, DistanceAssumption
  <2> QED BY <2>3, <2>4
<1>5. 0 \in S
  <2>1. l \in 1 .. N - 1 /\ l + 1 + 0 = l + 1 /\ l + 1 \in 1 .. N /\ p[l + 1].source = p[l].target  BY <1>1
  <2>2. At(l + 1)  BY <1>3, <2>1
  <2> HIDE DEF At
  <2> QED BY <2>1, <2>2
<1>6. \A n \in S : n + 1 \in S
  <2> SUFFICES ASSUME NEW n \in S, l + 1 + (n + 1) <= N PROVE At(l + 1 + (n + 1))
    OBVIOUS
  <2> DEFINE i == l + 1 + n
  <2>1. /\ n \in Nat /\ i \in 1 .. N - 1 /\ i \in 1 .. N /\ i + 1 \in 1 .. N /\ l + 1 + (n + 1) = i + 1
        /\ i # l /\ i + 1 # l /\ l \in 1 .. N
    BY <1>1
  <2>2. At(i)
    <3>1. l + 1 + n <= N  BY <1>1, <2>1
    <3> HIDE DEF At
    <3> QED BY <3>1
  <2> HIDE DEF i, S
  <2>3. p[i].target = p[i + 1].source  BY <1>1, <2>1
  <2> DEFINE v == p[i].target.vertex
             w == p[i + 1].target.vertex
  <2>4. x \in Vertices /\ v \in Vertices /\ w \in Vertices /\ x # v /\ v # w /\ x # w
    BY <1>1, <1>2, <2>1, <2>3
  <2>5. Distance[<<v, w>>] <= p[i + 1].target.time - p[i].target.time  BY <1>3, <2>1, <2>3
  <2>6. Distance[<<x, v>>] \in Nat /\ Distance[<<x, w>>] \in Nat  BY <1>4, <2>1
  <2>7. Distance[<<x, v>>] <= p[i].target.time - p[l].target.time  BY <2>2
  <2>8. p[i].target.time \in Nat /\ p[i + 1].target.time \in Nat /\ p[l].target.time \in Nat  BY <1>2, <2>1
  <2>9. Distance[<<v, w>>] \in Nat
    <3> HIDE DEF v, w
    <3>1. <<v, w>> \in Arcs  BY <2>4, DistanceAssumption
    <3> QED BY <3>1, DistanceAssumption
  <2>10. Distance[<<x, w>>] <= Distance[<<x, v>>] + Distance[<<v, w>>]
    <3> HIDE DEF x, v, w
    <3> QED BY <2>4, DistanceAssumption
  <2>11. Distance[<<x, w>>] <= p[i + 1].target.time - p[l].target.time
    <3> DEFINE a == Distance[<<x, w>>]
               b == Distance[<<x, v>>]
               c == Distance[<<v, w>>]
               t == p[i].target.time
               t1 == p[i + 1].target.time
               tl == p[l].target.time
    <3>1. /\ a \in Nat /\ b \in Nat /\ c \in Nat /\ t \in Nat /\ t1 \in Nat /\ tl \in Nat
          /\ c <= t1 - t /\ b <= t - tl /\ a <= b + c
      BY <2>5, <2>6, <2>7, <2>8, <2>9, <2>10
    <3> HIDE DEF a, b, c, t, t1, tl
    <3>2. a <= t1 - tl  BY <3>1
    <3> QED BY <3>2 DEF a, t1, tl
  <2> QED BY <2>1, <2>11
<1>7. S = Nat
  <2>1. S \in SUBSET Nat  OBVIOUS
  <2> HIDE DEF S
  <2> QED BY <1>5, <1>6, <2>1, Induction
<1>8. N - l - 1 \in Nat /\ l + 1 + (N - l - 1) = N /\ N <= N  BY <1>1
<1>9. At(N)
  <2> HIDE DEF At
  <2>1. \A n \in Nat : l + 1 + n <= N => At(l + 1 + n)
    <3>1. \A n \in S : l + 1 + n <= N => At(l + 1 + n)  OBVIOUS
    <3> HIDE DEF S
    <3> QED BY <1>7, <3>1
  <2> QED BY <1>8, <2>1
<1> QED BY <1>1, <1>9

\* The edge on which a tour comes to a vertex; and a tour as an arborescence from a set
\* over the other vertices, whose last vertex is the one of some position.
Into(p, v) == CHOOSE j \in 1 .. Len(p) : p[j].target.vertex = v

TreeOf(p, s, l) ==
  [v \in (Vertices \ s) \cup {Root} |->
     IF v = Root THEN p[l].target.vertex
     ELSE IF p[Into(p, v)].source.vertex \in s THEN Root
     ELSE p[Into(p, v)].source.vertex]

LEMMA IntoVertex ==
  ASSUME NEW p \in Tours
  PROVE  /\ \A v \in Vertices : v # Root => Into(p, v) \in 1 .. Len(p) /\ p[Into(p, v)].target.vertex = v
         /\ \A j \in 1 .. Len(p) : Into(p, p[j].target.vertex) = j
<1>1. /\ Len(p) \in Nat \ {0} /\ p[1].source.vertex = Root
      /\ \A v \in Vertices : \E i \in 1 .. Len(p) : p[i].source.vertex = v
      /\ \A i, j \in 1 .. Len(p) : p[i].target.vertex = p[j].target.vertex => i = j
      /\ \A i \in 1 .. Len(p) - 1 : p[i].target = p[i + 1].source
  BY TourShape DEF Start
<1>2. \A v \in Vertices : v # Root => \E j \in 1 .. Len(p) : p[j].target.vertex = v
  <2> SUFFICES ASSUME NEW v \in Vertices, v # Root PROVE \E j \in 1 .. Len(p) : p[j].target.vertex = v
    OBVIOUS
  <2>1. PICK i \in 1 .. Len(p) : p[i].source.vertex = v  BY <1>1
  <2>2. i # 1  BY <1>1, <2>1
  <2>3. i - 1 \in 1 .. Len(p) - 1 /\ i - 1 \in 1 .. Len(p) /\ (i - 1) + 1 = i  BY <1>1, <2>2
  <2>4. p[i - 1].target = p[(i - 1) + 1].source  BY <1>1, <2>3
  <2> QED BY <2>1, <2>3, <2>4
<1>3. \A v : (\E j \in 1 .. Len(p) : p[j].target.vertex = v)
               => Into(p, v) \in 1 .. Len(p) /\ p[Into(p, v)].target.vertex = v
  BY DEF Into
<1>4. \A j \in 1 .. Len(p) : Into(p, p[j].target.vertex) = j
  <2> TAKE j \in 1 .. Len(p)
  <2> DEFINE k == Into(p, p[j].target.vertex)
  <2>1. k \in 1 .. Len(p) /\ p[k].target.vertex = p[j].target.vertex  BY <1>3
  <2> HIDE DEF k
  <2>2. k = j  BY <1>1, <2>1
  <2> QED BY <2>2 DEF k
<1> QED BY <1>2, <1>3, <1>4

LEMMA TourIsTree ==
  ASSUME NEW p \in Tours, NEW s \in SUBSET Vertices, Root \in s,
         NEW l \in 1 .. Len(p), p[l].target.vertex \notin s
  PROVE  /\ TreeOf(p, s, l) \in Trees(s)
         /\ \A v \in Vertices \ s :
              ArcWeight(s, TreeOf(p, s, l)[v], v) <= p[Into(p, v)].target.time - p[Into(p, v)].source.time
<1> DEFINE q == TreeOf(p, s, l)
           others == Vertices \ s
<1>1. /\ Chain(p) /\ Len(p) \in Nat \ {0} /\ p[1].source.vertex = Root /\ Root \in Vertices
      /\ \A i \in 1 .. Len(p) : p[i].source.vertex \in Vertices /\ p[i].target.vertex \in Vertices
      /\ \A i \in 1 .. Len(p) - 1 : p[i].target = p[i + 1].source
  BY TourShape, ExpandedAssumption DEF Start
<1>2. \A v \in others : v # Root /\ Into(p, v) \in 1 .. Len(p) /\ p[Into(p, v)].target.vertex = v
  BY IntoVertex
<1>3. \A j \in 1 .. Len(p) : Into(p, p[j].target.vertex) = j  BY IntoVertex
<1>4. /\ q[Root] = p[l].target.vertex /\ q[Root] \in others /\ q[Root] # Root
      /\ \A v \in others : q[v] = IF p[Into(p, v)].source.vertex \in s THEN Root ELSE p[Into(p, v)].source.vertex
  BY <1>1, <1>2 DEF TreeOf
<1>5. q \in [others \cup {Root} -> others \cup {Root}]
  <2>1. \A v \in others : q[v] \in others \cup {Root}  BY <1>1, <1>2, <1>4
  <2>2. q = [v \in others \cup {Root} |-> q[v]]  BY DEF TreeOf
  <2> HIDE DEF q, others
  <2> QED BY <1>4, <2>1, <2>2
<1> HIDE DEF q
<1>6. ASSUME NEW d \in (SUBSET others) \ {{}} PROVE \E v \in d : q[v] \notin d
  <2> DEFINE T == {j \in 1 .. Len(p) : p[j].target.vertex \in d}
  <2>1. T \in SUBSET Nat /\ T # {}
    <3>1. PICK v \in d : v \in others  BY <1>6
    <3>2. Into(p, v) \in T  BY <1>2, <3>1
    <3> QED BY <3>2
  <2>2. PICK j \in T : \A i \in T : j <= i
    <3> HIDE DEF T
    <3> QED BY <2>1, LeastExists
  <2> DEFINE v == p[j].target.vertex
             u == p[j].source.vertex
  <2>3. j \in 1 .. Len(p) /\ v \in d /\ v \in others /\ Into(p, v) = j  BY <1>3, <1>6
  <2>4. q[v] = IF u \in s THEN Root ELSE u  BY <1>4, <2>3
  <2>5. q[v] \notin d
    <3>1. CASE u \in s  BY <1>2, <1>6, <2>4, <3>1
    <3>2. CASE u \notin s
      <4> SUFFICES ASSUME u \in d PROVE FALSE
        BY <2>4, <3>2
      <4>1. j # 1  BY <1>1, <3>2
      <4>2. j - 1 \in 1 .. Len(p) - 1 /\ j - 1 \in 1 .. Len(p) /\ (j - 1) + 1 = j /\ ~ (j <= j - 1)  BY <1>1, <2>3, <4>1
      <4>3. p[j - 1].target = p[(j - 1) + 1].source  BY <1>1, <4>2
      <4>4. p[j - 1].target.vertex = u  BY <4>2, <4>3
      <4>5. j - 1 \in T  BY <4>2, <4>4
      <4> QED BY <2>2, <4>2, <4>5
    <3> QED BY <3>1, <3>2
  <2> QED BY <2>3, <2>5
<1>7. q \in Trees(s)
  BY <1>4, <1>5, <1>6 DEF Trees
<1>8. ASSUME NEW v \in others
      PROVE  ArcWeight(s, q[v], v) <= p[Into(p, v)].target.time - p[Into(p, v)].source.time
  <2> DEFINE e == p[Into(p, v)]
             u == e.source.vertex
  <2>1. e \in TimedEdges /\ e.target.vertex = v /\ e.source.time \in Nat /\ e.target.time \in Nat /\ u \in Vertices /\ u # v
    BY <1>1, <1>2, EdgesOfChain
  <2>2. q[v] = IF u \in s THEN Root ELSE u  BY <1>4
  <2> HIDE DEF e
  <2>3. Distance[<<u, v>>] <= e.target.time - e.source.time
    BY <2>1, DistanceAssumption DEF arc
  <2>4. Distance[<<u, v>>] \in Nat
    <3>1. <<u, v>> \in Arcs  BY <2>1, DistanceAssumption
    <3> QED BY <3>1, DistanceAssumption
  <2>5. ArcWeight(s, q[v], v) <= Distance[<<u, v>>]
    <3>1. CASE u \in s
      <4>1. ArcWeight(s, q[v], v) = Entry(s, v)  BY <1>2, <2>2, <3>1 DEF ArcWeight
      <4>2. Entry(s, v) <= Distance[<<u, v>>]  BY <3>1, EntryIsLeast
      <4> QED BY <4>1, <4>2
    <3>2. CASE u \notin s
      <4>1. v # Root /\ u # Root /\ q[v] = u  BY <1>2, <2>2, <3>2
      <4>2. ArcWeight(s, q[v], v) = Distance[<<u, v>>]  BY <4>1 DEF ArcWeight
      <4> QED BY <2>4, <4>2
    <3> QED BY <3>1, <3>2
  <2>6. ArcWeight(s, q[v], v) \in Nat  BY <1>7, WeightsAreNumbers
  <2> HIDE DEF u
  <2>7. ArcWeight(s, q[v], v) <= e.target.time - e.source.time
    BY <2>1, <2>3, <2>4, <2>5, <2>6
  <2> QED BY <2>7 DEF e
<1> QED BY <1>7, <1>8 DEF q

\* From where a tour leaves the set for the first time, it takes as long as some
\* arborescence costs.
LEMMA TourIsNoCheaper ==
  ASSUME NEW p \in Tours, NEW s \in SUBSET Vertices, Root \in s, s # Vertices
  PROVE  \E m \in 1 .. Len(p) : /\ p[m].source.vertex \in s /\ p[m].target.vertex \notin s
                                /\ arborescenceBound(s) \in Nat
                                /\ arborescenceBound(s) <= Arrival(p) - p[m].source.time
<1> DEFINE N == Len(p)
           others == Vertices \ s
           S == others \cup {Root}
           Out == {j \in 1 .. N : p[j].target.vertex \notin s}
<1>1. /\ Chain(p) /\ N \in Nat \ {0} /\ p[1].source.vertex = Root /\ p[N].target.vertex = Root
      /\ \A i \in 1 .. N : p[i].source.vertex \in Vertices /\ p[i].target.vertex \in Vertices
      /\ \A i \in 1 .. N - 1 : p[i].target = p[i + 1].source
      /\ Arrival(p) = p[N].target.time
  BY TourShape, ToursAreChains DEF Start
<1>2. \A i \in 1 .. N : /\ p[i].source \in TimedVertices /\ p[i].target \in TimedVertices
                        /\ p[i].source.time \in Nat /\ p[i].target.time \in Nat
                        /\ p[i].source.time < p[i].target.time
  BY <1>1, EdgesOfChain
<1>3. \A v \in others : Into(p, v) \in 1 .. N /\ p[Into(p, v)].target.vertex = v
  <2>1. \A v \in others : v \in Vertices /\ v # Root  OBVIOUS
  <2> QED BY <2>1, IntoVertex
<1>4. \A j \in 1 .. N : Into(p, p[j].target.vertex) = j  BY IntoVertex
<1>5. Out # {} /\ Out \in SUBSET Nat /\ \A j \in Out : j <= N
  <2>1. PICK v \in Vertices : v \notin s  OBVIOUS
  <2>2. Into(p, v) \in Out  BY <1>3, <2>1
  <2> QED BY <1>1, <2>2
<1>6. PICK l \in Out : \A j \in Out : j <= l
  <2> HIDE DEF Out
  <2> QED BY <1>1, <1>5, GreatestExists
<1>7. l \in 1 .. N /\ p[l].target.vertex \notin s /\ l \in 1 .. N - 1
  <2>1. l \in 1 .. N /\ p[l].target.vertex \notin s  OBVIOUS
  <2>2. l # N  BY <1>1, <2>1
  <2> QED BY <1>1, <2>1, <2>2
<1>8. PICK m \in 1 .. l : /\ p[m].source.vertex \in s /\ p[m].target.vertex \notin s
                          /\ \A j \in 1 .. m : p[j].source.vertex \in s
  <2>1. 1 \in 1 .. N /\ l \in 1 .. N  BY <1>1, <1>7
  <2>2. p[1].source \in Over(s) /\ p[l].target \notin Over(s)  BY <1>1, <1>2, <1>7, <2>1 DEF Over
  <2>3. PICK m \in 1 .. l : p[m].source \in Over(s) /\ p[m].target \notin Over(s)
                            /\ \A j \in 1 .. m : p[j].source \in Over(s)
    BY <1>1, <2>1, <2>2, FirstExit
  <2>4. m \in 1 .. N  BY <1>7
  <2> QED BY <1>2, <2>3, <2>4 DEF Over
<1>9. m \in 1 .. N /\ m <= l  BY <1>7
<1> HIDE DEF Out
<1> DEFINE q == TreeOf(p, s, l)
           Weight(v) == ArcWeight(s, q[v], v)
           f == [v \in S |-> Weight(v)]
<1>10. /\ q \in Trees(s) /\ q[Root] = p[l].target.vertex
       /\ \A v \in others : Weight(v) <= p[Into(p, v)].target.time - p[Into(p, v)].source.time
  <2>1. q[Root] = p[l].target.vertex  BY DEF TreeOf
  <2> HIDE DEF others
  <2>2. /\ q \in Trees(s)
        /\ \A v \in Vertices \ s : Weight(v) <= p[Into(p, v)].target.time - p[Into(p, v)].source.time
    BY <1>7, TourIsTree
  <2> QED BY <2>1, <2>2 DEF others
<1> HIDE DEF q
<1>11. Weight(Root) = Distance[<<p[l].target.vertex, Root>>]  BY <1>10 DEF ArcWeight
<1>12. PICK g : HasSums(g, f, S) /\ TreeWeight(s, q) = g[S] /\ g[S] \in Nat
  BY <1>10, TreeWeightIsSum
<1>13. \A v \in S : Weight(v) \in Nat  BY <1>10, WeightsAreNumbers
<1>14. IsFiniteSet(S) /\ f \in [S -> Int] /\ \A v \in S : f[v] = Weight(v)
  <2>1. S \in SUBSET Vertices /\ IsFiniteSet(Vertices)  BY ExpandedAssumption
  <2> HIDE DEF S, Weight
  <2> QED BY <1>13, <2>1, FS_Subset
<1> HIDE DEF f, Weight
<1>15. InAnyOrder(g, f, S) /\ g \in [SUBSET S -> Int] /\ g[{}] = 0
  <2> HIDE DEF S
  <2>1. InAnyOrder(g, f, S)  BY <1>12, <1>14, SumInAnyOrder
  <2> QED BY <1>12, <2>1 DEF HasSums
<1>16. \A t \in SUBSET S : \A y \in t : g[t] = f[y] + g[t \ {y}]  BY <1>15 DEF InAnyOrder
<1> DEFINE Upto(n) == {v \in others : Into(p, v) <= n}
           Fits(n) == g[Upto(n)] <= p[n].target.time - p[m].source.time
           T == {n \in Nat : m + n <= N => Fits(m + n)}
<1>17. 0 \in T
  <2> DEFINE w == p[m].target.vertex
  <2>1. w \in others /\ Into(p, w) = m  BY <1>1, <1>4, <1>8, <1>9
  <2>2. Upto(m) = {w}
    <3>1. ASSUME NEW v \in others, Into(p, v) <= m, v # w PROVE FALSE
      <4> DEFINE i == Into(p, v)
      <4>1. i \in 1 .. N /\ p[i].target.vertex = v /\ i <= m  BY <1>3, <3>1
      <4> HIDE DEF i
      <4>2. i # m  BY <3>1, <4>1
      <4>3. i \in 1 .. N - 1 /\ i + 1 \in 1 .. m  BY <1>1, <1>9, <4>1, <4>2
      <4>4. p[i].target = p[i + 1].source  BY <1>1, <4>3
      <4>5. v \in s  BY <1>8, <4>1, <4>3, <4>4
      <4> QED BY <3>1, <4>5
    <3>2. w \in Upto(m)  BY <1>9, <2>1
    <3> QED BY <3>1, <3>2
  <2>3. g[{w}] = f[w] + g[{}]
    <3>1. {w} \in SUBSET S /\ w \in {w} /\ {w} \ {w} = {}  BY <2>1
    <3> HIDE DEF S, w
    <3> QED BY <1>16, <3>1
  <2>4. f[w] = Weight(w) /\ Weight(w) \in Nat /\ Weight(w) <= p[m].target.time - p[m].source.time
    <3>1. w \in S  BY <2>1
    <3> HIDE DEF w, S
    <3> QED BY <1>10, <1>13, <1>14, <2>1, <3>1
  <2> HIDE DEF Upto, w
  <2>5. Fits(m)  BY <1>15, <2>2, <2>3, <2>4
  <2> HIDE DEF Fits
  <2>6. m + 0 = m  BY <1>9
  <2> QED BY <2>5, <2>6
<1>18. \A n \in T : n + 1 \in T
  <2> SUFFICES ASSUME NEW n \in T, m + (n + 1) <= N PROVE Fits(m + (n + 1))
    <3> HIDE DEF Fits
    <3> QED OBVIOUS
  <2> DEFINE i == m + n
  <2>1. n \in Nat /\ i \in 1 .. N - 1 /\ i \in 1 .. N /\ i + 1 \in 1 .. N /\ m + (n + 1) = i + 1 /\ m + n <= N
    BY <1>1, <1>9
  <2>2. Fits(i)
    <3> HIDE DEF Fits
    <3> QED BY <2>1
  <2> HIDE DEF i, T
  <2> DEFINE w == p[i + 1].target.vertex
             t == p[i].target.time
             t1 == p[i + 1].target.time
             tm == p[m].source.time
  <2>3. p[i + 1].source.time = t /\ t \in Nat /\ t1 \in Nat /\ tm \in Nat /\ t < t1
    <3>1. p[i].target = p[i + 1].source  BY <1>1, <2>1
    <3> QED BY <1>2, <1>9, <2>1, <3>1
  <2>4. Into(p, w) = i + 1  BY <1>4, <2>1
  <2>5. Upto(i) \in SUBSET S /\ g[Upto(i)] \in Int
    <3>1. Upto(i) \in SUBSET S  OBVIOUS
    <3> HIDE DEF Upto, S
    <3> QED BY <1>15, <3>1
  <2>6. \A v \in others : Into(p, v) = i + 1 => v = w  BY <1>3
  <2>7. CASE w \in others
    <3>1. Upto(i + 1) \in SUBSET S /\ w \in Upto(i + 1)  BY <2>1, <2>4, <2>7
    <3>2. Upto(i + 1) \ {w} = Upto(i)
      <4>1. \A v \in others : v # w => (Into(p, v) <= i + 1 <=> Into(p, v) <= i)
        BY <1>3, <2>1, <2>6
      <4>2. ~ (Into(p, w) <= i)  BY <2>1, <2>4
      <4> HIDE DEF w, others
      <4> QED BY <4>1, <4>2
    <3>3. g[Upto(i + 1)] = f[w] + g[Upto(i)]
      <4> HIDE DEF Upto, S, w
      <4> QED BY <1>16, <3>1, <3>2
    <3>4. f[w] = Weight(w) /\ Weight(w) \in Nat /\ Weight(w) <= t1 - t
      <4>1. w \in S  BY <2>7
      <4>2. Weight(w) <= p[i + 1].target.time - p[i + 1].source.time
        <5> HIDE DEF w
        <5> QED BY <1>10, <2>4, <2>7
      <4> HIDE DEF w, S
      <4> QED BY <1>13, <1>14, <2>3, <4>1, <4>2
    <3> DEFINE a == g[Upto(i)]
               b == Weight(w)
    <3>5. g[Upto(i + 1)] = b + a /\ a \in Int /\ b \in Nat /\ b <= t1 - t /\ a <= t - tm
      <4> HIDE DEF Upto, w
      <4> QED BY <2>2, <2>5, <3>3, <3>4
    <3> HIDE DEF a, b, t, t1, tm, Upto
    <3>6. g[Upto(i + 1)] <= t1 - tm  BY <2>3, <3>5
    <3> QED BY <2>1, <3>6 DEF t1, tm
  <2>8. CASE w \notin others
    <3>1. Upto(i + 1) = Upto(i)
      <4>1. \A v \in others : Into(p, v) <= i + 1 <=> Into(p, v) <= i
        BY <1>3, <2>1, <2>6, <2>8
      <4> HIDE DEF others
      <4> QED BY <4>1
    <3> DEFINE a == g[Upto(i)]
    <3>2. g[Upto(i + 1)] = a /\ a \in Int /\ a <= t - tm
      <4> HIDE DEF Upto
      <4> QED BY <2>2, <2>5, <3>1
    <3> HIDE DEF a, t, t1, tm, Upto
    <3>3. g[Upto(i + 1)] <= t1 - tm  BY <2>3, <3>2
    <3> QED BY <2>1, <3>3 DEF t1, tm
  <2> QED BY <2>7, <2>8
<1>19. T = Nat
  <2>1. T \in SUBSET Nat  OBVIOUS
  <2> HIDE DEF T
  <2> QED BY <1>17, <1>18, <2>1, Induction
<1>20. Fits(l)
  <2> HIDE DEF Fits
  <2>1. \A n \in Nat : m + n <= N => Fits(m + n)
    <3>1. \A n \in T : m + n <= N => Fits(m + n)  OBVIOUS
    <3> HIDE DEF T
    <3> QED BY <1>19, <3>1
  <2>2. l - m \in Nat /\ m + (l - m) = l /\ l <= N  BY <1>1, <1>7, <1>9
  <2> QED BY <2>1, <2>2
<1>21. Upto(l) = others
  <2>1. \A v \in others : Into(p, v) <= l
    <3> TAKE v \in others
    <3>1. Into(p, v) \in Out  BY <1>3 DEF Out
    <3> QED BY <1>6, <3>1
  <2> QED BY <2>1
<1>22. g[S] = f[Root] + g[others] /\ g[others] \in Int
  <2>1. S \in SUBSET S /\ Root \in S /\ S \ {Root} = others /\ others \in SUBSET S  OBVIOUS
  <2> HIDE DEF S, others
  <2> QED BY <1>15, <1>16, <2>1
<1>23. f[Root] = Weight(Root) /\ Weight(Root) \in Nat
  <2>1. Root \in S  OBVIOUS
  <2> HIDE DEF S
  <2> QED BY <1>13, <1>14, <2>1
<1>24. Weight(Root) <= Arrival(p) - p[l].target.time  BY <1>7, <1>11, WayBack
<1>25. g[others] <= p[l].target.time - p[m].source.time
  <2> HIDE DEF Upto, others
  <2> QED BY <1>20, <1>21
<1>26. arborescenceBound(s) \in Nat /\ arborescenceBound(s) <= g[S]
  BY <1>10, <1>12, NoTreeIsCheaper
<1> DEFINE a == g[others]
           b == Weight(Root)
           tl == p[l].target.time
           tm == p[m].source.time
           bound == arborescenceBound(s)
           end == Arrival(p)
           sum == g[S]
<1>27. /\ a \in Int /\ b \in Nat /\ tl \in Nat /\ tm \in Nat /\ bound \in Nat /\ end \in Nat /\ sum \in Nat
       /\ sum = b + a /\ b <= end - tl /\ a <= tl - tm /\ bound <= sum
  <2>1. end \in Nat /\ tl \in Nat /\ tm \in Nat
    <3>1. N \in 1 .. N  BY <1>1
    <3> QED BY <1>1, <1>2, <1>7, <1>9, <3>1
  <2> HIDE DEF S, others
  <2> QED BY <1>12, <1>22, <1>23, <1>24, <1>25, <1>26, <2>1
<1> HIDE DEF a, b, tl, tm, bound, end, sum
<1>28. bound <= end - tm  BY <1>27
<1> QED BY <1>8, <1>9, <1>27, <1>28 DEF bound, end, tm

\* Who leaves the set in time counts, and every tour does so once.
LEMMA LiftedSubtoursKeepTours ==
  ASSUME NEW c \in LiftedSubtours
  PROVE  KeepsTours(c)
<1>1. PICK s \in {s \in (SUBSET Vertices) \ {Vertices} : Root \in s} :
        c = [kind |-> "lifted", set |-> s, maxTime |-> Horizon - arborescenceBound(s)]
  BY DEF LiftedSubtours
<1>2. s \in SUBSET Vertices /\ s # Vertices /\ Root \in s  OBVIOUS
<1>3. c.kind = "lifted" /\ c.set = s /\ c.maxTime = Horizon - arborescenceBound(s)  BY <1>1
<1>4. \A e : dual(c, e) = One(leaves(arc(e), s) /\ e.source.time <= c.maxTime)
  BY <1>3 DEF dual, addDualCosts, liftedDual
<1>5. ASSUME NEW p \in Tours PROVE Admits(c, Value(c, ToSet(p)))
  <2>1. PICK m \in 1 .. Len(p) : /\ p[m].source.vertex \in s /\ p[m].target.vertex \notin s
                                 /\ arborescenceBound(s) \in Nat
                                 /\ arborescenceBound(s) <= Arrival(p) - p[m].source.time
    BY <1>2, TourIsNoCheaper
  <2>2. p[m].source.time <= c.maxTime
    <3>1. /\ Chain(p) /\ Len(p) \in Nat \ {0} /\ Arrival(p) = p[Len(p)].target.time
      BY ToursAreChains
    <3>2. Len(p) \in 1 .. Len(p)  BY <3>1
    <3>3. Arrival(p) \in Nat /\ p[Len(p)].target \in TimedVertices /\ p[m].source.time \in Nat
      BY <3>1, <3>2, EdgesOfChain
    <3>4. Arrival(p) <= Horizon /\ Horizon \in Nat  BY <3>1, <3>3, ExpandedAssumption
    <3> QED BY <1>3, <2>1, <3>3, <3>4
  <2>3. arc(p[m])[1] = p[m].source.vertex /\ arc(p[m])[2] = p[m].target.vertex  BY DEF arc
  <2>4. dual(c, p[m]) = 1  BY <1>4, <2>1, <2>2, <2>3 DEF One, leaves
  <2>5. \A e \in ToSet(p) : dual(c, e) \in {0, 1}  BY <1>4 DEF One
  <2>6. p[m] \in ToSet(p)  BY TourShape
  <2>7. Value(c, ToSet(p)) >= 1  BY <2>4, <2>5, <2>6, EdgesOfTour, SomeEdgeCounts
  <2> QED BY <1>3, <2>7 DEF Admits
<1> QED BY <1>5, KeepsToursIf

-----------------------------------------------------------------------------
(* Whatever is separated.                                                  *)

LEMMA FamiliesKeepTours ==
  ASSUME setting \in Settings, variables \subseteq TimedEdges, NEW c \in Families, ~ Spanning(c)
  PROVE  KeepsTours(c)
<1> DEFINE Kinds == {"subtour", "lifted", "cycle", "dk", "oddCAT", "unitaryAFC", "pathFree"}
           Of(kind) == CASE kind = "subtour"    -> Subtours
                         [] kind = "lifted"     -> LiftedSubtours
                         [] kind = "cycle"      -> Cycles({p \in Walks : ToSet(p) \subseteq variables})
                         [] kind = "dk"         -> DKs
                         [] kind = "oddCAT"     -> AllOddCATs
                         [] kind = "unitaryAFC" -> {d \in UnitaryAFCs : d.incoming \in variables}
                         [] kind = "pathFree"   -> OddPathFrees(variables)
<1>1. PICK kind \in Kinds : c \in Of(kind)
  <2>1. \E kind \in setting.separators : c \in Of(kind)
    <3>1. Families = UNION {Of(kind) : kind \in setting.separators}  BY DEF Families
    <3> HIDE DEF Of
    <3> QED BY <3>1
  <2>2. setting.separators \subseteq Kinds  BY ExpandedAssumption
  <2> HIDE DEF Kinds, Of
  <2> QED BY <2>1, <2>2
<1>2. CASE kind = "subtour"
  <2>1. c \in Subtours  BY <1>1, <1>2
  <2> QED BY <2>1, SubtoursKeepTours
<1>3. CASE kind = "lifted"
  <2>1. c \in LiftedSubtours  BY <1>1, <1>3
  <2> QED BY <2>1, LiftedSubtoursKeepTours
<1>4. CASE kind = "cycle"
  <2>1. c \in Cycles({p \in Walks : ToSet(p) \subseteq variables})  BY <1>1, <1>4
  <2>2. c \in Cycles(Walks)  BY <2>1 DEF Cycles
  <2> QED BY <2>2, CyclesKeepTours
<1>5. CASE kind = "dk"
  <2>1. c \in DKs  BY <1>1, <1>5
  <2> QED BY <2>1, DKsKeepTours
<1>6. CASE kind = "oddCAT"
  <2>1. c \in OddCATs(Arcs)  BY <1>1, <1>6 DEF AllOddCATs
  <2> QED BY <2>1, OddCATsKeepTours
<1>7. CASE kind = "unitaryAFC"
  <2>1. c \in UnitaryAFCs  BY <1>1, <1>7
  <2> QED BY <2>1, UnitaryAFCsKeepTours
<1>8. CASE kind = "pathFree"
  <2>1. c \in OddPathFrees(variables)  BY <1>1, <1>8
  <2>2. c \in OddPathFrees(TimedEdges)
    <3> DEFINE Among(edges, t) == {e \in edges : e.source.vertex \in t /\ e.target.vertex \in t}
               Sets(edges, t) == {s \in (SUBSET Among(edges, t)) \ {{}} : pathFree(s)}
               Triples == kSubset(3, Vertices \ {Root})
    <3>1. PICK t \in Triples : \E s \in Sets(variables, t) : c = [kind |-> "pathFree", edges |-> s]
      BY <2>1 DEF OddPathFrees
    <3>2. PICK s \in Sets(variables, t) : c = [kind |-> "pathFree", edges |-> s]  BY <3>1
    <3>3. s \in Sets(TimedEdges, t)  OBVIOUS
    <3>4. OddPathFrees(TimedEdges) = {[kind |-> "pathFree", edges |-> r] : r \in UNION {Sets(TimedEdges, u) : u \in Triples}}
      BY DEF OddPathFrees
    <3> HIDE DEF Sets, Triples
    <3> QED BY <3>1, <3>2, <3>3, <3>4
  <2> QED BY <2>2, OddPathFreesKeepTours
<1> QED BY <1>1, <1>2, <1>3, <1>4, <1>5, <1>6, <1>7, <1>8

CInv == TInv /\ ProperCutsKeepTours

LEMMA CutsInit == Init => CInv
<1> SUFFICES ASSUME Init PROVE CInv
  OBVIOUS
<1>1. DOMAIN rows = {LinkingRow(a) : a \in Arcs}  BY DEF Init
<1>2. Cuts = {}  BY <1>1 DEF Cuts, LinkingRow
<1> QED BY <1>2, ToursInit DEF CInv, ProperCutsKeepTours

\* Only separation adds cuts: what a new variable opens are flow rows.
LEMMA CutsNext == CInv /\ [Next]_vars => CInv'
<1> SUFFICES ASSUME CInv, [Next]_vars PROVE CInv'
  OBVIOUS
<1>1. TInv'  BY ToursNext DEF CInv
<1>2. /\ setting \in Settings /\ variables \subseteq TimedEdges
      /\ \A cut \in Cuts : ~ Spanning(cut) => KeepsTours(cut)
  BY DEF CInv, TInv, RInv, ProperCutsKeepTours
<1>3. ASSUME \A cut \in Cuts' : cut \in Cuts \/ cut \in Families PROVE CInv'
  <2>1. \A cut \in Cuts' : ~ Spanning(cut) => KeepsTours(cut)  BY <1>2, <1>3, FamiliesKeepTours
  <2>2. ProperCutsKeepTours'  BY <2>1 DEF ProperCutsKeepTours
  <2> QED BY <1>1, <2>2 DEF CInv
<1>4. ASSUME UNCHANGED rows PROVE CInv'
  <2>1. Cuts' = Cuts  BY <1>4 DEF Cuts
  <2> QED BY <1>3, <2>1
<1>5. ASSUME NEW edges, AddEdges(edges) PROVE CInv'
  <2>1. \A row \in DOMAIN rows' : row \in DOMAIN rows \/ row.kind = "flow"
    BY <1>5 DEF AddEdges, addVertex, FlowRow
  <2>2. \A cut \in Cuts' : cut \in Cuts  BY <2>1 DEF Cuts
  <2> QED BY <1>3, <2>2
<1>6. CASE Separate
  <2>1. PICK n \in 0 .. maxCutsPerRound : \E new \in [1 .. n -> Families \ DOMAIN rows] :
          rows' = [row \in DOMAIN rows \cup ToSet(new) |->
                     IF row \in ToSet(new) THEN [e \in variables |-> createCut(row, e)] ELSE rows[row]]
    BY <1>6 DEF Separate
  <2>2. PICK new \in [1 .. n -> Families \ DOMAIN rows] : DOMAIN rows' = DOMAIN rows \cup ToSet(new)
    BY <2>1
  <2>3. ToSet(new) \subseteq Families  BY DEF ToSet
  <2>4. \A cut \in Cuts' : cut \in Cuts \/ cut \in Families  BY <2>2, <2>3 DEF Cuts
  <2> QED BY <1>3, <2>4
<1>7. CASE scip_farkas  BY <1>5, <1>7 DEF scip_farkas
<1>8. CASE PricePaths  BY <1>5, <1>8 DEF PricePaths
<1>9. CASE PriceEdges  BY <1>5, <1>9 DEF PriceEdges
<1>10. CASE Heuristic  BY <1>5, <1>10 DEF Heuristic
<1>11. CASE Propagate  BY <1>4, <1>11 DEF Propagate
<1>12. CASE Solution  BY <1>4, <1>12 DEF Solution
<1>13. CASE RaiseLower  BY <1>4, <1>13 DEF RaiseLower
<1>14. CASE NextNode  BY <1>4, <1>14 DEF NextNode
<1>15. CASE UNCHANGED vars  BY <1>4, <1>15 DEF vars
<1> QED BY <1>6, <1>7, <1>8, <1>9, <1>10, <1>11, <1>12, <1>13, <1>14, <1>15 DEF Next

\* No cut of the sparse program that is there at any time removes a tour, priced or not:
\* none of the seven families does, for any network whose distances are shortest ones; but
\* for cycles entered from the start that have all other vertices.
THEOREM CutsAlwaysKeepTours == Spec => []ProperCutsKeepTours
<1>1. CInv => ProperCutsKeepTours  BY DEF CInv
<1> QED BY <1>1, CutsInit, CutsNext, PTL DEF Spec
=============================================================================
